-------------------------- MODULE HttpClients_proofs --------------------------
(***************************************************************************)
(* The safety of an HttpClient used with callbacks, proved for every number *)
(* of requests, every queue and every way of use in which a user closes a   *)
(* request after its callback, and a client that is redirected or posted to *)
(* without close() has one request at a time; then that a client used one   *)
(* way or the other serves its requests in turn, and that a polled one goes *)
(* on where it stopped, for every number of requests and of redirections.   *)
(***************************************************************************)
EXTENDS HttpClients, SequenceTheorems, TLAPS

\* num_sent_ counts the requests sent, unless one is sent again.
Pipelines(u) == u.redirects = 0 /\ ~u.reuses
Orderly(u) == Pipelines(u) \/ (u.queue <= 1 /\ (u.reuses => TRUE \notin u.keep_alives))

-----------------------------------------------------------------------------
(* The inductive invariant, in named parts: what holds of a client c of a   *)
(* user u when the requests D were dropped and `last` were posted.          *)

Places(c) == 1 .. Len(c.requests)
WriteKinds == {"write_head", "write_data"}
IsWrite(o) == o.what \in WriteKinds
Answered1 == {"opened", "finished"}
\* an operation is under way for a request in one of these
Busy == {"sending_req_head", "sending_req_data", "recving_resp_head", "recving_resp_data"}
StatusFor(what) ==
    CASE what = "connect"    -> "send_pending"
      [] what = "write_head" -> "sending_req_head"
      [] what = "write_data" -> "sending_req_data"
      [] what = "read_head"  -> "recving_resp_head"
      [] what = "read_data"  -> "recving_resp_data"

\* The requests are queued in the order they were posted.
InOrder(c, last) ==
    /\ \A i \in Places(c) : c.requests[i].id \in 1 .. last
    /\ \A i, j \in Places(c) : i < j => c.requests[i].id < c.requests[j].id

\* Only the front request is called back, once, when it is opened or finished.
FrontAnswered(c) ==
    /\ \A i \in Places(c) : i > 1 => c.requests[i].resp = "held"
    /\ c.requests # <<>> =>
         /\ c.requests[1].resp = "held" <=> c.requests[1].status \notin Answered1
         /\ c.requests[1].resp # "twice"

\* In a pipeline the first num_sent_ requests are sent, the next is perhaps
\* being sent and those behind it wait.
Line(c) ==
    /\ c.num_sent <= Len(c.requests)
    /\ \A i \in Places(c) :
         /\ i > c.num_sent => c.requests[i].status \in Unsent
         /\ i > c.num_sent + 1 => c.requests[i].status = "send_pending"
         /\ i <= c.num_sent => c.requests[i].status \notin Unsent
         /\ i <= c.num_sent /\ i > 1 => c.requests[i].status = "recv_pending"

\* The handler of an operation finds the request it was started for, in the
\* status that it leads on from.
OpMatches(c, o) ==
    /\ Position(c, o.pending) \in Places(c)
    /\ c.requests[Position(c, o.pending)].id = o.id
    /\ c.requests[Position(c, o.pending)].status = StatusFor(o.what)
    /\ ~IsWrite(o) => ~o.pending
    /\ o.what = "connect" <=> c.status = "connectting"

\* One write is under way, and one read or connect.
OneOfAKind(c) == \A o, p \in c.ops : (IsWrite(o) <=> IsWrite(p)) => o = p

\* A dropped request was begun, and nothing is under way for it.
DroppedShape(c, D, last) ==
    /\ D \subseteq 1 .. last
    /\ \A o \in c.ops : IsWrite(o) => o.id \notin D
    /\ \A i \in Places(c) : c.requests[i].id \in D => c.requests[i].status # "send_pending"

Modes(u, c, D) ==
    /\ Pipelines(u) => Line(c)
    /\ ~Pipelines(u) => Len(c.requests) <= 1 /\ D = {} /\ \A o \in c.ops : ~o.pending
    /\ u.reuses => ~c.is_keep_alive
    /\ u.reuses /\ ReusesFetch(c) => c.status = "broken"

\* A request that was sent is counted, so that handle_next can take it off.
FrontCounted(c) == c.requests # <<>> /\ c.requests[1].status \notin Unsent => c.num_sent > 0

Core(u, c, D, last) ==
    /\ c \in Clients /\ c.status # "ready"
    /\ InOrder(c, last) /\ FrontAnswered(c) /\ FrontCounted(c)
    /\ \A o \in c.ops : OpMatches(c, o)
    /\ OneOfAKind(c) /\ DroppedShape(c, D, last) /\ Modes(u, c, D)

\* What keeps the queue going.
ServedAt(c, D, i) ==
    c.requests[i].status \in Busy =>
        c.requests[i].id \in D \/ \E o \in c.ops : o.id = c.requests[i].id

Going(c) ==
    /\ c.status = "closed" => c.requests = <<>>
    /\ c.status = "connectting" => c.requests # <<>> /\ c.ops # {}
    /\ c.status \in Established /\ c.requests # <<>> => c.requests[1].status \notin Waits

Good(u, c, D, last) ==
    /\ Core(u, c, D, last) /\ Going(c)
    /\ \A i \in Places(c) : ServedAt(c, D, i)

IInv ==
    /\ user \in Uses /\ Orderly(user)
    /\ req_id \in 0 .. MaxPosts /\ redirected \in 0 .. user.redirects
    /\ Good(user, client, dropped, req_id)
-----------------------------------------------------------------------------
(* What the operators of HttpClient do to the fields of a client.           *)

LEMMA ClientTypes ==
  ASSUME NEW c \in Clients
  PROVE  /\ c.status \in ConnectionStatus /\ c.broken_error \in {"ok", "error"}
         /\ c.is_keep_alive \in BOOLEAN /\ c.num_sent \in Nat /\ c.layered \in BOOLEAN
         /\ c.response \in Responses /\ c.ops \subseteq Operations
         /\ c.requests \in Seq(Requests) /\ Len(c.requests) \in Nat
         /\ c.requests = <<>> <=> Len(c.requests) = 0
         /\ \A i \in Places(c) :
              /\ c.requests[i] \in Requests /\ c.requests[i].id \in Nat
              /\ c.requests[i].is_fetch \in BOOLEAN
              /\ c.requests[i].status \in RequestStatus /\ c.requests[i].resp \in Callbacks
  <1>1. c.requests \in Seq(Requests) /\ \A r \in Requests : 
              /\ r.id \in Nat /\ r.is_fetch \in BOOLEAN /\ r.status \in RequestStatus /\ r.resp \in Callbacks
    BY DEF Clients, Requests
  <1>2. Len(c.requests) \in Nat /\ (c.requests = <<>> <=> Len(c.requests) = 0)
        /\ \A i \in Places(c) : c.requests[i] \in Requests
    BY <1>1 DEF Places
  <1>3. /\ c.status \in ConnectionStatus /\ c.broken_error \in {"ok", "error"}
        /\ c.is_keep_alive \in BOOLEAN /\ c.num_sent \in Nat /\ c.layered \in BOOLEAN
        /\ c.response \in Responses /\ c.ops \subseteq Operations
    BY DEF Clients
  <1> QED BY <1>1, <1>2, <1>3

\* d is c but for the status s and the callback r of the request at i.
Marked(c, d, i, s, r) ==
    /\ d.requests \in Seq(Requests) /\ Len(d.requests) = Len(c.requests)
    /\ \A j \in Places(c) :
         /\ d.requests[j].id = c.requests[j].id
         /\ d.requests[j].is_fetch = c.requests[j].is_fetch
         /\ d.requests[j].status = IF j = i THEN s ELSE c.requests[j].status
         /\ d.requests[j].resp = IF j = i THEN r ELSE c.requests[j].resp

\* The connection is as it was.
SameConnection(c, d) ==
    /\ d.status = c.status /\ d.broken_error = c.broken_error
    /\ d.is_keep_alive = c.is_keep_alive

Change(c, i, s, r) ==
    [c EXCEPT !.requests =
        [c.requests EXCEPT ![i] = [c.requests[i] EXCEPT !.status = s, !.resp = r]]]

LEMMA RequestChanged ==
  ASSUME NEW c \in Clients, NEW i \in Places(c), NEW s \in RequestStatus, NEW r \in Callbacks
  PROVE  LET d == Change(c, i, s, r)
         IN /\ d \in Clients /\ SameConnection(c, d) /\ Marked(c, d, i, s, r)
            /\ d.num_sent = c.num_sent /\ d.ops = c.ops /\ d.layered = c.layered
  <1> DEFINE q == [c.requests[i] EXCEPT !.status = s, !.resp = r]
             p == [c.requests EXCEPT ![i] = q]
             d == [c EXCEPT !.requests = p]
  <1>1. q \in Requests /\ q.status = s /\ q.resp = r /\ q.id = c.requests[i].id /\ q.is_fetch = c.requests[i].is_fetch
    BY ClientTypes DEF Requests
  <1>2. p \in Seq(Requests) /\ Len(p) = Len(c.requests) /\ \A j \in Places(c) : p[j] = IF j = i THEN q ELSE c.requests[j]
    <2> HIDE DEF q
    <2> QED BY <1>1, ClientTypes, ExceptSeq DEF Places
  <1>3. d \in Clients /\ SameConnection(c, d) /\ d.num_sent = c.num_sent /\ d.ops = c.ops /\ d.layered = c.layered /\ d.requests = p
    <2> HIDE DEF p
    <2> QED BY <1>2 DEF Clients, SameConnection
  <1>4. Marked(c, d, i, s, r)
    <2> HIDE DEF p, d, q
    <2> QED BY <1>1, <1>2, <1>3 DEF Marked
  <1>5. Change(c, i, s, r) = d
    BY DEF Change
  <1> HIDE DEF d
  <1> QED BY <1>3, <1>4, <1>5

LEMMA SetStatusFields ==
  ASSUME NEW c \in Clients, NEW i \in Places(c), NEW s \in RequestStatus
  PROVE  LET d == SetStatus(c, i, s) IN
         /\ d \in Clients /\ SameConnection(c, d)
         /\ Marked(c, d, i, s, c.requests[i].resp)
         /\ d.num_sent = c.num_sent /\ d.ops = c.ops /\ d.layered = c.layered
  <1>1. c.requests[i] \in Requests /\ c.requests[i].resp \in Callbacks
    BY ClientTypes
  <1>2. [c.requests[i] EXCEPT !.status = s, !.resp = c.requests[i].resp] = [c.requests[i] EXCEPT !.status = s]
    BY <1>1 DEF Requests
  <1>3. SetStatus(c, i, s) = Change(c, i, s, c.requests[i].resp)
    BY <1>2 DEF SetStatus, Change
  <1> QED BY <1>1, <1>3, RequestChanged

LEMMA RespondFields ==
  ASSUME NEW c \in Clients, NEW i \in Places(c)
  PROVE  LET d == Respond(c, i) IN
         /\ d \in Clients /\ SameConnection(c, d)
         /\ Marked(c, d, i, c.requests[i].status,
                   IF c.requests[i].resp = "held" THEN "posted" ELSE "twice")
         /\ d.num_sent = c.num_sent /\ d.ops = c.ops /\ d.layered = c.layered
  <1> DEFINE r == IF c.requests[i].resp = "held" THEN "posted" ELSE "twice"
             t == c.requests[i].status
  <1>1. c.requests[i] \in Requests /\ r \in Callbacks /\ t \in RequestStatus
    BY ClientTypes DEF Callbacks
  <1>2. [c.requests[i] EXCEPT !.status = t, !.resp = r] = [c.requests[i] EXCEPT !.resp = r]
    BY <1>1 DEF Requests
  <1>3. Respond(c, i) = Change(c, i, t, r)
    BY <1>2 DEF Respond, Change
  <1> HIDE DEF r
  <1> QED BY <1>1, <1>3, RequestChanged DEF r

\* Closing the socket ends the operations, each with its result.
Ended(o) == [o EXCEPT !.result = IF @ = "pending" THEN "error" ELSE @]
Aborted(ops) == {Ended(o) : o \in ops}

LEMMA EndedOp ==
  ASSUME NEW o \in Operations
  PROVE  Ended(o) \in Operations /\ Ended(o).what = o.what /\ Ended(o).pending = o.pending /\ Ended(o).id = o.id
  BY DEF Ended, Operations, ErrorCodes

LEMMA AbortedOps ==
  ASSUME NEW ops \in SUBSET Operations
  PROVE  /\ Aborted(ops) \subseteq Operations
         /\ \A o \in Aborted(ops) : \E p \in ops :
              o = Ended(p) /\ o.what = p.what /\ o.pending = p.pending /\ o.id = p.id
         /\ \A p \in ops : \E o \in Aborted(ops) :
              o.what = p.what /\ o.pending = p.pending /\ o.id = p.id
         /\ ops = {} => Aborted(ops) = {}
  BY EndedOp DEF Aborted

LEMMA CloseSocketFields ==
  ASSUME NEW c \in Clients
  PROVE  LET d == CloseSocket(c) IN
         /\ d \in Clients /\ SameConnection(c, d) /\ d.requests = c.requests
         /\ d.num_sent = c.num_sent /\ d.layered = c.layered /\ d.ops = Aborted(c.ops)
  <1>1. Aborted(c.ops) \subseteq Operations
    BY AbortedOps, ClientTypes
  <1> QED BY <1>1 DEF CloseSocket, Aborted, Ended, Clients, SameConnection

LEMMA BreakFields ==
  ASSUME NEW c \in Clients
  PROVE  LET d == Break(c) IN
         /\ d \in Clients /\ d.requests = c.requests /\ d.num_sent = c.num_sent
         /\ d.status = "broken" /\ d.broken_error = "error" /\ d.is_keep_alive = c.is_keep_alive
         /\ d.layered = c.layered /\ d.ops = Aborted(c.ops)
  BY CloseSocketFields DEF Break, Clients, ConnectionStatus, SameConnection
LEMMA MarkedTwice ==
  ASSUME NEW c \in Clients, NEW d \in Clients, NEW e, NEW i \in Places(c),
         NEW s, NEW r, NEW t, NEW q, Marked(c, d, i, s, r), Marked(d, e, i, t, q)
  PROVE  Marked(c, e, i, t, q)
  BY DEF Marked, Places

LEMMA MarkedNot ==
  ASSUME NEW c \in Clients, NEW d, NEW i \in Places(c), d.requests = c.requests
  PROVE  Marked(c, d, i, c.requests[i].status, c.requests[i].resp)
  BY ClientTypes DEF Marked

OpsKept(c, d) == d.ops = c.ops \/ d.ops = Aborted(c.ops)

\* The end of a request that failed: the connection is broken with it.
LEMMA FailFields ==
  ASSUME NEW c \in Clients, NEW i \in Places(c)
  PROVE  LET d == Fail(c, i) IN
         /\ d \in Clients /\ d.status = "broken" /\ d.is_keep_alive = c.is_keep_alive
         /\ Marked(c, d, i, "finished", c.requests[i].resp)
         /\ d.num_sent = CountFailed(c, i) /\ OpsKept(c, d)
  <1> DEFINE e == [c EXCEPT !.num_sent = CountFailed(c, i)]
             f == SetStatus(e, i, "finished")
  <1>1. e \in Clients /\ SameConnection(c, e) /\ e.requests = c.requests /\ e.ops = c.ops
        /\ e.num_sent = CountFailed(c, i)
    BY DEF CountFailed, Clients, SameConnection
  <1>2. /\ f \in Clients /\ SameConnection(c, f) /\ Marked(c, f, i, "finished", c.requests[i].resp)
        /\ f.ops = c.ops /\ f.num_sent = CountFailed(c, i)
    <2> HIDE DEF e
    <2>1. i \in Places(e) /\ "finished" \in RequestStatus
      BY <1>1 DEF Places, RequestStatus
    <2> QED BY <1>1, <2>1, SetStatusFields, SMTT(30) DEF SameConnection, Marked, Places
  <1>3. Fail(c, i) = IF c.status = "broken" THEN f ELSE Break(f)
    BY DEF Fail
  <1>4. CASE c.status = "broken"
    <2> HIDE DEF f
    <2> QED BY <1>2, <1>3, <1>4 DEF SameConnection, OpsKept
  <1>5. CASE c.status # "broken"
    <2> HIDE DEF f
    <2> QED BY <1>2, <1>3, <1>5, BreakFields DEF SameConnection, OpsKept, Marked
  <1> QED BY <1>4, <1>5

LEMMA PostHandleFields ==
  ASSUME NEW c \in Clients, NEW i \in Places(c), NEW failed \in BOOLEAN
  PROVE  LET d == PostHandle(c, i, failed)
             s == IF failed THEN "finished" ELSE c.requests[i].status
         IN  /\ d \in Clients /\ d.status \in {c.status, "broken"}
             /\ Marked(c, d, i, s, c.requests[i].resp)
             /\ d.num_sent = (IF failed THEN CountFailed(c, i) ELSE c.num_sent)
             /\ OpsKept(c, d)
             /\ c.is_keep_alive = FALSE => d.is_keep_alive = FALSE
             /\ failed => d.status = "broken"
             /\ c.status = "established" /\ s = "finished" /\ c.is_keep_alive = FALSE => d.status = "broken"
  <1> DEFINE s == IF failed THEN "finished" ELSE c.requests[i].status
             e == IF failed THEN Fail(c, i) ELSE c
             f == IF e.requests[i].status \in OpenedOn \ {"opened"} THEN Break(e) ELSE e
             g == [f EXCEPT !.is_keep_alive = FALSE]
  <1>1. /\ e \in Clients /\ e.status = (IF failed THEN "broken" ELSE c.status)
        /\ Marked(c, e, i, s, c.requests[i].resp)
        /\ e.num_sent = (IF failed THEN CountFailed(c, i) ELSE c.num_sent)
        /\ OpsKept(c, e) /\ e.is_keep_alive = c.is_keep_alive
        /\ failed \/ e = c
    BY FailFields, MarkedNot DEF OpsKept
  <1>2. e.requests[i].status = s
    BY <1>1 DEF Marked
  <1>3. PostHandle(c, i, failed) = IF ~EndsConnection(e, i) THEN e ELSE g
    BY DEF PostHandle
  <1>4. CASE ~EndsConnection(e, i)
    <2>1. e.status = "established" => e.is_keep_alive
      BY <1>4 DEF EndsConnection
    <2> HIDE DEF e, g
    <2> QED BY <1>1, <1>3, <1>4, <2>1
  <1>5. CASE EndsConnection(e, i)
    <2>1. e = c
      BY <1>1, <1>5 DEF EndsConnection
    <2>2. /\ f \in Clients /\ f.requests = c.requests /\ f.num_sent = c.num_sent /\ OpsKept(c, f)
          /\ f.status = (IF c.requests[i].status \in OpenedOn \ {"opened"} THEN "broken" ELSE c.status)
      <3> HIDE DEF e
      <3> QED BY <2>1, BreakFields DEF OpsKept
    <2>3. /\ g \in Clients /\ g.requests = f.requests /\ g.num_sent = f.num_sent /\ g.ops = f.ops
          /\ g.status = f.status /\ g.is_keep_alive = FALSE
      <3> HIDE DEF f
      <3> QED BY <2>2 DEF Clients
    <2>4. Marked(c, g, i, c.requests[i].status, c.requests[i].resp)
      BY <2>2, <2>3, MarkedNot
    <2>5. failed = FALSE
      BY <1>1, <1>5, <2>1 DEF EndsConnection
    <2> HIDE DEF e, f, g
    <2> QED BY <1>3, <1>5, <2>2, <2>3, <2>4, <2>5 DEF OpsKept, OpenedOn
  <1> QED BY <1>4, <1>5
-----------------------------------------------------------------------------
(* The front request is answered: by an error, opened, or fetched.          *)

FrontEnds(c, d, s) ==
    /\ d \in Clients /\ d.status \in {c.status, "broken"}
    /\ Marked(c, d, 1, s, "posted")
    /\ d.num_sent = (IF c.requests[1].status \in Unsent THEN c.num_sent + 1 ELSE c.num_sent)
    /\ OpsKept(c, d)
    /\ c.is_keep_alive = FALSE =>
         /\ d.is_keep_alive = FALSE
         /\ s = "finished" /\ c.status \in {"established", "broken"} => d.status = "broken"

\* What PostHandle and Respond make of a front request set to s.
LEMMA EndedFields ==
  ASSUME NEW c \in Clients, NEW d \in Clients, c.requests # <<>>, NEW s \in RequestStatus, NEW failed \in BOOLEAN,
         SameConnection(c, d), Marked(c, d, 1, s, "held"), d.num_sent = c.num_sent, d.ops = c.ops,
         failed => s = c.requests[1].status, ~failed => c.requests[1].status \notin Unsent
  PROVE  FrontEnds(c, Respond(PostHandle(d, 1, failed), 1), IF failed THEN "finished" ELSE s)
  <1> DEFINE e == PostHandle(d, 1, failed)
             f == Respond(e, 1)
             t == IF failed THEN "finished" ELSE s
  <1>1. 1 \in Places(c) /\ 1 \in Places(d) /\ d.requests[1].status = s /\ d.requests[1].resp = "held"
    BY ClientTypes DEF Marked, Places
  <1>2. /\ e \in Clients /\ e.status \in {d.status, "broken"} /\ Marked(d, e, 1, t, "held")
        /\ e.num_sent = (IF failed THEN CountFailed(d, 1) ELSE d.num_sent) /\ OpsKept(d, e)
        /\ d.is_keep_alive = FALSE => e.is_keep_alive = FALSE
        /\ failed => e.status = "broken"
        /\ d.status = "established" /\ t = "finished" /\ d.is_keep_alive = FALSE => e.status = "broken"
    BY <1>1, PostHandleFields
  <1> HIDE DEF e
  <1>3. 1 \in Places(e) /\ e.requests[1].status = t /\ e.requests[1].resp = "held"
    BY <1>1, <1>2 DEF Marked, Places
  <1>4. /\ f \in Clients /\ SameConnection(e, f) /\ Marked(e, f, 1, t, "posted")
        /\ f.num_sent = e.num_sent /\ f.ops = e.ops
    BY <1>2, <1>3, RespondFields
  <1> HIDE DEF f
  <1>5. Marked(c, e, 1, t, "held")
    BY <1>1, <1>2, MarkedTwice
  <1>6. Marked(c, f, 1, t, "posted")
    BY <1>1, <1>2, <1>4, <1>5, MarkedTwice
  <1>7. f.num_sent = (IF c.requests[1].status \in Unsent THEN c.num_sent + 1 ELSE c.num_sent)
    BY <1>1, <1>2, <1>4 DEF CountFailed
  <1>8. OpsKept(c, f)
    BY <1>2, <1>4 DEF OpsKept
  <1> QED BY <1>2, <1>4, <1>6, <1>7, <1>8 DEF FrontEnds, SameConnection, e, f

LEMMA FailedEnds ==
  ASSUME NEW c \in Clients, c.requests # <<>>, c.requests[1].resp = "held"
  PROVE  FrontEnds(c, Failed(c, 1, FALSE), "finished")
  <1>1. 1 \in Places(c) /\ c.requests[1].status \in RequestStatus
    BY ClientTypes DEF Places
  <1>2. Marked(c, c, 1, c.requests[1].status, "held")
    BY <1>1, MarkedNot
  <1> QED BY <1>1, <1>2, EndedFields DEF Failed, SameConnection

LEMMA FetchedEnds ==
  ASSUME NEW c \in Clients, c.requests # <<>>, c.requests[1].resp = "held",
         c.requests[1].status \notin Unsent
  PROVE  FrontEnds(c, Fetched(c), "finished")
  <1> DEFINE d == SetStatus(c, 1, "finished")
             e == ResetSource(d)
  <1>1. 1 \in Places(c) /\ "finished" \in RequestStatus
    BY ClientTypes DEF Places, RequestStatus
  <1>2. /\ d \in Clients /\ SameConnection(c, d) /\ Marked(c, d, 1, "finished", "held")
        /\ d.num_sent = c.num_sent /\ d.ops = c.ops
    BY <1>1, SetStatusFields
  <1> HIDE DEF d
  <1>3. /\ e \in Clients /\ SameConnection(c, e) /\ e.requests = d.requests
        /\ e.num_sent = c.num_sent /\ e.ops = c.ops
    BY <1>2 DEF ResetSource, Clients, SameConnection
  <1>4. Marked(c, e, 1, "finished", "held")
    BY <1>2, <1>3 DEF Marked
  <1> HIDE DEF e
  <1> QED BY <1>1, <1>3, <1>4, EndedFields DEF Fetched, d, e

\* The head of the response is taken: the front request goes on with its body.
Taken(c, response, s) ==
    SetStatus([c EXCEPT !.response = response, !.layered = response.framing # "none"], 1, s)

LEMMA TakenFields ==
  ASSUME NEW c \in Clients, c.requests # <<>>, NEW response \in Responses, NEW s \in RequestStatus
  PROVE  LET d == Taken(c, response, s) IN
         /\ d \in Clients /\ SameConnection(c, d) /\ Marked(c, d, 1, s, c.requests[1].resp)
         /\ d.num_sent = c.num_sent /\ d.ops = c.ops
  <1> DEFINE e == [c EXCEPT !.response = response, !.layered = response.framing # "none"]
             d == SetStatus(e, 1, s)
  <1>1. /\ e \in Clients /\ e.requests = c.requests /\ e.num_sent = c.num_sent /\ e.ops = c.ops
        /\ SameConnection(c, e)
    BY DEF Clients, SameConnection
  <1>2. Taken(c, response, s) = d
    BY DEF Taken
  <1> HIDE DEF e
  <1>3. 1 \in Places(e)
    BY <1>1, ClientTypes DEF Places
  <1>4. /\ d \in Clients /\ SameConnection(e, d) /\ Marked(e, d, 1, s, e.requests[1].resp)
        /\ d.num_sent = e.num_sent /\ d.ops = e.ops
    BY <1>1, <1>3, SetStatusFields
  <1> HIDE DEF d
  <1> QED BY <1>1, <1>2, <1>4 DEF Marked, Places, SameConnection

\* What handle_async_reqeust makes of a response head: a request opened, a fetch
\* without a body finished, or the body to be read.
LEMMA ReceivedHeadEnds ==
  ASSUME NEW c \in Clients, c.requests # <<>>, c.requests[1].resp = "held",
         c.requests[1].status \notin Unsent, NEW response \in Responses
  PROVE  LET body == Taken(c, response, "recving_resp_data") IN
         \/ FrontEnds(c, ReceivedHead(c, response), "opened")
         \/ FrontEnds(c, ReceivedHead(c, response), "finished")
         \/ ReceivedHead(c, response) = Issue(body, "read_data", FALSE, 1)
  <1> DEFINE body == Taken(c, response, "recving_resp_data")
             opened == Taken(c, response, "opened")
  <1>1. "opened" \in RequestStatus /\ "recving_resp_data" \in RequestStatus \ Unsent
    BY DEF RequestStatus, Unsent
  <1>2. /\ body \in Clients /\ SameConnection(c, body)
        /\ Marked(c, body, 1, "recving_resp_data", "held")
        /\ body.num_sent = c.num_sent /\ body.ops = c.ops
    BY <1>1, TakenFields
  <1>3. /\ opened \in Clients /\ SameConnection(c, opened)
        /\ Marked(c, opened, 1, "opened", "held")
        /\ opened.num_sent = c.num_sent /\ opened.ops = c.ops
    BY <1>1, TakenFields
  <1> HIDE DEF body, opened
  <1>4. FrontEnds(c, Respond(PostHandle(opened, 1, FALSE), 1), "opened")
    BY <1>1, <1>3, EndedFields
  <1>5. FrontEnds(body, Fetched(body), "finished")
    BY <1>1, <1>2, ClientTypes, FetchedEnds DEF Marked, Places
  <1>6. FrontEnds(c, Fetched(body), "finished")
    <2>1. 1 \in Places(c)
      BY ClientTypes DEF Places
    <2>2. Marked(c, Fetched(body), 1, "finished", "posted")
      BY <1>2, <1>5, <2>1, MarkedTwice DEF FrontEnds
    <2>3. body.requests[1].status = "recving_resp_data"
      BY <1>2, <2>1 DEF Marked
    <2> QED BY <1>1, <1>2, <1>5, <2>2, <2>3 DEF FrontEnds, SameConnection, OpsKept
  <1>7. \/ ReceivedHead(c, response) = Respond(PostHandle(opened, 1, FALSE), 1)
        \/ ReceivedHead(c, response) = Fetched(body)
        \/ ReceivedHead(c, response) = Issue(body, "read_data", FALSE, 1)
    BY DEF ReceivedHead, Taken, body, opened
  <1> QED BY <1>4, <1>6, <1>7 DEF body
-----------------------------------------------------------------------------
(* An answer to the front request keeps the invariant.                      *)

LEMMA KeptOps ==
  ASSUME NEW c \in Clients, NEW d, OpsKept(c, d), OneOfAKind(c)
  PROVE  /\ OneOfAKind(d)
         /\ \A o \in d.ops : \E p \in c.ops : o.what = p.what /\ o.pending = p.pending /\ o.id = p.id
         /\ \A p \in c.ops : \E o \in d.ops : o.what = p.what /\ o.pending = p.pending /\ o.id = p.id
         /\ c.ops = {} => d.ops = {}
  BY ClientTypes, AbortedOps DEF OpsKept, OneOfAKind, IsWrite

LEMMA AnsweredGood ==
  ASSUME NEW u, NEW c, NEW D, NEW last, NEW d, NEW s \in Answered1,
         Core(u, c, D, last), c.requests # <<>>, c.status \in {"established", "broken"},
         c.requests[1].resp = "held",
         \A o \in c.ops : Position(c, o.pending) # 1,
         \A i \in Places(c) : i > 1 => ServedAt(c, D, i),
         FrontEnds(c, d, s)
  PROVE  Good(u, d, D, last)
  <1> USE DEF Core, FrontEnds
  <1>1. c \in Clients /\ 1 \in Places(c) /\ Places(d) = Places(c) /\ d.requests # <<>>
    BY ClientTypes DEF Places, Marked
  <1>2. InOrder(d, last)
    BY <1>1 DEF InOrder, Marked
  <1>3. FrontAnswered(d)
    BY <1>1 DEF FrontAnswered, Marked, Answered1
  <1>4. /\ OneOfAKind(d)
        /\ \A o \in d.ops : \E p \in c.ops : o.what = p.what /\ o.pending = p.pending /\ o.id = p.id
        /\ \A p \in c.ops : \E o \in d.ops : o.what = p.what /\ o.pending = p.pending /\ o.id = p.id
        /\ c.ops = {} => d.ops = {}
    BY KeptOps
  <1> DEFINE Rest ==
        /\ \A o \in d.ops : OpMatches(d, o)
        /\ Pipelines(u) => Line(d)
        /\ ~Pipelines(u) => Len(d.requests) <= 1 /\ D = {} /\ \A o \in d.ops : ~o.pending
  <1>5. ASSUME Pipelines(u) PROVE Rest
    <2>1. Line(c) /\ c.num_sent \in Nat /\ d.num_sent \in Nat
      BY <1>1, <1>5, ClientTypes DEF Modes
    <2>2. c.requests[1].status \in Unsent <=> c.num_sent = 0
      BY <1>1, <2>1 DEF Line, Places
    <2>3. Line(d)
      <3>1. /\ Len(d.requests) = Len(c.requests) /\ Len(c.requests) \in Nat /\ Len(c.requests) >= 1
            /\ d.num_sent = (IF c.num_sent = 0 THEN 1 ELSE c.num_sent)
        BY <1>1, <2>1, <2>2 DEF Marked, Places
      <3>2. d.num_sent >= 1 /\ d.num_sent <= Len(d.requests) /\ (d.num_sent = 1 \/ d.num_sent = c.num_sent)
        BY <2>1, <3>1 DEF Line
      <3>3. d.requests[1].status \notin Unsent
        BY <1>1 DEF Marked, Answered1, Unsent
      <3>4. ASSUME NEW i \in Places(d)
            PROVE  /\ i > d.num_sent => d.requests[i].status \in Unsent
                   /\ i > d.num_sent + 1 => d.requests[i].status = "send_pending"
                   /\ i <= d.num_sent => d.requests[i].status \notin Unsent
                   /\ i <= d.num_sent /\ i > 1 => d.requests[i].status = "recv_pending"
        <4>1. CASE i = 1
          BY <2>1, <3>2, <3>3, <4>1
        <4>2. CASE i # 1
          <5>1. i \in Places(c) /\ i \in Nat /\ i > 1 /\ d.requests[i].status = c.requests[i].status
            BY <1>1, <3>1, <4>2 DEF Marked, Places
          <5> QED BY <2>1, <3>1, <5>1 DEF Line
        <4> QED BY <4>1, <4>2
      <3> QED BY <3>2, <3>4 DEF Line
    <2>4. \A o \in c.ops : o.pending /\ c.num_sent # 0
      BY <2>1 DEF Position
    <2>5. ASSUME NEW o \in d.ops PROVE OpMatches(d, o)
      <3>1. PICK p \in c.ops : o.what = p.what /\ o.pending = p.pending /\ o.id = p.id
        BY <1>4
      <3>2. OpMatches(c, p) /\ p.pending /\ c.num_sent # 0 /\ Position(c, p.pending) = c.num_sent + 1
        BY <2>4 DEF Position
      <3>3. Position(d, o.pending) = c.num_sent + 1 /\ c.num_sent + 1 # 1
        BY <2>1, <2>2, <3>1, <3>2 DEF Position
      <3>4. IsWrite(p) <=> IsWrite(o)
        BY <3>1 DEF IsWrite
      <3>5. IsWrite(p) /\ p.what # "connect"
        BY <3>2 DEF OpMatches, IsWrite, WriteKinds
      <3> DEFINE j == c.num_sent + 1
      <3>6. /\ j \in Places(c) /\ c.requests[j].id = p.id
            /\ c.requests[j].status = StatusFor(p.what)
        BY <3>2 DEF OpMatches
      <3>7. d.requests[j].id = o.id /\ d.requests[j].status = StatusFor(o.what)
        BY <3>1, <3>3, <3>6 DEF Marked
      <3>8. d.status # "connectting" /\ o.what # "connect"
        BY <3>1, <3>5
      <3> HIDE DEF j
      <3> QED BY <1>1, <3>1, <3>3, <3>4, <3>5, <3>6, <3>7, <3>8 DEF OpMatches, j
    <2> QED BY <1>5, <2>3, <2>5
  <1>6. ASSUME ~Pipelines(u) PROVE Rest
    <2>1. c.ops = {}
      BY <1>6 DEF Modes, Position
    <2> QED BY <1>1, <1>4, <1>6, <2>1 DEF Modes, Marked
  <1>7. DroppedShape(d, D, last)
    <2>1. \A o \in d.ops : IsWrite(o) => o.id \notin D
      BY <1>4 DEF DroppedShape, IsWrite
    <2> QED BY <1>1, <2>1 DEF DroppedShape, Marked, Answered1
  <1>8. u.reuses => ~d.is_keep_alive /\ (ReusesFetch(d) => d.status = "broken")
    <2>1. u.reuses => c.is_keep_alive = FALSE
      BY ClientTypes DEF Modes
    <2>2. ReusesFetch(d) => s = "finished"
      BY <1>1 DEF ReusesFetch, Front, Marked
    <2> QED BY <2>1, <2>2
  <1>9. Going(d) /\ d.status # "ready"
    BY <1>1 DEF Going, Marked, Answered1, Waits, Established
  <1>10. \A i \in Places(d) : ServedAt(d, D, i)
    <2> SUFFICES ASSUME NEW i \in Places(d), i > 1, d.requests[i].status \in Busy PROVE ServedAt(d, D, i)
      BY <1>1 DEF ServedAt, Marked, Busy, Answered1, Places
    <2>1. ServedAt(c, D, i) /\ c.requests[i].status = d.requests[i].status /\ c.requests[i].id = d.requests[i].id
      BY <1>1 DEF Marked
    <2> QED BY <1>4, <2>1 DEF ServedAt
  <1>11. FrontCounted(d)
    <2>1. c.num_sent \in Nat
      BY <1>1, ClientTypes
    <2>2. CASE c.requests[1].status \in Unsent
      BY <2>1, <2>2 DEF FrontCounted
    <2>3. CASE c.requests[1].status \notin Unsent
      BY <1>1, <2>1, <2>3 DEF FrontCounted
    <2> QED BY <2>2, <2>3
  <1> QED BY <1>1, <1>2, <1>3, <1>4, <1>5, <1>6, <1>7, <1>8, <1>9, <1>10, <1>11 DEF Good, Modes
-----------------------------------------------------------------------------
(* An operation is begun for the request at i.                              *)

Operation(c, what, pending, i) ==
    [what |-> what, pending |-> pending, id |-> c.requests[i].id, result |-> "pending"]
Kinds == {"write_head", "write_data", "read_head", "read_data"}

LEMMA IssueFields ==
  ASSUME NEW c \in Clients, NEW i \in Places(c), NEW pending \in BOOLEAN,
         NEW what \in Kinds \cup {"connect"}
  PROVE  LET d == Issue(c, what, pending, i) IN
         /\ d \in Clients /\ SameConnection(c, d) /\ d.requests = c.requests
         /\ d.num_sent = c.num_sent /\ d.ops = c.ops \cup {Operation(c, what, pending, i)}
  <1>1. Operation(c, what, pending, i) \in Operations
    BY ClientTypes DEF Operation, Operations, Kinds
  <1> QED BY <1>1 DEF Issue, Operation, Clients, SameConnection

Begins(c, d, i, what, pending) ==
    /\ d \in Clients /\ SameConnection(c, d)
    /\ Marked(c, d, i, StatusFor(what), c.requests[i].resp)
    /\ d.num_sent = c.num_sent /\ d.ops = c.ops \cup {Operation(c, what, pending, i)}

LEMMA BeginFields ==
  ASSUME NEW c \in Clients, NEW i \in Places(c), NEW pending \in BOOLEAN, NEW what \in Kinds,
         NEW e \in Clients, SameConnection(c, e), e.num_sent = c.num_sent, e.ops = c.ops,
         Marked(c, e, i, StatusFor(what), c.requests[i].resp)
  PROVE  Begins(c, Issue(e, what, pending, i), i, what, pending)
  <1>1. i \in Places(e) /\ e.requests[i].id = c.requests[i].id
    BY DEF Places, Marked
  <1> QED BY <1>1, IssueFields DEF Begins, SameConnection, Marked, Operation

LEMMA SendBegins ==
  ASSUME NEW c \in Clients, NEW i \in Places(c), NEW pending \in BOOLEAN
  PROVE  /\ Begins(c, SendHead(c, i, pending), i, "write_head", pending)
         /\ Begins(c, SendData(c, i, pending), i, "write_data", pending)
  <1>1. /\ StatusFor("write_head") = "sending_req_head" /\ StatusFor("write_data") = "sending_req_data"
        /\ {"sending_req_head", "sending_req_data"} \subseteq RequestStatus
        /\ "write_head" \in Kinds /\ "write_data" \in Kinds
    BY DEF StatusFor, RequestStatus, Kinds
  <1>2. Begins(c, Issue(SetStatus(c, i, "sending_req_head"), "write_head", pending, i), i, "write_head", pending)
    BY <1>1, SetStatusFields, BeginFields
  <1>3. Begins(c, Issue(SetStatus(c, i, "sending_req_data"), "write_data", pending, i), i, "write_data", pending)
    BY <1>1, SetStatusFields, BeginFields
  <1> QED BY <1>2, <1>3 DEF SendHead, SendData

LEMMA ReceiveBegins ==
  ASSUME NEW c \in Clients, c.requests # <<>>
  PROVE  /\ Begins(c, ReceiveHead(c), 1, "read_head", FALSE)
         /\ \A response \in Responses :
              Begins(c, Issue(Taken(c, response, "recving_resp_data"), "read_data", FALSE, 1),
                     1, "read_data", FALSE)
  <1>1. /\ StatusFor("read_head") = "recving_resp_head" /\ StatusFor("read_data") = "recving_resp_data"
        /\ {"recving_resp_head", "recving_resp_data"} \subseteq RequestStatus
        /\ "read_head" \in Kinds /\ "read_data" \in Kinds /\ 1 \in Places(c)
    BY ClientTypes DEF StatusFor, RequestStatus, Kinds, Places
  <1>2. Begins(c, Issue(SetStatus(c, 1, "recving_resp_head"), "read_head", FALSE, 1), 1, "read_head", FALSE)
    BY <1>1, SetStatusFields, BeginFields
  <1>3. ASSUME NEW response \in Responses
        PROVE  Begins(c, Issue(Taken(c, response, "recving_resp_data"), "read_data", FALSE, 1), 1, "read_data", FALSE)
    BY <1>1, TakenFields, BeginFields
  <1> QED BY <1>2, <1>3 DEF ReceiveHead

\* What is left to show for a client that is on a connection.
LEMMA GoodOn ==
  ASSUME NEW u, NEW c, NEW D, NEW last, Core(u, c, D, last), c.status \in {"established", "broken"},
         c.requests # <<>> => c.requests[1].status \notin Waits,
         \A j \in Places(c) : ServedAt(c, D, j)
  PROVE  Good(u, c, D, last)
  BY DEF Good, Going, Established

LEMMA BegunCore ==
  ASSUME NEW u, NEW c, NEW D, NEW last, NEW d, NEW i \in Places(c), NEW what \in Kinds, NEW pending \in BOOLEAN,
         Core(u, c, D, last), c.status \in {"established", "broken"},
         c.requests[i].resp = "held", Position(c, pending) = i,
         what \notin WriteKinds => ~pending,
         what \in WriteKinds => c.requests[i].id \notin D,
         what \in WriteKinds <=> c.requests[i].status \in Unsent,
         ~Pipelines(u) => ~pending,
         \A o \in c.ops : Position(c, o.pending) # i /\ (IsWrite(o) <=> what \notin WriteKinds),
         Begins(c, d, i, what, pending)
  PROVE  /\ Core(u, d, D, last) /\ ServedAt(d, D, i)
         /\ \A j \in Places(c) : j # i /\ ServedAt(c, D, j) => ServedAt(d, D, j)
         /\ (\A j \in Places(c) : j # i => ServedAt(c, D, j)) /\ (i # 1 => c.requests[1].status \notin Waits)
              => Good(u, d, D, last)
  <1> USE DEF Core, Begins
  <1> DEFINE op == Operation(c, what, pending, i)
  <1>0. /\ op.what = what /\ op.pending = pending /\ op.id = c.requests[i].id
        /\ IsWrite(op) <=> what \in WriteKinds
    BY DEF Operation, IsWrite
  <1>1. c \in Clients /\ Places(d) = Places(c) /\ c.requests # <<>> /\ 1 \in Places(c)
    BY ClientTypes DEF Places, Marked
  <1>2. InOrder(d, last)
    BY <1>1 DEF InOrder, Marked
  <1>3. StatusFor(what) \in Busy \ Answered1 /\ (StatusFor(what) \in Unsent <=> what \in WriteKinds)
    BY DEF StatusFor, Busy, Answered1, Unsent, WriteKinds, Kinds
  <1>4. FrontAnswered(d)
    BY <1>1, <1>3, ClientTypes DEF FrontAnswered, Marked, Answered1, Places
  <1>5. ASSUME NEW o \in c.ops PROVE OpMatches(d, o)
    BY <1>1 DEF OpMatches, Marked, Position, SameConnection
  <1>6. OpMatches(d, op)
    <2>1. Position(d, op.pending) = i /\ op.what # "connect" /\ d.status # "connectting"
      BY <1>0 DEF Position, SameConnection, Kinds
    <2> QED BY <1>0, <1>1, <2>1 DEF OpMatches, Marked
  <1>7. OneOfAKind(d)
    <2> QED BY <1>0 DEF OneOfAKind
  <1>8. DroppedShape(d, D, last)
    <2> QED BY <1>0, <1>1, <1>3 DEF DroppedShape, Marked, Busy
  <1>9. Pipelines(u) => Line(d)
    <2> SUFFICES ASSUME Line(c) PROVE Line(d)
      BY DEF Modes
    <2>0. c.num_sent \in Nat /\ i \in Nat /\ i >= 1 /\ Len(c.requests) \in Nat
      BY ClientTypes DEF Places
    <2> USE <1>1, <1>3, <2>0 DEF Line, Marked, Position, Places, Unsent
    <2>1. CASE what \in WriteKinds
      <3>1. i = c.num_sent + 1
        BY <2>1
      <3> QED BY <2>1, <3>1
    <2>2. CASE what \notin WriteKinds
      <3>1. i = 1 /\ i <= c.num_sent
        BY <2>2
      <3>2. \A j \in Places(d) : d.requests[j].status = IF j = 1 THEN StatusFor(what) ELSE c.requests[j].status
        BY <3>1
      <3>3. StatusFor(what) \notin Unsent
        BY <2>2
      <3> QED BY <3>1, <3>2, <3>3
    <2> QED BY <2>1, <2>2
  <1>10. ~Pipelines(u) => Len(d.requests) <= 1 /\ D = {} /\ \A o \in d.ops : ~o.pending
    <2> QED BY <1>0 DEF Modes, Marked
  <1>11. u.reuses => ~d.is_keep_alive /\ ~ReusesFetch(d)
    BY <1>1, <1>3 DEF Modes, SameConnection, ReusesFetch, Front, Marked, Places, Busy
  <1>15. FrontCounted(d)
    BY <1>1, <1>3 DEF FrontCounted, Marked
  <1>12. Core(u, d, D, last)
    <2> QED BY <1>15, <1>2, <1>4, <1>5, <1>6, <1>7, <1>8, <1>9, <1>10, <1>11 DEF Modes, SameConnection
  <1>13. ServedAt(d, D, i)
    <2> QED BY <1>0 DEF ServedAt, Marked
  <1>14. \A j \in Places(c) : j # i /\ ServedAt(c, D, j) => ServedAt(d, D, j)
    BY DEF ServedAt, Marked
  <1>16. ASSUME \A j \in Places(c) : j # i => ServedAt(c, D, j), i # 1 => c.requests[1].status \notin Waits
         PROVE  Good(u, d, D, last)
    <2>1. \A j \in Places(d) : ServedAt(d, D, j)
      BY <1>1, <1>13, <1>14, <1>16
    <2>2. StatusFor(what) \notin Waits
      BY DEF StatusFor, Kinds, Waits
    <2>3. d.requests[1].status \notin Waits
      BY <1>1, <1>16, <2>2 DEF Marked
    <2> QED BY <1>12, <2>1, <2>3, GoodOn DEF SameConnection
  <1> QED BY <1>12, <1>13, <1>14, <1>16
-----------------------------------------------------------------------------
(* A request has been sent: the order of the steps of handle_async_reqeust  *)
(* makes no difference.                                                     *)

With(c, q) == [c EXCEPT !.requests = q]
In(q, i, s) == [q EXCEPT ![i] = [q[i] EXCEPT !.status = s]]

LEMMA WithFacts ==
  ASSUME NEW c \in Clients, NEW p, NEW q
  PROVE  With(c, p).requests = p /\ With(With(c, p), q) = With(c, q)
  BY DEF With, Clients

LEMMA SetStatusWith ==
  ASSUME NEW c, NEW i, NEW s
  PROVE  SetStatus(c, i, s) = With(c, In(c.requests, i, s))
  BY DEF SetStatus, With, In

LEMMA InCommutes ==
  ASSUME NEW q \in Seq(Requests), NEW i \in 1 .. Len(q), NEW j \in 1 .. Len(q), i # j, NEW s, NEW t
  PROVE  In(In(q, j, t), i, s) = In(In(q, i, s), j, t)
  <1> DEFINE a == [q[j] EXCEPT !.status = t]
             b == [q[i] EXCEPT !.status = s]
  <1>1. In(q, j, t)[i] = q[i] /\ In(q, i, s)[j] = q[j]
    BY DEF In
  <1>2. In(In(q, j, t), i, s) = [[q EXCEPT ![j] = a] EXCEPT ![i] = b]
    BY <1>1 DEF In
  <1>3. In(In(q, i, s), j, t) = [[q EXCEPT ![i] = b] EXCEPT ![j] = a]
    BY <1>1 DEF In
  <1> HIDE DEF a, b
  <1>4. [[q EXCEPT ![j] = a] EXCEPT ![i] = b] = [[q EXCEPT ![i] = b] EXCEPT ![j] = a]
    OBVIOUS
  <1> QED BY <1>2, <1>3, <1>4

LEMMA InTwice ==
  ASSUME NEW q \in Seq(Requests), NEW i \in 1 .. Len(q), NEW s, NEW t
  PROVE  In(In(q, i, s), i, t) = In(q, i, t)
  BY DEF In, Requests

LEMMA SetStatusCommutes ==
  ASSUME NEW c \in Clients, NEW i \in Places(c), NEW j \in Places(c), i # j, NEW s, NEW t
  PROVE  SetStatus(SetStatus(c, j, t), i, s) = SetStatus(SetStatus(c, i, s), j, t)
  <1>1. SetStatus(SetStatus(c, j, t), i, s) = With(c, In(In(c.requests, j, t), i, s))
    BY SetStatusWith, WithFacts
  <1>2. SetStatus(SetStatus(c, i, s), j, t) = With(c, In(In(c.requests, i, s), j, t))
    BY SetStatusWith, WithFacts
  <1> QED BY <1>1, <1>2, InCommutes, ClientTypes DEF Places

LEMMA SetStatusTwice ==
  ASSUME NEW c \in Clients, NEW i \in Places(c), NEW s, NEW t
  PROVE  SetStatus(SetStatus(c, i, s), i, t) = SetStatus(c, i, t)
  <1>1. SetStatus(SetStatus(c, i, s), i, t) = With(c, In(In(c.requests, i, s), i, t))
    BY SetStatusWith, WithFacts
  <1> QED BY <1>1, SetStatusWith, InTwice, ClientTypes DEF Places

LEMMA SetStatusIssue ==
  ASSUME NEW c \in Clients, NEW i \in Places(c), NEW j \in Places(c), NEW s \in RequestStatus, NEW what,
         NEW pending \in BOOLEAN
  PROVE  SetStatus(Issue(c, what, pending, j), i, s) = Issue(SetStatus(c, i, s), what, pending, j)
  <1> DEFINE op == [what |-> what, pending |-> pending, id |-> c.requests[j].id, result |-> "pending"]
             q == In(c.requests, i, s)
  <1>1. SetStatus(c, i, s).requests[j].id = c.requests[j].id
    BY SetStatusFields DEF Marked
  <1>2. Issue(c, what, pending, j) = [c EXCEPT !.ops = @ \cup {op}]
    BY DEF Issue
  <1>3. Issue(SetStatus(c, i, s), what, pending, j) = [With(c, q) EXCEPT !.ops = @ \cup {op}]
    BY <1>1, SetStatusWith DEF Issue
  <1>4. Issue(c, what, pending, j).requests = c.requests
    BY <1>2 DEF Clients
  <1>5. SetStatus(Issue(c, what, pending, j), i, s) = With([c EXCEPT !.ops = @ \cup {op}], q)
    BY <1>2, <1>4, SetStatusWith
  <1> HIDE DEF q, op
  <1>6. With([c EXCEPT !.ops = @ \cup {op}], q) = [With(c, q) EXCEPT !.ops = @ \cup {op}]
    BY DEF With, Clients
  <1> QED BY <1>3, <1>5, <1>6 DEF op
\* The request at i is the one being sent, and its operation has completed.
Sending(u, c, D, i, pending) ==
    /\ i \in Places(c) /\ c.status \in {"established", "broken"}
    /\ c.requests[i].status \in {"sending_req_head", "sending_req_data"}
    /\ c.requests[i].resp = "held"
    /\ pending \in BOOLEAN /\ (pending <=> i > 1)
    /\ Pipelines(u) => i = c.num_sent + 1
    /\ \A o \in c.ops : ~IsWrite(o) /\ Position(c, o.pending) # i
    /\ \A j \in Places(c) : j # i => ServedAt(c, D, j)
    /\ i > 1 => c.requests[1].status \notin Waits

Counted(c, i) == SetStatus([c EXCEPT !.num_sent = @ + 1], i, "recv_pending")

LEMMA CountedFields ==
  ASSUME NEW c \in Clients, NEW i \in Places(c)
  PROVE  LET d == Counted(c, i) IN
         /\ d \in Clients /\ SameConnection(c, d) /\ d.ops = c.ops /\ d.num_sent = c.num_sent + 1
         /\ Marked(c, d, i, "recv_pending", c.requests[i].resp)
  <1> DEFINE e == [c EXCEPT !.num_sent = @ + 1]
  <1>1. /\ e \in Clients /\ SameConnection(c, e) /\ e.ops = c.ops /\ e.num_sent = c.num_sent + 1
        /\ e.requests = c.requests
    BY DEF Clients, SameConnection
  <1>2. i \in Places(e) /\ "recv_pending" \in RequestStatus
    BY <1>1 DEF Places, RequestStatus
  <1>3. Counted(c, i) = SetStatus(e, i, "recv_pending")
    BY DEF Counted
  <1> HIDE DEF e
  <1> DEFINE d == SetStatus(e, i, "recv_pending")
  <1>4. /\ d \in Clients /\ SameConnection(e, d) /\ Marked(e, d, i, "recv_pending", e.requests[i].resp)
        /\ d.num_sent = e.num_sent /\ d.ops = e.ops
    BY <1>1, <1>2, SetStatusFields
  <1> HIDE DEF d
  <1>5. SameConnection(c, d) /\ Marked(c, d, i, "recv_pending", c.requests[i].resp)
    BY <1>1, <1>4 DEF SameConnection, Marked, Places
  <1> QED BY <1>1, <1>3, <1>4, <1>5 DEF d

LEMMA CountedCore ==
  ASSUME NEW u, NEW c, NEW D, NEW last, NEW i, NEW pending,
         Core(u, c, D, last), Sending(u, c, D, i, pending)
  PROVE  /\ Core(u, Counted(c, i), D, last)
         /\ \A j \in Places(c) : ServedAt(Counted(c, i), D, j)
  <1> DEFINE d == Counted(c, i)
  <1> USE DEF Core, Sending
  <1>1. /\ d \in Clients /\ SameConnection(c, d) /\ d.ops = c.ops /\ d.num_sent = c.num_sent + 1
        /\ Marked(c, d, i, "recv_pending", "held")
    BY CountedFields
  <1> HIDE DEF d
  <1>2. /\ c \in Clients /\ Places(d) = Places(c) /\ c.requests # <<>> /\ d.requests # <<>> /\ 1 \in Places(c)
        /\ c.num_sent \in Nat /\ i \in Nat /\ i >= 1 /\ Len(c.requests) \in Nat
    BY <1>1, ClientTypes DEF Places, Marked
  <1>3. InOrder(d, last)
    BY <1>1, <1>2 DEF InOrder, Marked
  <1>4. FrontAnswered(d)
    BY <1>1, <1>2 DEF FrontAnswered, Marked, Answered1
  <1>5. ASSUME NEW o \in d.ops PROVE OpMatches(d, o)
    <2>1. OpMatches(c, o) /\ ~o.pending /\ Position(c, o.pending) = 1 /\ i # 1
      BY <1>1 DEF OpMatches, Position
    <2> QED BY <1>1, <1>2, <2>1 DEF OpMatches, Marked, Position, SameConnection
  <1>6. OneOfAKind(d) /\ DroppedShape(d, D, last)
    BY <1>1, <1>2 DEF OneOfAKind, DroppedShape, Marked
  <1>7. Pipelines(u) => Line(d)
    <2> SUFFICES ASSUME Line(c), i = c.num_sent + 1 PROVE Line(d)
      BY DEF Modes
    <2>1. d.num_sent = i /\ i <= Len(d.requests) /\ Len(d.requests) = Len(c.requests)
      BY <1>1, <1>2 DEF Marked, Places
    <2>2. ASSUME NEW j \in Places(d)
          PROVE  /\ j > i => d.requests[j].status = "send_pending"
                 /\ j <= i => d.requests[j].status \notin Unsent
                 /\ j <= i /\ j > 1 => d.requests[j].status = "recv_pending"
      <3>1. j \in Places(c) /\ j \in Nat /\ j >= 1
        BY <1>2 DEF Places
      <3>2. CASE j = i
        BY <1>1, <3>1, <3>2 DEF Marked, Unsent
      <3>3. CASE j < i
        <4>1. j <= c.num_sent /\ d.requests[j].status = c.requests[j].status
          BY <1>1, <1>2, <3>1, <3>3 DEF Marked
        <4> QED BY <1>2, <3>1, <3>3, <4>1 DEF Line
      <3>4. CASE j > i
        <4>1. j > c.num_sent + 1 /\ d.requests[j].status = c.requests[j].status
          BY <1>1, <1>2, <3>1, <3>4 DEF Marked
        <4> QED BY <1>2, <3>1, <3>4, <4>1 DEF Line
      <3> QED BY <1>2, <3>1, <3>2, <3>3, <3>4
    <2>3. "send_pending" \in Unsent
      BY DEF Unsent
    <2>4. \A j \in Places(d) : j \in Nat
      BY DEF Places
    <2> QED BY <1>2, <2>1, <2>2, <2>3, <2>4 DEF Line
  <1>8. Modes(u, d, D)
    BY <1>1, <1>2, <1>7 DEF Modes, Marked, SameConnection, ReusesFetch, Front
  <1>9. \A j \in Places(c) : ServedAt(d, D, j)
    <2> SUFFICES ASSUME NEW j \in Places(c), d.requests[j].status \in Busy PROVE ServedAt(d, D, j)
      BY DEF ServedAt
    <2>1. j # i
      BY <1>1 DEF Marked, Busy
    <2>2. ServedAt(c, D, j) /\ c.requests[j].status = d.requests[j].status /\ c.requests[j].id = d.requests[j].id
      BY <1>1, <2>1 DEF Marked
    <2> QED BY <1>1, <2>2 DEF ServedAt
  <1>10. FrontCounted(d)
    BY <1>1, <1>2 DEF FrontCounted
  <1> QED BY <1>1, <1>3, <1>4, <1>5, <1>6, <1>8, <1>9, <1>10 DEF SameConnection, d

LEMMA MarkedIssue ==
  ASSUME NEW c \in Clients, NEW i \in Places(c), NEW j \in Places(c)
  PROVE  SetStatus(Issue(c, "write_head", TRUE, j), i, "recv_pending")
           = Issue(SetStatus(c, i, "recv_pending"), "write_head", TRUE, j)
  <1>1. "recv_pending" \in RequestStatus
    BY DEF RequestStatus
  <1> QED BY <1>1, SetStatusIssue, ZenonT(30)

LEMMA SentOrder ==
  ASSUME NEW c \in Clients, NEW i \in Places(c), NEW pending \in BOOLEAN, 
         i = c.num_sent + 1 \/ Len(c.requests) <= 1, ~pending => i = 1
  PROVE  Sent(c, i, pending) =
           IF pending THEN SendBehind(Counted(c, i)) ELSE ReceiveHead(SendBehind(Counted(c, i)))
  <1> DEFINE e == [c EXCEPT !.num_sent = @ + 1]
             f == SendBehind(e)
             m == c.num_sent + 2
  <1>1. /\ e \in Clients /\ e.num_sent = c.num_sent + 1 /\ e.requests = c.requests
        /\ c.num_sent \in Nat /\ Len(c.requests) \in Nat
    BY ClientTypes DEF Clients
  <1>2. Counted(c, i) = SetStatus(e, i, "recv_pending")
    BY DEF Counted
  <1>3. Sent(c, i, pending) = IF pending THEN SetStatus(f, i, "recv_pending") ELSE ReceiveHead(f)
    BY DEF Sent
  <1> HIDE DEF e
  <1>4. i \in Places(e) /\ "recv_pending" \in RequestStatus
    BY <1>1 DEF Places, RequestStatus
  <1>5. /\ Counted(c, i).num_sent = e.num_sent /\ Len(Counted(c, i).requests) = Len(c.requests)
    BY <1>1, <1>2, <1>4, SetStatusFields DEF Marked
  <1>6. SetStatus(f, i, "recv_pending") = SendBehind(Counted(c, i)) /\ f \in Clients /\ i \in Places(f)
    <2>1. CASE e.num_sent < Len(e.requests)
      <3>0. e.num_sent + 1 = m /\ m <= Len(c.requests) /\ m # i /\ m \in Nat /\ m >= 1
        <4>1. e.num_sent = c.num_sent + 1 /\ Len(e.requests) = Len(c.requests)
          BY <1>1
        <4>2. c.num_sent + 1 < Len(c.requests) /\ c.num_sent \in Nat /\ Len(c.requests) \in Nat
          BY <1>1, <2>1, <4>1
        <4>3. i = c.num_sent + 1
          BY <4>2
        <4> QED BY <4>1, <4>2, <4>3
      <3>1. m \in Places(e) /\ m # i /\ "sending_req_head" \in RequestStatus
        BY <1>1, <3>0 DEF Places, RequestStatus
      <3> HIDE DEF m
      <3>2. f = Issue(SetStatus(e, m, "sending_req_head"), "write_head", TRUE, m)
        BY <2>1, <3>0 DEF SendBehind, SendHead
      <3> DEFINE g == SetStatus(e, m, "sending_req_head")
      <3>3. g \in Clients /\ Places(g) = Places(e)
        BY <1>1, <3>1, SetStatusFields DEF Marked, Places
      <3> HIDE DEF g
      <3>4. SetStatus(f, i, "recv_pending") = Issue(SetStatus(g, i, "recv_pending"), "write_head", TRUE, m)
        <4>1. f = Issue(g, "write_head", TRUE, m)
          BY <3>2 DEF g
        <4>2. SetStatus(Issue(g, "write_head", TRUE, m), i, "recv_pending")
              = Issue(SetStatus(g, i, "recv_pending"), "write_head", TRUE, m)
          BY <1>4, <3>1, <3>3, MarkedIssue
        <4> QED BY <4>1, <4>2
      <3>5. SetStatus(g, i, "recv_pending") = SetStatus(Counted(c, i), m, "sending_req_head")
        BY <1>1, <1>2, <1>4, <3>1, SetStatusCommutes DEF g
      <3>6. SendBehind(Counted(c, i)) = Issue(SetStatus(Counted(c, i), m, "sending_req_head"), "write_head", TRUE, m)
        BY <1>1, <1>5, <2>1, <3>0 DEF SendBehind, SendHead
      <3>7. f \in Clients /\ Places(f) = Places(g)
        <4>1. f = Issue(g, "write_head", TRUE, m) /\ m \in Places(g) /\ "write_head" \in Kinds
          BY <3>1, <3>2, <3>3 DEF g, Kinds
        <4> DEFINE h == Issue(g, "write_head", TRUE, m)
        <4>2. h \in Clients /\ h.requests = g.requests
          BY <3>3, <4>1, IssueFields
        <4> HIDE DEF h
        <4>3. f = h
          BY <4>1 DEF h
        <4> QED BY <4>2, <4>3 DEF Places
      <3> QED BY <1>4, <3>3, <3>4, <3>5, <3>6, <3>7
    <2>2. CASE ~(e.num_sent < Len(e.requests))
      BY <1>1, <1>2, <1>4, <1>5, <2>2 DEF SendBehind
    <2> QED BY <2>1, <2>2
  <1>7. ~pending => ReceiveHead(f) = ReceiveHead(SetStatus(f, i, "recv_pending"))
    <2> HIDE DEF f
    <2> SUFFICES ASSUME i = 1 PROVE ReceiveHead(f) = ReceiveHead(SetStatus(f, 1, "recv_pending"))
      OBVIOUS
    <2>1. SetStatus(SetStatus(f, 1, "recv_pending"), 1, "recving_resp_head")
            = SetStatus(f, 1, "recving_resp_head")
      BY <1>6, SetStatusTwice
    <2> QED BY <2>1 DEF ReceiveHead
  <1> QED BY <1>3, <1>6, <1>7
-----------------------------------------------------------------------------
(* A request sent keeps the invariant, with the one behind it and the head   *)
(* of the response to it that follow.                                       *)

\* The request behind the one sent.
LEMMA BehindGood ==
  ASSUME NEW u, NEW c, NEW D, NEW last, Core(u, c, D, last), c.num_sent > 0,
         c.status \in {"established", "broken"},
         \A o \in c.ops : ~IsWrite(o),
         \A i \in Places(c) : i > c.num_sent => c.requests[i].status = "send_pending"
  PROVE  LET d == SendBehind(c) IN
         /\ Core(u, d, D, last) /\ SameConnection(c, d) /\ d.num_sent = c.num_sent
         /\ Len(d.requests) = Len(c.requests)
         /\ d.requests[1].id = c.requests[1].id /\ d.requests[1].status = c.requests[1].status
         /\ d.requests[1].resp = c.requests[1].resp
         /\ \A o \in d.ops : o \in c.ops \/ (o.pending /\ IsWrite(o))
         /\ \A j \in Places(c) : ServedAt(c, D, j) => ServedAt(d, D, j)
  <1>0. c \in Clients /\ c.num_sent \in Nat /\ Len(c.requests) \in Nat
    BY ClientTypes DEF Core
  <1>1. CASE ~(c.num_sent < Len(c.requests))
    BY <1>1 DEF SendBehind, SameConnection
  <1>2. CASE c.num_sent < Len(c.requests)
    <2> DEFINE i == c.num_sent + 1
               d == SendHead(c, i, TRUE)
               op == Operation(c, "write_head", TRUE, i)
    <2>1. SendBehind(c) = d
      BY <1>2 DEF SendBehind
    <2>2. i \in Places(c) /\ i > 1 /\ 1 \in Places(c) /\ i > c.num_sent
      BY <1>0, <1>2 DEF Places
    <2>3. c.requests[i].status = "send_pending" /\ c.requests[i].resp = "held"
          /\ c.requests[i].id \notin D /\ Position(c, TRUE) = i
      BY <2>2 DEF Core, FrontAnswered, DroppedShape, Position
    <2>4. Pipelines(u)
      BY <1>0, <1>2 DEF Core, Modes
    <2>5. \A o \in c.ops : ~o.pending /\ Position(c, o.pending) # i
      BY <2>2, ClientTypes, <1>0 DEF Core, OpMatches, Position
    <2> HIDE DEF i
    <2>6. Begins(c, d, i, "write_head", TRUE)
      BY <1>0, <2>2, SendBegins
    <2>7. "write_head" \in WriteKinds /\ "write_head" \in Kinds /\ "send_pending" \in Unsent
      BY DEF WriteKinds, Kinds, Unsent
    <2> HIDE DEF d
    <2>8. /\ Core(u, d, D, last) /\ ServedAt(d, D, i)
          /\ \A j \in Places(c) : j # i /\ ServedAt(c, D, j) => ServedAt(d, D, j)
      <3>1. /\ i \in Places(c) /\ TRUE \in BOOLEAN /\ "write_head" \in Kinds
            /\ \A o \in c.ops : Position(c, o.pending) # i /\ (IsWrite(o) <=> "write_head" \notin WriteKinds)
            /\ c.requests[i].status \in Unsent
        BY <2>2, <2>3, <2>5, <2>7
      <3> QED BY <2>3, <2>4, <2>6, <2>7, <3>1, BegunCore
    <2>9. op.pending /\ IsWrite(op)
      BY DEF Operation, IsWrite, WriteKinds
    <2>10. d.ops = c.ops \cup {op} /\ SameConnection(c, d) /\ d.num_sent = c.num_sent
           /\ Marked(c, d, i, StatusFor("write_head"), c.requests[i].resp)
      BY <2>6 DEF Begins
    <2>11. /\ Len(d.requests) = Len(c.requests)
           /\ d.requests[1].id = c.requests[1].id /\ d.requests[1].status = c.requests[1].status
           /\ d.requests[1].resp = c.requests[1].resp
      BY <2>2, <2>10 DEF Marked
    <2> HIDE DEF op
    <2> QED BY <2>1, <2>8, <2>9, <2>10, <2>11
  <1> QED BY <1>1, <1>2

LEMMA SentGood ==
  ASSUME NEW u, NEW c, NEW D, NEW last, NEW i, NEW pending,
         Core(u, c, D, last), Sending(u, c, D, i, pending)
  PROVE  Good(u, Sent(c, i, pending), D, last)
  <1> DEFINE d == Counted(c, i)
             e == SendBehind(d)
             f == ReceiveHead(e)
  <1>0. /\ c \in Clients /\ c.num_sent \in Nat /\ Len(c.requests) \in Nat /\ 1 \in Places(c) /\ i \in Places(c)
        /\ i \in Nat /\ i >= 1 /\ pending \in BOOLEAN /\ (pending <=> i > 1)
    BY ClientTypes DEF Core, Sending, Places
  <1>1. /\ Core(u, d, D, last) /\ \A j \in Places(c) : ServedAt(d, D, j)
    BY CountedCore
  <1>2. /\ d \in Clients /\ SameConnection(c, d) /\ d.ops = c.ops /\ d.num_sent = c.num_sent + 1
        /\ Marked(c, d, i, "recv_pending", c.requests[i].resp) /\ c.requests[i].resp = "held"
    BY <1>0, CountedFields DEF Sending
  <1>3. Sent(c, i, pending) = IF pending THEN e ELSE f
    <2>1. i = c.num_sent + 1 \/ Len(c.requests) <= 1
      BY DEF Core, Modes, Sending
    <2>2. ~pending => i = 1
      BY <1>0
    <2> QED BY <1>0, <2>1, <2>2, SentOrder
  <1> HIDE DEF d
  <1>4. /\ d.status \in {"established", "broken"} /\ d.num_sent > 0
        /\ \A o \in d.ops : ~IsWrite(o)
        /\ Places(d) = Places(c) /\ Len(d.requests) = Len(c.requests)
    BY <1>0, <1>2 DEF SameConnection, Sending, Places, Marked
  <1>5. \A j \in Places(d) : j > d.num_sent => d.requests[j].status = "send_pending"
    <2> SUFFICES ASSUME NEW j \in Places(d), j > d.num_sent PROVE d.requests[j].status = "send_pending"
      OBVIOUS
    <2>0. j \in Places(c) /\ j \in Nat /\ j <= Len(c.requests)
      BY <1>0, <1>4 DEF Places
    <2>1. j \in Nat /\ j >= 2 /\ j <= Len(c.requests) /\ j \in Places(c)
      BY <1>0, <1>2, <2>0
    <2>2. Line(c) /\ i = c.num_sent + 1
      BY <1>0, <2>1 DEF Core, Modes, Sending
    <2>3. j > c.num_sent + 1 /\ j # i
      BY <1>0, <1>2, <2>1, <2>2
    <2> QED BY <1>2, <2>1, <2>2, <2>3 DEF Marked, Line
  <1>6. /\ Core(u, e, D, last) /\ SameConnection(d, e) /\ e.num_sent = d.num_sent
        /\ Len(e.requests) = Len(d.requests)
        /\ e.requests[1].status = d.requests[1].status /\ e.requests[1].resp = d.requests[1].resp
        /\ \A o \in e.ops : o \in d.ops \/ (o.pending /\ IsWrite(o))
        /\ \A j \in Places(d) : ServedAt(d, D, j) => ServedAt(e, D, j)
    BY <1>1, <1>4, <1>5, BehindGood
  <1> HIDE DEF e
  <1>7. Places(e) = Places(c) /\ \A j \in Places(e) : ServedAt(e, D, j)
    <2>1. Places(e) = Places(c)
      BY <1>4, <1>6 DEF Places
    <2> QED BY <1>1, <1>4, <1>6, <2>1
  <1>8. e.status \in {"established", "broken"} /\ e \in Clients /\ e.requests # <<>> /\ 1 \in Places(e)
    <2>1. e.status \in {"established", "broken"} /\ e \in Clients
      BY <1>4, <1>6 DEF SameConnection, Core
    <2>2. 1 \in Places(e)
      BY <1>0, <1>7
    <2>3. Len(e.requests) # 0
      BY <2>2 DEF Places
    <2> QED BY <2>1, <2>2, <2>3, ClientTypes
  <1>9. CASE pending
    <2>1. i # 1 /\ c.requests[1].status \notin Waits
      BY <1>0, <1>9 DEF Sending
    <2>2. e.requests[1].status \notin Waits
      BY <1>0, <1>2, <1>6, <2>1 DEF Marked
    <2> QED BY <1>3, <1>6, <1>7, <1>8, <1>9, <2>2, GoodOn
  <1>10. CASE ~pending
    <2>1. i = 1
      BY <1>0, <1>10
    <2>2. e.requests[1].status = "recv_pending" /\ e.requests[1].resp = "held" /\ e.num_sent \in Nat /\ e.num_sent > 0
      BY <1>0, <1>2, <1>6, <1>4, <2>1 DEF Marked
    <2>3. ASSUME NEW o \in e.ops PROVE Position(e, o.pending) # 1 /\ IsWrite(o)
      <3>1. d.ops = {}
        <4> SUFFICES ASSUME NEW p \in c.ops PROVE FALSE
          BY <1>2
        <4>1. ~IsWrite(p) /\ Position(c, p.pending) # 1 /\ OpMatches(c, p)
          BY <2>1 DEF Sending, Core
        <4> QED BY <4>1 DEF OpMatches, Position
      <3>2. o.pending /\ IsWrite(o)
        BY <1>6, <3>1
      <3> QED BY <2>2, <3>2 DEF Position
    <2>4. Begins(e, f, 1, "read_head", FALSE)
      BY <1>8, ReceiveBegins
    <2>5. "read_head" \in Kinds /\ "read_head" \notin WriteKinds /\ "recv_pending" \notin Unsent
          /\ StatusFor("read_head") = "recving_resp_head" /\ "recving_resp_head" \notin Waits
      BY DEF Kinds, WriteKinds, Unsent, StatusFor, Waits
    <2> HIDE DEF f
    <2>6. Position(e, FALSE) = 1
      BY DEF Position
    <2>7. /\ Core(u, f, D, last) /\ ServedAt(f, D, 1)
          /\ \A j \in Places(e) : j # 1 /\ ServedAt(e, D, j) => ServedAt(f, D, j)
      BY <1>6, <1>8, <2>2, <2>3, <2>4, <2>5, <2>6, BegunCore, ZenonT(30)
    <2>8. f.status \in {"established", "broken"} /\ f.requests[1].status \notin Waits /\ Places(f) = Places(e)
      BY <1>8, <2>4, <2>5 DEF Begins, SameConnection, Marked, Places
    <2>9. \A j \in Places(f) : ServedAt(f, D, j)
      BY <1>7, <2>7, <2>8
    <2> QED BY <1>3, <1>10, <2>7, <2>8, <2>9, GoodOn
  <1> QED BY <1>0, <1>9, <1>10
-----------------------------------------------------------------------------
(* async_resume keeps the invariant: it goes on with the front request, and *)
(* with the first unsent one when that is behind it.                        *)

\* A status names the operation under way, so a request has one at most.
LEMMA SameWhat ==
  ASSUME NEW o \in Operations, NEW p \in Operations, StatusFor(o.what) = StatusFor(p.what)
  PROVE  o.what = p.what
  BY DEF StatusFor, Operations

LEMMA StatusesOfOps ==
  ASSUME NEW o \in Operations
  PROVE  /\ StatusFor(o.what) \in Busy \cup {"send_pending"}
         /\ o.what # "connect" => StatusFor(o.what) \in Busy
         /\ IsWrite(o) <=> StatusFor(o.what) \in {"sending_req_head", "sending_req_data"}
         /\ StatusFor(o.what) = "send_pending" <=> o.what = "connect"
  BY DEF StatusFor, Operations, Busy, IsWrite, WriteKinds

LEMMA FrontIsFirst ==
  ASSUME NEW c, c.requests # <<>>
  PROVE  Front(c) = c.requests[1]
  BY DEF Front

\* The client after the front request failed or was begun.
LEMMA ResumedFrontGood ==
  ASSUME NEW u, NEW c, NEW D, NEW last, Core(u, c, D, last), c.requests # <<>>,
         c.status \in {"established", "broken"},
         \A j \in Places(c) : ServedAt(c, D, j)
  PROVE  Good(u, ResumeFront(c), D, last) /\ ResumeFront(c).status \in {"established", "broken"}
  <1> DEFINE d == ResumeFront(c)
             s == c.requests[1].status
  <1>0. /\ c \in Clients /\ c.num_sent \in Nat /\ 1 \in Places(c) /\ c.requests[1].id \in Nat
        /\ c.broken_error \in {"ok", "error"} /\ c.ops \subseteq Operations
    BY ClientTypes DEF Core, Places
  <1>1. CASE s \notin Waits
    <2>1. d = c
      BY <1>1, FrontIsFirst DEF ResumeFront
    <2> QED BY <1>1, <2>1, GoodOn
  <1>2. CASE s \in Waits
    <2>1. c.requests[1].resp = "held"
      BY <1>2 DEF Core, FrontAnswered, Answered1, Waits
    <2>2. ASSUME NEW o \in c.ops PROVE Position(c, o.pending) # 1
      <3> SUFFICES ASSUME Position(c, o.pending) = 1 PROVE FALSE
        OBVIOUS
      <3>1. StatusFor(o.what) = s /\ (o.what = "connect" <=> c.status = "connectting")
        BY DEF Core, OpMatches
      <3> QED BY <1>0, <1>2, <3>1, StatusesOfOps DEF Waits, Busy
    <2>3. ASSUME NEW o \in c.ops PROVE IsWrite(o) /\ o.pending /\ c.num_sent # 0
      BY <1>0, <2>2 DEF Position, Core, OpMatches
    <2>4. d = HandleRequest(c, FALSE, c.broken_error, NoInput)
      BY <1>2, FrontIsFirst DEF ResumeFront
    <2>5. /\ c.broken_error # "ok" => d = Failed(c, 1, FALSE)
          /\ c.broken_error = "ok" /\ s = "send_pending" => d = SendHead(c, 1, FALSE)
          /\ c.broken_error = "ok" /\ s = "recv_pending" => d = ReceiveHead(c)
      BY <1>0, <2>4 DEF HandleRequest, Position, EndsBody
    <2> HIDE DEF d
    <2>6. Position(c, FALSE) = 1
      BY DEF Position
    <2>7. CASE c.broken_error # "ok"
      <3>1. FrontEnds(c, d, "finished")
        BY <1>0, <2>1, <2>5, <2>7, FailedEnds
      <3>2. Good(u, d, D, last)
        BY <2>1, <2>2, <3>1, AnsweredGood DEF Answered1
      <3> QED BY <3>1, <3>2 DEF FrontEnds, d
    <2>8. CASE c.broken_error = "ok" /\ s = "send_pending"
      <3>1. Begins(c, d, 1, "write_head", FALSE)
        BY <1>0, <2>5, <2>8, SendBegins
      <3>2. /\ "write_head" \in Kinds /\ "write_head" \in WriteKinds /\ s \in Unsent
            /\ StatusFor("write_head") \notin Waits
        BY <2>8 DEF Kinds, WriteKinds, Unsent, StatusFor, Waits
      <3>3. c.requests[1].id \notin D
        BY <1>0, <2>8 DEF Core, DroppedShape
      <3>4. c.ops = {}
        <4> SUFFICES ASSUME NEW o \in c.ops PROVE FALSE
          OBVIOUS
        <4>1. o.pending /\ c.num_sent # 0
          BY <2>3
        <4>2. Pipelines(u) => c.num_sent = 0
          BY <1>0, <3>2 DEF Core, Modes, Line
        <4> QED BY <4>1, <4>2 DEF Core, Modes
      <3>5. /\ Core(u, d, D, last) /\ ServedAt(d, D, 1)
            /\ \A j \in Places(c) : j # 1 /\ ServedAt(c, D, j) => ServedAt(d, D, j)
        BY <1>0, <2>1, <2>6, <3>1, <3>2, <3>3, <3>4, BegunCore
      <3>6. d.status \in {"established", "broken"} /\ d.requests[1].status \notin Waits /\ Places(d) = Places(c)
        BY <1>0, <3>1, <3>2 DEF Begins, SameConnection, Marked, Places
      <3>7. \A j \in Places(d) : ServedAt(d, D, j)
        BY <3>5, <3>6
      <3> QED BY <3>5, <3>6, <3>7, GoodOn DEF d
    <2>9. CASE c.broken_error = "ok" /\ s = "recv_pending"
      <3>1. Begins(c, d, 1, "read_head", FALSE)
        BY <1>0, <2>5, <2>9, ReceiveBegins
      <3>2. /\ "read_head" \in Kinds /\ "read_head" \notin WriteKinds /\ s \notin Unsent
            /\ StatusFor("read_head") \notin Waits
        BY <2>9 DEF Kinds, WriteKinds, Unsent, StatusFor, Waits
      <3>5. /\ Core(u, d, D, last) /\ ServedAt(d, D, 1)
            /\ \A j \in Places(c) : j # 1 /\ ServedAt(c, D, j) => ServedAt(d, D, j)
        BY <1>0, <2>1, <2>2, <2>3, <2>6, <3>1, <3>2, BegunCore
      <3>6. d.status \in {"established", "broken"} /\ d.requests[1].status \notin Waits /\ Places(d) = Places(c)
        BY <1>0, <3>1, <3>2 DEF Begins, SameConnection, Marked, Places
      <3>7. \A j \in Places(d) : ServedAt(d, D, j)
        BY <3>5, <3>6
      <3> QED BY <3>5, <3>6, <3>7, GoodOn DEF d
    <2> QED BY <1>2, <2>7, <2>8, <2>9 DEF Waits
  <1> QED BY <1>1, <1>2

LEMMA BehindHandled ==
  ASSUME NEW c, c.num_sent # 0, NEW ec \in {"ok", "error"}, NEW in
  PROVE  /\ ec # "ok" => HandleRequest(c, TRUE, ec, in) = c
         /\ ec = "ok" /\ c.requests[c.num_sent + 1].status = "send_pending"
              => HandleRequest(c, TRUE, ec, in) = SendHead(c, c.num_sent + 1, TRUE)
  <1>1. Position(c, TRUE) = c.num_sent + 1
    BY DEF Position
  <1> DEFINE i == c.num_sent + 1
  <1>2. ec # "ok" => ~EndsBody(c, i, ec)
    BY DEF EndsBody
  <1>3. Failed(c, i, TRUE) = c
    BY DEF Failed
  <1> HIDE DEF i
  <1>4. Position(c, TRUE) = i
    BY <1>1 DEF i
  <1>5. ec # "ok" => HandleRequest(c, TRUE, ec, in) = c
    BY <1>2, <1>3, <1>4 DEF HandleRequest
  <1>6. ec = "ok" /\ c.requests[i].status = "send_pending" => HandleRequest(c, TRUE, ec, in) = SendHead(c, i, TRUE)
    BY <1>4 DEF HandleRequest
  <1> QED BY <1>5, <1>6 DEF i

LEMMA ResumedBehindGood ==
  ASSUME NEW u, NEW c, NEW D, NEW last, Good(u, c, D, last), c.status \in {"established", "broken"}
  PROVE  Good(u, ResumeBehind(c), D, last)
  <1> DEFINE i == c.num_sent + 1
  <1>0. /\ c \in Clients /\ c.num_sent \in Nat /\ Len(c.requests) \in Nat /\ Core(u, c, D, last)
        /\ c.broken_error \in {"ok", "error"} /\ c.ops \subseteq Operations
    BY ClientTypes DEF Core, Good
  <1>1. CASE ~(Behind(c) /\ c.requests[i].status = "send_pending" /\ c.broken_error = "ok")
    <2>1. ResumeBehind(c) = c
      <3>1. CASE ~(Behind(c) /\ c.requests[i].status = "send_pending")
        BY <3>1 DEF ResumeBehind
      <3>2. CASE Behind(c) /\ c.broken_error # "ok"
        <4>1. HandleRequest(c, TRUE, c.broken_error, NoInput) = c
          <5>1. c.num_sent # 0
            BY <1>0, <3>2 DEF Behind
          <5> QED BY <1>0, <3>2, <5>1, BehindHandled
        <4> QED BY <4>1 DEF ResumeBehind
      <3> QED BY <1>1, <3>1, <3>2
    <2> QED BY <2>1
  <1>2. CASE Behind(c) /\ c.requests[i].status = "send_pending" /\ c.broken_error = "ok"
    <2>1. c.num_sent > 0 /\ c.num_sent < Len(c.requests)
      BY <1>2 DEF Behind
    <2>2. ResumeBehind(c) = SendHead(c, i, TRUE)
      <3>1. c.num_sent # 0
        BY <1>0, <2>1
      <3>2. HandleRequest(c, TRUE, c.broken_error, NoInput) = SendHead(c, i, TRUE)
        BY <1>0, <1>2, <3>1, BehindHandled
      <3> QED BY <1>2, <3>2 DEF ResumeBehind
    <2>3. SendBehind(c) = SendHead(c, i, TRUE)
      BY <2>1 DEF SendBehind
    <2> DEFINE d == SendBehind(c)
    <2>4. Pipelines(u) /\ Line(c)
      BY <1>0, <2>1 DEF Core, Modes
    <2>5. ASSUME NEW j \in Places(c), j > c.num_sent PROVE c.requests[j].status = "send_pending"
      <3>1. j = i \/ j > c.num_sent + 1
        BY <1>0, <2>5 DEF Places
      <3> QED BY <1>2, <2>4, <3>1 DEF Line
    <2>6. ASSUME NEW o \in c.ops PROVE ~IsWrite(o)
      <3> SUFFICES ASSUME IsWrite(o) PROVE FALSE
        OBVIOUS
      <3>1. /\ Position(c, o.pending) \in Places(c)
            /\ c.requests[Position(c, o.pending)].status \in {"sending_req_head", "sending_req_data"}
        BY <1>0, StatusesOfOps DEF Core, OpMatches
      <3>2. ~(Position(c, o.pending) > c.num_sent)
        BY <2>5, <3>1
      <3> QED BY <1>0, <2>4, <3>1, <3>2 DEF Line, Unsent, Position
    <2>7. c.requests # <<>> /\ c.requests[1].status \notin Waits
      BY <1>0, <2>1, ClientTypes DEF Good, Going, Established
    <2>8. /\ Core(u, d, D, last) /\ SameConnection(c, d) /\ Len(d.requests) = Len(c.requests)
          /\ d.requests[1].status = c.requests[1].status
          /\ \A j \in Places(c) : ServedAt(c, D, j) => ServedAt(d, D, j)
      BY <1>0, <2>1, <2>5, <2>6, BehindGood
    <2> HIDE DEF d
    <2>9. d.status \in {"established", "broken"} /\ d.requests[1].status \notin Waits /\ Places(d) = Places(c)
      BY <2>7, <2>8 DEF SameConnection, Places
    <2>10. \A j \in Places(d) : ServedAt(d, D, j)
      BY <2>8, <2>9 DEF Good
    <2>11. Good(u, d, D, last)
      BY <2>8, <2>9, <2>10, GoodOn
    <2> QED BY <2>2, <2>3, <2>11 DEF d
  <1> QED BY <1>1, <1>2

LEMMA ResumeGood ==
  ASSUME NEW u, NEW c, NEW D, NEW last, Core(u, c, D, last), c.requests # <<>>,
         c.status \in {"established", "broken"},
         \A j \in Places(c) : ServedAt(c, D, j)
  PROVE  Good(u, AsyncResume(c), D, last)
  <1> DEFINE d == ResumeFront(c)
  <1>1. AsyncResume(c) = ResumeBehind(d)
    BY DEF AsyncResume, Established
  <1>2. Good(u, d, D, last) /\ d.status \in {"established", "broken"}
    BY ResumedFrontGood
  <1> QED BY <1>1, <1>2, ResumedBehindGood
-----------------------------------------------------------------------------
(* A request is posted: to a client without connection, which connects, or  *)
(* behind those that are queued.                                            *)

\* The only request of a client waits for the connection to be opened.
LEMMA StartConnectGood ==
  ASSUME NEW u, NEW c \in Clients, NEW D, NEW last,
         Len(c.requests) = 1, c.ops = {},
         c.requests[1].status = "send_pending", c.requests[1].resp = "held",
         c.requests[1].id \in 1 .. last, c.requests[1].id \notin D, D \subseteq 1 .. last,
         Pipelines(u) => c.num_sent = 0, ~Pipelines(u) => D = {},
         u.reuses => ~c.is_keep_alive
  PROVE  Good(u, StartConnect(c), D, last)
  <1> DEFINE e == [c EXCEPT !.status = "connectting"]
             op == Operation(e, "connect", FALSE, 1)
             d == Issue(e, "connect", FALSE, 1)
  <1>1. /\ e \in Clients /\ e.requests = c.requests /\ e.num_sent = c.num_sent /\ e.ops = {}
        /\ e.is_keep_alive = c.is_keep_alive /\ e.status = "connectting" /\ e.requests # <<>>
        /\ Places(e) = {1} /\ c.num_sent \in Nat /\ Len(e.requests) = 1
    <2>1. c.requests # <<>> /\ c.num_sent \in Nat /\ 1 .. 1 = {1}
      BY ClientTypes
    <2>2. /\ e \in Clients /\ e.requests = c.requests /\ e.num_sent = c.num_sent /\ e.ops = {}
          /\ e.is_keep_alive = c.is_keep_alive /\ e.status = "connectting"
      BY DEF Clients, ConnectionStatus
    <2> HIDE DEF e
    <2>3. Len(e.requests) = 1 /\ Places(e) = 1 .. 1
      BY <2>2 DEF Places
    <2> QED BY <2>1, <2>2, <2>3
  <1> HIDE DEF e
  <1>2. /\ d \in Clients /\ SameConnection(e, d) /\ d.requests = e.requests
        /\ d.num_sent = e.num_sent /\ d.ops = {op}
    <2>1. 1 \in Places(e) /\ "connect" \in Kinds \cup {"connect"}
      BY <1>1
    <2>2. /\ d \in Clients /\ SameConnection(e, d) /\ d.requests = e.requests
          /\ d.num_sent = e.num_sent /\ d.ops = e.ops \cup {op}
      BY <1>1, <2>1, IssueFields
    <2> QED BY <1>1, <2>2
  <1>3. op.what = "connect" /\ op.pending = FALSE /\ op.id = e.requests[1].id /\ ~IsWrite(op)
        /\ StatusFor(op.what) = "send_pending"
    BY DEF Operation, IsWrite, WriteKinds, StatusFor
  <1> HIDE DEF d, op
  <1>4. Places(d) = {1} /\ Len(d.requests) = 1 /\ d.status = "connectting" /\ d.requests # <<>>
        /\ d.is_keep_alive = c.is_keep_alive /\ d.requests = c.requests
    BY <1>1, <1>2 DEF Places, SameConnection
  <1>5. InOrder(d, last) /\ FrontAnswered(d) /\ FrontCounted(d)
    BY <1>4 DEF InOrder, FrontAnswered, FrontCounted, Answered1, Unsent
  <1>6. OpMatches(d, op)
    BY <1>1, <1>2, <1>3, <1>4 DEF OpMatches, Position
  <1>7. OneOfAKind(d) /\ DroppedShape(d, D, last)
    BY <1>2, <1>3, <1>4 DEF OneOfAKind, DroppedShape
  <1>8. Pipelines(u) => Line(d)
    BY <1>1, <1>2, <1>4 DEF Line, Unsent
  <1>9. Modes(u, d, D)
    BY <1>2, <1>3, <1>4, <1>8, FrontIsFirst DEF Modes, ReusesFetch
  <1>10. Core(u, d, D, last)
    BY <1>2, <1>4, <1>5, <1>6, <1>7, <1>9 DEF Core
  <1>11. Going(d) /\ \A j \in Places(d) : ServedAt(d, D, j)
    BY <1>2, <1>4 DEF Going, Established, ServedAt, Busy
  <1> QED BY <1>10, <1>11 DEF Good, StartConnect, d, e

\* A request is put behind the others, on a connection that is there or opened.
Appended(c, r, keep) == [c EXCEPT !.requests = Append(@, r), !.is_keep_alive = keep]

LEMMA AppendFields ==
  ASSUME NEW c \in Clients, NEW r \in Requests, NEW keep \in BOOLEAN
  PROVE  LET d == Appended(c, r, keep)
             n == Len(c.requests)
         IN  /\ d \in Clients /\ d.status = c.status /\ d.is_keep_alive = keep
             /\ d.num_sent = c.num_sent /\ d.ops = c.ops
             /\ Len(d.requests) = n + 1 /\ Places(d) = Places(c) \cup {n + 1} /\ n + 1 \notin Places(c)
             /\ n + 1 \in Nat /\ n + 1 >= 1
             /\ d.requests[n + 1] = r /\ \A j \in Places(c) : d.requests[j] = c.requests[j]
  <1> DEFINE n == Len(c.requests)
             q == Append(c.requests, r)
             d == [c EXCEPT !.requests = q, !.is_keep_alive = keep]
  <1>1. c.requests \in Seq(Requests) /\ n \in Nat
    BY ClientTypes
  <1>2. /\ q \in Seq(Requests) /\ Len(q) = n + 1 /\ q[n + 1] = r
        /\ \A j \in 1 .. n : q[j] = c.requests[j]
    BY <1>1
  <1> HIDE DEF q
  <1>3. /\ d \in Clients /\ d.status = c.status /\ d.is_keep_alive = keep
        /\ d.num_sent = c.num_sent /\ d.ops = c.ops /\ d.requests = q
    BY <1>2 DEF Clients
  <1>4. Appended(c, r, keep) = d
    BY DEF Appended, q
  <1> HIDE DEF d, n
  <1>5. Places(d) = 1 .. n + 1 /\ Places(c) = 1 .. n
    BY <1>2, <1>3 DEF Places, n
  <1>6. 1 .. n + 1 = (1 .. n) \cup {n + 1} /\ n + 1 \notin 1 .. n /\ n + 1 \in Nat /\ n + 1 >= 1
    BY <1>1 DEF n
  <1> QED BY <1>2, <1>3, <1>4, <1>5, <1>6 DEF n

LEMMA AppendCore ==
  ASSUME NEW u, NEW c, NEW D, NEW last \in Nat, Good(u, c, D, last),
         c.status # "closed", Pipelines(u) \/ c.requests = <<>>,
         NEW is_fetch \in BOOLEAN, NEW keep \in BOOLEAN, u.reuses => ~keep
  PROVE  LET d == Appended(c, NewRequest(last + 1, is_fetch), keep) IN
         /\ Core(u, d, D, last + 1) /\ d.requests # <<>> /\ d.status = c.status /\ d.ops = c.ops
         /\ \A j \in Places(d) : ServedAt(d, D, j)
  <1> DEFINE r == NewRequest(last + 1, is_fetch)
             d == Appended(c, r, keep)
             n == Len(c.requests)
  <1>0. /\ c \in Clients /\ n \in Nat /\ c.num_sent \in Nat /\ Core(u, c, D, last)
        /\ c.requests = <<>> <=> n = 0
    BY ClientTypes DEF Good, Core
  <1>1. /\ r \in Requests /\ r.id = last + 1 /\ r.status = "send_pending" /\ r.resp = "held"
    BY DEF NewRequest, Requests, RequestStatus, Callbacks
  <1> HIDE DEF r
  <1>2. /\ d \in Clients /\ d.status = c.status /\ d.is_keep_alive = keep
        /\ d.num_sent = c.num_sent /\ d.ops = c.ops
        /\ Len(d.requests) = n + 1 /\ Places(d) = Places(c) \cup {n + 1} /\ n + 1 \notin Places(c)
        /\ n + 1 \in Nat /\ n + 1 >= 1
        /\ d.requests[n + 1] = r /\ \A j \in Places(c) : d.requests[j] = c.requests[j]
    BY <1>0, <1>1, AppendFields
  <1> HIDE DEF d
  <1>3. \A j \in Places(c) : j \in Nat /\ j >= 1 /\ j <= n
    BY <1>0 DEF Places
  <1>4. 1 \in Places(d) /\ d.requests # <<>> /\ (n # 0 => 1 \in Places(c))
    <2>1. 1 \in Places(d) /\ (n # 0 => 1 \in Places(c))
      BY <1>0, <1>2 DEF Places
    <2> QED BY <1>2, <2>1, ClientTypes DEF Places
  <1> HIDE DEF n
  <1>5. InOrder(d, last + 1)
    <2>1. \A i \in Places(d) : d.requests[i].id \in 1 .. last + 1
      BY <1>0, <1>1, <1>2 DEF Core, InOrder
    <2>2. ASSUME NEW i \in Places(d), NEW j \in Places(d), i < j PROVE d.requests[i].id < d.requests[j].id
      <3>1. i \in Places(c)
        BY <1>0, <1>2, <1>3, <2>2
      <3>2. d.requests[i] = c.requests[i] /\ c.requests[i].id \in 1 .. last
        BY <1>0, <1>2, <3>1 DEF Core, InOrder
      <3>3. CASE j \in Places(c)
        BY <1>0, <1>2, <2>2, <3>1, <3>3 DEF Core, InOrder
      <3>4. CASE j = n + 1
        BY <1>1, <1>2, <3>2, <3>4
      <3> QED BY <1>2, <3>3, <3>4
    <2> QED BY <2>1, <2>2 DEF InOrder
  <1>6. FrontAnswered(d) /\ FrontCounted(d)
    <2>1. CASE n = 0
      BY <1>0, <1>1, <1>2, <1>3, <1>4, <2>1 DEF FrontAnswered, FrontCounted, Answered1, Unsent
    <2>2. CASE n # 0
      BY <1>0, <1>1, <1>2, <1>3, <1>4, <2>2 DEF FrontAnswered, FrontCounted, Core
    <2> QED BY <2>1, <2>2
  <1>7. ASSUME NEW o \in d.ops PROVE OpMatches(d, o)
    BY <1>0, <1>2 DEF Core, OpMatches, Position
  <1>8. OneOfAKind(d) /\ DroppedShape(d, D, last + 1)
    <2>1. last + 1 \notin D /\ D \subseteq 1 .. last + 1
      BY <1>0 DEF Core, DroppedShape
    <2>2. OneOfAKind(d)
      BY <1>0, <1>2 DEF Core, OneOfAKind
    <2>3. \A i \in Places(d) : d.requests[i].id \in D => d.requests[i].status # "send_pending"
      BY <1>0, <1>1, <1>2, <2>1 DEF Core, DroppedShape
    <2> QED BY <1>0, <1>2, <2>1, <2>2, <2>3 DEF Core, DroppedShape
  <1>9. Modes(u, d, D)
    <2>1. ASSUME Pipelines(u) PROVE Line(d)
      <3>1. Line(c) /\ c.num_sent <= n
        BY <1>0, <2>1 DEF Core, Modes, Line, n
      <3>2. c.num_sent < n + 1
        BY <1>0, <3>1
      <3>3. "send_pending" \in Unsent
        BY DEF Unsent
      <3>4. d.num_sent <= Len(d.requests)
        BY <1>0, <1>2, <3>2
      <3> QED BY <1>0, <1>1, <1>2, <3>1, <3>2, <3>3, <3>4 DEF Line
    <2>2. ASSUME ~Pipelines(u) PROVE Len(d.requests) <= 1 /\ D = {} /\ \A o \in d.ops : ~o.pending
      BY <1>0, <1>2, <2>2 DEF Core, Modes
    <2>3. u.reuses => ~ReusesFetch(d)
      <3> SUFFICES ASSUME u.reuses PROVE ~ReusesFetch(d)
        OBVIOUS
      <3>1. n = 0
        BY <1>0 DEF Pipelines
      <3>2. d.requests[1].status = "send_pending"
        BY <1>1, <1>2, <3>1
      <3> QED BY <1>4, <3>2, FrontIsFirst DEF ReusesFetch
    <2> QED BY <1>2, <2>1, <2>2, <2>3 DEF Modes
  <1>10. Core(u, d, D, last + 1)
    BY <1>0, <1>2, <1>5, <1>6, <1>7, <1>8, <1>9 DEF Core
  <1>11. \A j \in Places(d) : ServedAt(d, D, j)
    <2> SUFFICES ASSUME NEW j \in Places(d) PROVE ServedAt(d, D, j)
      OBVIOUS
    <2>1. CASE j = n + 1
      BY <1>1, <1>2, <2>1 DEF ServedAt, Busy
    <2>2. CASE j \in Places(c)
      BY <1>2, <2>2 DEF ServedAt, Good
    <2> QED BY <1>2, <2>1, <2>2
  <1> QED BY <1>2, <1>4, <1>10, <1>11 DEF d, r
\* Nothing is under way for a client without requests.
LEMMA NoRequestNoOps ==
  ASSUME NEW u, NEW c, NEW D, NEW last, Core(u, c, D, last), c.requests = <<>>
  PROVE  c.ops = {} /\ (Pipelines(u) => c.num_sent = 0)
  <1>1. c.num_sent \in Nat /\ Len(c.requests) = 0
    BY ClientTypes DEF Core
  <1>2. Places(c) = {}
    BY <1>1 DEF Places
  <1>3. c.ops = {}
    BY <1>2 DEF Core, OpMatches
  <1>4. Pipelines(u) => c.num_sent = 0
    BY <1>1 DEF Core, Modes, Line
  <1> QED BY <1>3, <1>4

LEMMA PostConnects ==
  ASSUME NEW u, NEW c, NEW D, NEW last \in Nat, NEW id \in Nat, NEW is_fetch \in BOOLEAN,
         c \in Clients, c.status = "closed", Len(c.requests) = 1, c.ops = {},
         c.requests[1] = NewRequest(id, is_fetch), id = last + 1, D \subseteq 1 .. last,
         Pipelines(u) => c.num_sent = 0, ~Pipelines(u) => D = {}, u.reuses => ~c.is_keep_alive
  PROVE  Good(u, AsyncResume(c), D, last + 1)
  <1>1. c.requests # <<>>
    BY ClientTypes
  <1>2. AsyncResume(c) = StartConnect(c)
    BY <1>1 DEF AsyncResume
  <1>3. c.requests[1].status = "send_pending" /\ c.requests[1].resp = "held" /\ c.requests[1].id = last + 1
    BY DEF NewRequest
  <1>4. last + 1 \in 1 .. last + 1 /\ last + 1 \notin D /\ D \subseteq 1 .. last + 1
    OBVIOUS
  <1>5. Good(u, StartConnect(c), D, last + 1)
    BY <1>3, <1>4, StartConnectGood
  <1> QED BY <1>2, <1>5

LEMMA PostGood ==
  ASSUME NEW u \in Uses, NEW c, NEW D, NEW last \in Nat, Orderly(u), Good(u, c, D, last),
         NEW is_fetch \in BOOLEAN, NEW keep \in u.keep_alives, ~Rejected(c),
         ReusesFetch(c) => u.reuses,
         ~ReusesFetch(c) => Len(c.requests) < u.queue \/ c.requests = <<>>
  PROVE  Good(u, AsyncResume(PostRequest(c, last + 1, is_fetch, keep)), D, last + 1)
  <1> DEFINE r == NewRequest(last + 1, is_fetch)
             d == PostRequest(c, last + 1, is_fetch, keep)
             k == keep /\ (c.is_keep_alive \/ c.requests = <<>>)
  <1>0. /\ c \in Clients /\ Core(u, c, D, last) /\ c.is_keep_alive \in BOOLEAN /\ keep \in BOOLEAN
        /\ Len(c.requests) \in Nat /\ c.num_sent \in Nat /\ D \subseteq 1 .. last
        /\ c.requests = <<>> <=> Len(c.requests) = 0
    BY ClientTypes DEF Good, Core, Uses, DroppedShape
  <1>1. u.reuses => ~Pipelines(u) /\ keep = FALSE
    BY <1>0 DEF Orderly, Pipelines
  <1>2. r \in Requests /\ last + 1 \in Nat
    BY DEF NewRequest, Requests, RequestStatus, Callbacks
  <1>3. CASE ReusesFetch(c)
    <2> DEFINE e == [c EXCEPT !.status = "closed", !.broken_error = "ok", !.requests = <<r>>]
    <2>1. d = e
      <3> HIDE DEF r
      <3>1. PostRequest(c, last + 1, is_fetch, keep)
              = [[c EXCEPT !.status = "closed", !.broken_error = "ok", !.requests = <<>>]
                  EXCEPT !.requests = Append(@, r), !.status = IF @ = "ready" THEN "established" ELSE @]
        BY <1>3 DEF PostRequest, r
      <3>2. Append(<<>>, r) = <<r>>
        OBVIOUS
      <3>3. [[c EXCEPT !.status = "closed", !.broken_error = "ok", !.requests = <<>>]
                  EXCEPT !.requests = Append(@, r), !.status = IF @ = "ready" THEN "established" ELSE @] = e
        BY <1>0, <3>2 DEF Clients
      <3> QED BY <3>1, <3>3
    <2>2. u.reuses /\ ~Pipelines(u) /\ c.is_keep_alive = FALSE /\ D = {}
      BY <1>0, <1>1, <1>3 DEF Core, Modes
    <2>3. c.ops = {}
      <3> SUFFICES ASSUME NEW o \in c.ops PROVE FALSE
        OBVIOUS
      <3>1. o \in Operations /\ ~o.pending /\ OpMatches(c, o) /\ c.requests[1].status = "finished"
        <4>1. c.requests # <<>> /\ Front(c).status = "finished"
          BY <1>0, <1>3 DEF ReusesFetch
        <4> QED BY <1>0, <2>2, <4>1, FrontIsFirst, ClientTypes DEF Core, Modes
      <3> QED BY <3>1, StatusesOfOps DEF OpMatches, Position, Busy
    <2>4. /\ e \in Clients /\ e.status = "closed" /\ e.requests = <<r>> /\ e.ops = {}
          /\ e.is_keep_alive = FALSE
      <3> HIDE DEF r
      <3>1. <<r>> \in Seq(Requests)
        BY <1>2
      <3> DEFINE q == <<r>>
      <3> HIDE DEF q
      <3>2. LET g == [c EXCEPT !.status = "closed", !.broken_error = "ok", !.requests = q]
            IN  /\ g \in Clients /\ g.status = "closed" /\ g.requests = q /\ g.ops = c.ops
                /\ g.is_keep_alive = c.is_keep_alive
        BY <1>0, <3>1 DEF Clients, ConnectionStatus, q
      <3> QED BY <2>2, <2>3, <3>2 DEF q
    <2> HIDE DEF e
    <2>5. Len(e.requests) = 1 /\ e.requests[1] = NewRequest(last + 1, is_fetch)
      BY <2>4
    <2>6. Good(u, AsyncResume(e), D, last + 1)
      BY <1>0, <1>2, <2>2, <2>4, <2>5, PostConnects
    <2> QED BY <2>1, <2>6
  <1>4. CASE ~ReusesFetch(c)
    <2>1. d = Appended(c, r, k)
      <3> HIDE DEF r, k
      <3>1. PostRequest(c, last + 1, is_fetch, keep)
              = [[c EXCEPT !.is_keep_alive = k]
                  EXCEPT !.requests = Append(@, r), !.status = IF @ = "ready" THEN "established" ELSE @]
        BY <1>4 DEF PostRequest, r, k
      <3>2. [[c EXCEPT !.is_keep_alive = k]
                  EXCEPT !.requests = Append(@, r), !.status = IF @ = "ready" THEN "established" ELSE @]
              = [c EXCEPT !.requests = Append(@, r), !.is_keep_alive = k]
        BY <1>0 DEF Clients, Core
      <3> QED BY <3>1, <3>2 DEF Appended
    <2>2. k \in BOOLEAN /\ (u.reuses => ~k)
      BY <1>0, <1>1
    <2> HIDE DEF k, d, r
    <2>3. c.status \in {"closed", "connectting", "established"}
      BY <1>0, <1>4, ClientTypes DEF Core, Rejected, ConnectionStatus
    <2>4. CASE c.status = "closed"
      <3>1. c.requests = <<>>
        BY <2>4 DEF Good, Going
      <3>2. c.ops = {} /\ (Pipelines(u) => c.num_sent = 0)
        BY <1>0, <3>1, NoRequestNoOps
      <3>3. /\ d \in Clients /\ d.status = "closed" /\ d.is_keep_alive = k
            /\ d.num_sent = c.num_sent /\ d.ops = {} /\ Len(d.requests) = Len(c.requests) + 1
            /\ d.requests[Len(c.requests) + 1] = r
        <4> DEFINE g == Appended(c, r, k)
        <4>1. /\ g \in Clients /\ g.status = c.status /\ g.is_keep_alive = k
              /\ g.num_sent = c.num_sent /\ g.ops = c.ops /\ Len(g.requests) = Len(c.requests) + 1
              /\ g.requests[Len(c.requests) + 1] = r
          BY <1>0, <1>2, <2>2, AppendFields
        <4> HIDE DEF g
        <4> QED BY <2>1, <2>4, <3>2, <4>1 DEF g
      <3>4. Len(c.requests) = 0
        BY <1>0, <3>1
      <3>5. Len(d.requests) = 1 /\ d.requests[1] = NewRequest(last + 1, is_fetch)
        BY <3>3, <3>4 DEF r
      <3>6. ~Pipelines(u) => D = {}
        BY <1>0 DEF Core, Modes
      <3>7. Good(u, AsyncResume(d), D, last + 1)
        BY <1>0, <1>2, <2>2, <3>2, <3>3, <3>5, <3>6, PostConnects
      <3> QED BY <3>7 DEF d
    <2>5. CASE c.status # "closed"
      <3>1. Pipelines(u) \/ c.requests = <<>>
        <4> SUFFICES ASSUME ~Pipelines(u), Len(c.requests) < u.queue PROVE Len(c.requests) = 0
          BY <1>0, <1>4
        <4>1. u.queue \in Nat /\ u.queue <= 1
          BY DEF Orderly, Uses
        <4> QED BY <1>0, <4>1
      <3>2. /\ Core(u, d, D, last + 1) /\ d.requests # <<>> /\ d.status = c.status /\ d.ops = c.ops
            /\ \A j \in Places(d) : ServedAt(d, D, j)
        BY <2>1, <2>2, <2>5, <3>1, AppendCore DEF r
      <3>3. CASE c.status = "established"
        <4>1. Good(u, AsyncResume(d), D, last + 1)
          BY <3>2, <3>3, ResumeGood
        <4> QED BY <4>1 DEF d
      <3>4. CASE c.status = "connectting"
        <4>1. AsyncResume(d) = d
          BY <3>2, <3>4 DEF AsyncResume, Established
        <4>2. Going(d)
          BY <3>2, <3>4 DEF Good, Going, Established
        <4>3. Good(u, AsyncResume(d), D, last + 1)
          BY <3>2, <4>1, <4>2 DEF Good
        <4> QED BY <4>3 DEF d
      <3> QED BY <2>3, <2>5, <3>3, <3>4
    <2> QED BY <2>4, <2>5
  <1> QED BY <1>3, <1>4
-----------------------------------------------------------------------------
(* handle_next takes the front request off; those behind it come forward    *)
(* and num_sent_ and the operations with them.                              *)

LEMMA FinishFrontFields ==
  ASSUME NEW c \in Clients, c.requests # <<>>, c.requests[1].status \in Answered1
  PROVE  LET d == FinishFront(c) IN
         /\ d \in Clients /\ d.status \in {c.status, "broken"}
         /\ Marked(c, d, 1, "finished", c.requests[1].resp)
         /\ d.num_sent = c.num_sent /\ OpsKept(c, d)
         /\ c.is_keep_alive = FALSE => d.is_keep_alive = FALSE
  <1>0. 1 \in Places(c) /\ "finished" \in RequestStatus
    BY ClientTypes DEF Places, RequestStatus
  <1>1. CASE c.requests[1].status = "finished"
    <2>1. FinishFront(c) = c
      BY <1>1, FrontIsFirst DEF FinishFront
    <2>2. Marked(c, c, 1, "finished", c.requests[1].resp)
      BY <1>0, <1>1, MarkedNot
    <2> QED BY <2>1, <2>2 DEF OpsKept
  <1>2. CASE c.requests[1].status = "opened"
    <2> DEFINE e == SetStatus(c, 1, "finished")
               f == ResetSource(e)
               d == PostHandle(f, 1, FALSE)
    <2>1. /\ e \in Clients /\ SameConnection(c, e) /\ Marked(c, e, 1, "finished", c.requests[1].resp)
          /\ e.num_sent = c.num_sent /\ e.ops = c.ops
      BY <1>0, SetStatusFields
    <2> HIDE DEF e
    <2>2. /\ f \in Clients /\ SameConnection(c, f) /\ f.requests = e.requests
          /\ f.num_sent = c.num_sent /\ f.ops = c.ops
      BY <2>1 DEF ResetSource, Clients, SameConnection
    <2>3. Marked(c, f, 1, "finished", c.requests[1].resp)
      BY <2>1, <2>2 DEF Marked
    <2> HIDE DEF f
    <2>4. 1 \in Places(f) /\ f.requests[1].status = "finished" /\ f.requests[1].resp = c.requests[1].resp
      BY <1>0, <2>3 DEF Marked, Places
    <2>5. /\ d \in Clients /\ d.status \in {f.status, "broken"}
          /\ Marked(f, d, 1, "finished", c.requests[1].resp)
          /\ d.num_sent = f.num_sent /\ OpsKept(f, d)
          /\ f.is_keep_alive = FALSE => d.is_keep_alive = FALSE
      BY <2>2, <2>4, PostHandleFields
    <2> HIDE DEF d
    <2>6. Marked(c, d, 1, "finished", c.requests[1].resp)
      BY <1>0, <2>2, <2>3, <2>5, MarkedTwice
    <2>7. d.requests # <<>> /\ d.requests[1].status = "finished"
      <3>1. Len(d.requests) = Len(c.requests) /\ d.requests[1].status = "finished"
        BY <1>0, <2>6 DEF Marked
      <3> QED BY <2>5, <3>1, ClientTypes
    <2>8. FinishFront(c) = d
      <3>1. Front(c).status = "opened" /\ Front(d).status = "finished"
        BY <1>2, <2>7, FrontIsFirst
      <3> QED BY <3>1 DEF FinishFront, d, e, f
    <2> QED BY <2>2, <2>5, <2>6, <2>8 DEF SameConnection, OpsKept
  <1> QED BY <1>1, <1>2 DEF Answered1

LEMMA PopFields ==
  ASSUME NEW c \in Clients, c.requests # <<>>, c.requests[1].status \in Answered1,
         c.num_sent > 0, c.status \in {"established", "broken"}
  PROVE  LET e == PopFront(c) IN
         /\ e \in Clients /\ e.status \in {"established", "broken"}
         /\ e.num_sent = c.num_sent - 1 /\ e.num_sent \in Nat /\ OpsKept(c, e)
         /\ c.is_keep_alive = FALSE => e.is_keep_alive = FALSE
         /\ Len(e.requests) = Len(c.requests) - 1
         /\ \A j \in Places(e) : j \in Nat /\ j >= 1 /\ j + 1 \in Places(c)
                                 /\ e.requests[j] \in Requests
         /\ \A j \in Places(e) :
              /\ e.requests[j].id = c.requests[j + 1].id
              /\ e.requests[j].status = c.requests[j + 1].status
              /\ e.requests[j].resp = c.requests[j + 1].resp
  <1> DEFINE d == FinishFront(c)
             q == Tail(d.requests)
             e == [d EXCEPT !.requests = q, !.num_sent = d.num_sent - 1]
  <1>1. /\ d \in Clients /\ d.status \in {"established", "broken"}
        /\ Marked(c, d, 1, "finished", c.requests[1].resp)
        /\ d.num_sent = c.num_sent /\ OpsKept(c, d)
        /\ c.is_keep_alive = FALSE => d.is_keep_alive = FALSE
    BY FinishFrontFields
  <1> HIDE DEF d
  <1>2. /\ d.requests \in Seq(Requests) /\ Len(d.requests) = Len(c.requests) /\ Len(c.requests) \in Nat
        /\ Len(c.requests) # 0 /\ d.requests # <<>> /\ c.num_sent \in Nat
    <2>1. d.requests \in Seq(Requests) /\ Len(d.requests) = Len(c.requests)
      BY <1>1 DEF Marked
    <2>2. Len(c.requests) \in Nat /\ Len(c.requests) # 0 /\ c.num_sent \in Nat
      BY ClientTypes
    <2> QED BY <1>1, <2>1, <2>2, ClientTypes
  <1>3. /\ q \in Seq(Requests) /\ Len(q) = Len(d.requests) - 1
        /\ \A j \in 1 .. Len(q) : q[j] = d.requests[j + 1]
    BY <1>2
  <1>4. PopFront(c) = e
    <2>1. PopFront(c) = [d EXCEPT !.requests = Tail(@), !.num_sent = @ - 1,
              !.status = IF @ = "ready" /\ Len(d.requests) > 1 THEN "established" ELSE @]
      BY DEF PopFront, Uncount, d
    <2> QED BY <1>1, <2>1 DEF Clients
  <1>5. d.num_sent - 1 \in Nat
    BY <1>1, <1>2
  <1> HIDE DEF q
  <1>6. /\ e \in Clients /\ e.status = d.status /\ e.is_keep_alive = d.is_keep_alive
        /\ e.num_sent = d.num_sent - 1 /\ e.ops = d.ops /\ e.requests = q
    BY <1>1, <1>3, <1>5 DEF Clients
  <1> HIDE DEF e
  <1>7. OpsKept(c, e)
    BY <1>1, <1>6 DEF OpsKept
  <1>8. ASSUME NEW j \in Places(e)
        PROVE  /\ j \in Nat /\ j >= 1 /\ j + 1 \in Places(c) /\ e.requests[j] = d.requests[j + 1]
               /\ j + 1 # 1 /\ e.requests[j] \in Requests
    BY <1>2, <1>3, <1>6 DEF Places
  <1>9. ASSUME NEW j \in Places(e)
        PROVE  /\ e.requests[j].id = c.requests[j + 1].id
               /\ e.requests[j].status = c.requests[j + 1].status
               /\ e.requests[j].resp = c.requests[j + 1].resp
    BY <1>1, <1>8 DEF Marked
  <1> QED BY <1>1, <1>2, <1>3, <1>4, <1>5, <1>6, <1>7, <1>8, <1>9

LEMMA PopGood ==
  ASSUME NEW u, NEW c, NEW D, NEW last, Good(u, c, D, last), c.requests # <<>>,
         c.requests[1].status \in Answered1
  PROVE  LET e == PopFront(c) IN
         /\ Core(u, e, D, last) /\ e.status \in {"established", "broken"}
         /\ Len(e.requests) = Len(c.requests) - 1
         /\ \A j \in Places(e) : ServedAt(e, D, j)
  <1> DEFINE e == PopFront(c)
  <1>0. /\ c \in Clients /\ Core(u, c, D, last) /\ c.num_sent \in Nat /\ Len(c.requests) \in Nat
        /\ 1 \in Places(c) /\ c.ops \subseteq Operations /\ c.is_keep_alive \in BOOLEAN
    BY ClientTypes DEF Good, Core, Places
  <1>1. ASSUME NEW o \in c.ops PROVE Position(c, o.pending) # 1
    <2> SUFFICES ASSUME Position(c, o.pending) = 1 PROVE FALSE
      OBVIOUS
    <2>1. StatusFor(o.what) \in Answered1
      BY <1>0 DEF Core, OpMatches
    <2> QED BY <1>0, <2>1, StatusesOfOps DEF Answered1, Busy
  <1>2. ASSUME NEW o \in c.ops
        PROVE  o.pending /\ IsWrite(o) /\ c.num_sent # 0 /\ Position(c, o.pending) = c.num_sent + 1
    BY <1>0, <1>1 DEF Position, Core, OpMatches
  <1>3. c.status \in {"established", "broken"}
    <2>1. c.status # "connectting"
      <3> SUFFICES ASSUME c.status = "connectting" PROVE FALSE
        OBVIOUS
      <3>1. PICK o \in c.ops : TRUE
        BY DEF Good, Going
      <3>2. o.what = "connect" /\ IsWrite(o)
        BY <1>0, <1>2 DEF Core, OpMatches
      <3> QED BY <3>2 DEF IsWrite, WriteKinds
    <2> QED BY <1>0, <2>1, ClientTypes DEF Good, Going, Core, ConnectionStatus
  <1>4. c.num_sent > 0
    BY <1>0 DEF Core, FrontCounted, Answered1, Unsent
  <1>5. /\ e \in Clients /\ e.status \in {"established", "broken"}
        /\ e.num_sent = c.num_sent - 1 /\ e.num_sent \in Nat /\ OpsKept(c, e)
        /\ c.is_keep_alive = FALSE => e.is_keep_alive = FALSE
        /\ Len(e.requests) = Len(c.requests) - 1
    BY <1>0, <1>3, <1>4, PopFields
  <1>6. \A j \in Places(e) : j \in Nat /\ j >= 1 /\ j + 1 \in Places(c) /\ e.requests[j] \in Requests
    BY <1>0, <1>3, <1>4, PopFields
  <1>7. \A j \in Places(e) :
              /\ e.requests[j].id = c.requests[j + 1].id
              /\ e.requests[j].status = c.requests[j + 1].status
              /\ e.requests[j].resp = c.requests[j + 1].resp
    BY <1>0, <1>3, <1>4, PopFields
  <1> HIDE DEF e
  <1>8. InOrder(e, last)
    <2>1. ASSUME NEW i \in Places(e), NEW j \in Places(e), i < j PROVE e.requests[i].id < e.requests[j].id
      <3>1. i + 1 \in Places(c) /\ j + 1 \in Places(c) /\ i + 1 < j + 1
        BY <1>6, <2>1
      <3>2. c.requests[i + 1].id < c.requests[j + 1].id
        BY <1>0, <3>1 DEF Core, InOrder
      <3> QED BY <1>7, <3>2
    <2> QED BY <1>0, <1>6, <1>7, <2>1 DEF Core, InOrder
  <1>9. e.requests # <<>> => /\ 1 \in Places(e) /\ 2 \in Places(c) /\ Pipelines(u) /\ Line(c)
                             /\ e.requests[1].status = c.requests[2].status
                             /\ e.requests[1].resp = "held"
    <2> SUFFICES ASSUME e.requests # <<>> PROVE /\ 1 \in Places(e) /\ 2 \in Places(c) /\ Pipelines(u) /\ Line(c)
                             /\ e.requests[1].status = c.requests[2].status
                             /\ e.requests[1].resp = "held"
      OBVIOUS
    <2>1. Len(e.requests) \in Nat /\ Len(e.requests) # 0
      BY <1>5, ClientTypes
    <2>2. 1 \in Places(e) /\ 2 \in Places(c) /\ Len(c.requests) >= 2
      BY <1>0, <1>5, <2>1 DEF Places
    <2>3. e.requests[1].status = c.requests[2].status /\ e.requests[1].resp = c.requests[2].resp
      <3>1. 1 + 1 = 2
        OBVIOUS
      <3> QED BY <1>7, <2>2, <3>1
    <2>4. c.requests[2].resp = "held"
      BY <1>0, <2>2 DEF Core, FrontAnswered
    <2> QED BY <1>0, <2>2, <2>3, <2>4 DEF Core, Modes
  <1>10. FrontAnswered(e) /\ FrontCounted(e)
    <2>1. ASSUME NEW i \in Places(e), i > 1 PROVE e.requests[i].resp = "held"
      <3>1. i + 1 \in Places(c) /\ i + 1 > 1
        BY <1>6, <2>1
      <3> QED BY <1>0, <1>7, <3>1 DEF Core, FrontAnswered
    <2>2. ASSUME e.requests # <<>> PROVE e.requests[1].status \notin Answered1
      <3>1. CASE c.num_sent >= 2
        BY <1>0, <1>9, <2>2, <3>1 DEF Line, Answered1
      <3>2. CASE c.num_sent = 1
        BY <1>0, <1>9, <2>2, <3>2 DEF Line, Answered1, Unsent
      <3> QED BY <1>0, <1>4, <3>1, <3>2
    <2>3. ASSUME e.requests # <<>>, e.requests[1].status \notin Unsent PROVE e.num_sent > 0
      <3>1. ~(2 > c.num_sent)
        BY <1>9, <2>3 DEF Line
      <3> QED BY <1>0, <1>5, <3>1
    <2> QED BY <1>9, <2>1, <2>2, <2>3 DEF FrontAnswered, FrontCounted
  <1>11. /\ OneOfAKind(e)
         /\ \A o \in e.ops : \E p \in c.ops : o.what = p.what /\ o.pending = p.pending /\ o.id = p.id
         /\ \A p \in c.ops : \E o \in e.ops : o.what = p.what /\ o.pending = p.pending /\ o.id = p.id
         /\ c.ops = {} => e.ops = {}
    BY <1>0, <1>5, KeptOps DEF Core
  <1>12. ASSUME NEW o \in e.ops PROVE OpMatches(e, o) /\ o.pending
    <2>1. PICK p \in c.ops : o.what = p.what /\ o.pending = p.pending /\ o.id = p.id
      BY <1>11
    <2> DEFINE j == c.num_sent
    <2>2. p.pending /\ IsWrite(p) /\ j # 0 /\ Position(c, p.pending) = j + 1 /\ OpMatches(c, p)
      BY <1>0, <1>2 DEF Core
    <2>3. Position(e, o.pending) = j
      BY <1>0, <1>5, <2>1, <2>2 DEF Position
    <2>4. j + 1 \in Places(c)
      BY <2>2 DEF OpMatches
    <2>5. j \in Places(e)
      <3>1. j + 1 <= Len(c.requests)
        BY <1>0, <2>4 DEF Places
      <3>2. j <= Len(e.requests) /\ j >= 1
        BY <1>0, <1>4, <1>5, <3>1
      <3> QED BY <1>0, <1>5, <3>2 DEF Places
    <2>6. e.requests[j].id = o.id /\ e.requests[j].status = StatusFor(o.what)
      BY <1>7, <2>1, <2>2, <2>5 DEF OpMatches
    <2>7. o.what # "connect" /\ IsWrite(o) /\ e.status # "connectting"
      BY <1>5, <2>1, <2>2 DEF IsWrite, WriteKinds
    <2> QED BY <2>1, <2>2, <2>3, <2>5, <2>6, <2>7 DEF OpMatches
  <1>13. DroppedShape(e, D, last)
    <2>1. \A o \in e.ops : IsWrite(o) => o.id \notin D
      BY <1>0, <1>11 DEF Core, DroppedShape, IsWrite
    <2> QED BY <1>0, <1>6, <1>7, <2>1 DEF Core, DroppedShape
  <1>14. Modes(u, e, D)
    <2>1. ASSUME Pipelines(u) PROVE Line(e)
      <3>1. Line(c)
        BY <1>0, <2>1 DEF Core, Modes
      <3>2. e.num_sent <= Len(e.requests)
        BY <1>0, <1>5, <3>1 DEF Line
      <3>3. ASSUME NEW i \in Places(e)
            PROVE  /\ i > e.num_sent => e.requests[i].status \in Unsent
                   /\ i > e.num_sent + 1 => e.requests[i].status = "send_pending"
                   /\ i <= e.num_sent => e.requests[i].status \notin Unsent
                   /\ i <= e.num_sent /\ i > 1 => e.requests[i].status = "recv_pending"
        <4>1. i \in Nat /\ i >= 1 /\ i + 1 \in Places(c) /\ e.requests[i].status = c.requests[i + 1].status
          BY <1>6, <1>7
        <4>2. /\ i > e.num_sent => i + 1 > c.num_sent
              /\ i > e.num_sent + 1 => i + 1 > c.num_sent + 1
              /\ i <= e.num_sent => i + 1 <= c.num_sent /\ i + 1 > 1
          BY <1>0, <1>5, <4>1
        <4> QED BY <3>1, <4>1, <4>2 DEF Line
      <3> QED BY <3>2, <3>3 DEF Line
    <2>2. ASSUME ~Pipelines(u) PROVE Len(e.requests) <= 1 /\ D = {} /\ \A o \in e.ops : ~o.pending
      <3>1. c.ops = {} /\ D = {} /\ Len(c.requests) <= 1
        BY <1>0, <1>2, <2>2 DEF Core, Modes
      <3> QED BY <1>0, <1>5, <1>11, <3>1
    <2>3. u.reuses => ~e.is_keep_alive /\ ~ReusesFetch(e)
      <3> SUFFICES ASSUME u.reuses PROVE ~e.is_keep_alive /\ ~ReusesFetch(e)
        OBVIOUS
      <3>1. e.requests = <<>>
        BY <1>9 DEF Pipelines
      <3>2. Len(e.requests) # 1
        BY <3>1
      <3> QED BY <1>0, <1>5, <3>2 DEF Core, Modes, ReusesFetch
    <2> QED BY <2>1, <2>2, <2>3 DEF Modes
  <1>15. Core(u, e, D, last)
    BY <1>5, <1>8, <1>10, <1>11, <1>12, <1>13, <1>14 DEF Core
  <1>16. ASSUME NEW j \in Places(e) PROVE ServedAt(e, D, j)
    <2>1. ServedAt(c, D, j + 1)
      BY <1>6 DEF Good
    <2> QED BY <1>7, <1>11, <2>1 DEF ServedAt
  <1> QED BY <1>5, <1>15, <1>16 DEF e
\* close() of a client without requests.
LEMMA ClosedGood ==
  ASSUME NEW u, NEW c, NEW D, NEW last, Core(u, c, D, last), c.requests = <<>>
  PROVE  Good(u, Closed(c), D, last) /\ Closed(c).requests = <<>>
  <1> DEFINE b == CloseSocket(c)
             d == [b EXCEPT !.status = "closed", !.broken_error = "ok"]
  <1>1. c \in Clients /\ c.ops = {} /\ (Pipelines(u) => c.num_sent = 0)
    BY NoRequestNoOps DEF Core
  <1>2. /\ b \in Clients /\ SameConnection(c, b) /\ b.requests = c.requests
        /\ b.num_sent = c.num_sent /\ b.ops = Aborted(c.ops)
    BY <1>1, CloseSocketFields
  <1>3. Aborted(c.ops) = {}
    BY <1>1 DEF Aborted
  <1> HIDE DEF b
  <1>4. /\ d \in Clients /\ d.requests = <<>> /\ d.num_sent = c.num_sent /\ d.ops = {}
        /\ d.status = "closed" /\ d.is_keep_alive = c.is_keep_alive
    BY <1>2, <1>3 DEF Clients, ConnectionStatus, SameConnection
  <1>5. Closed(c) = d
    BY DEF Closed, b
  <1> HIDE DEF d
  <1>6. Places(d) = {} /\ Len(d.requests) = 0
    BY <1>4 DEF Places
  <1>7. InOrder(d, last) /\ FrontAnswered(d) /\ FrontCounted(d) /\ OneOfAKind(d)
    BY <1>4, <1>6 DEF InOrder, FrontAnswered, FrontCounted, OneOfAKind
  <1>8. DroppedShape(d, D, last)
    BY <1>4, <1>6 DEF Core, DroppedShape
  <1>9. Modes(u, d, D)
    <2>1. Pipelines(u) => Line(d)
      BY <1>1, <1>4, <1>6 DEF Line
    <2>2. ~ReusesFetch(d)
      BY <1>6 DEF ReusesFetch
    <2> QED BY <1>4, <1>6, <2>1, <2>2 DEF Core, Modes
  <1>10. Core(u, d, D, last)
    BY <1>4, <1>7, <1>8, <1>9 DEF Core
  <1>11. Going(d) /\ \A j \in Places(d) : ServedAt(d, D, j)
    BY <1>4, <1>6 DEF Going, Established
  <1> QED BY <1>4, <1>5, <1>10, <1>11 DEF Good

\* What a client without requests is left with stays good.
LEMMA EmptyGood ==
  ASSUME NEW u, NEW c, NEW D, NEW last, Core(u, c, D, last), Len(c.requests) = 0,
         c.status \in {"established", "broken"}
  PROVE  c.requests = <<>> /\ Good(u, AsyncResume(c), D, last)
  <1>1. c.requests = <<>>
    BY ClientTypes DEF Core
  <1>2. AsyncResume(c) = c /\ Places(c) = {}
    BY <1>1 DEF AsyncResume, Places
  <1> QED BY <1>1, <1>2, GoodOn

LEMMA HandleNextGood ==
  ASSUME NEW u, NEW c, NEW D, NEW last, Good(u, c, D, last), c.requests # <<>>,
         c.requests[1].status \in Answered1
  PROVE  /\ Good(u, HandleNext(c), D, last)
         /\ Len(c.requests) = 1 => /\ Good(u, Closed(PopFront(c)), D, last)
                                   /\ Closed(PopFront(c)).requests = <<>>
  <1> DEFINE e == PopFront(c)
  <1>1. /\ Core(u, e, D, last) /\ e.status \in {"established", "broken"}
        /\ Len(e.requests) = Len(c.requests) - 1
        /\ \A j \in Places(e) : ServedAt(e, D, j)
    BY PopGood
  <1>2. HandleNext(c) = AsyncResume(e)
    BY DEF HandleNext
  <1> HIDE DEF e
  <1>3. CASE e.requests # <<>>
    <2>1. Len(e.requests) # 0
      BY <1>1, <1>3, ClientTypes DEF Core
    <2>2. Len(c.requests) # 1
      BY <1>1, <2>1
    <2> QED BY <1>1, <1>2, <1>3, <2>2, ResumeGood
  <1>4. CASE e.requests = <<>>
    <2>1. Len(e.requests) = 0
      BY <1>4
    <2> QED BY <1>1, <1>2, <1>4, <2>1, EmptyGood, ClosedGood DEF e
  <1> QED BY <1>3, <1>4

-----------------------------------------------------------------------------
(* A handler runs: its operation is over, and nothing else was under way for *)
(* its request.                                                             *)

Without(c, o) == [c EXCEPT !.ops = @ \ {o}]

LEMMA WithoutCore ==
  ASSUME NEW u, NEW c, NEW D, NEW last, Good(u, c, D, last), NEW o \in c.ops
  PROVE  LET d == Without(c, o)
             i == Position(c, o.pending)
         IN  /\ Core(u, d, D, last) /\ SameConnection(c, d) /\ d.requests = c.requests
             /\ d.num_sent = c.num_sent /\ d.ops = c.ops \ {o} /\ d.response = c.response
             /\ \A p \in BOOLEAN : Position(d, p) = Position(c, p)
             /\ \A p \in d.ops : Position(d, p.pending) # i /\ (IsWrite(p) <=> ~IsWrite(o))
             /\ \A j \in Places(c) : j # i => ServedAt(d, D, j)
  <1> DEFINE d == Without(c, o)
             i == Position(c, o.pending)
  <1>0. c \in Clients /\ Core(u, c, D, last) /\ c.ops \subseteq Operations
    BY ClientTypes DEF Good, Core
  <1>1. /\ d \in Clients /\ SameConnection(c, d) /\ d.requests = c.requests
        /\ d.num_sent = c.num_sent /\ d.ops = c.ops \ {o} /\ d.response = c.response
    BY <1>0 DEF Without, Clients, SameConnection
  <1> HIDE DEF d
  <1>2. \A p : Position(d, p) = Position(c, p)
    BY <1>1 DEF Position
  <1>3. ASSUME NEW p \in d.ops PROVE p \in c.ops /\ p # o /\ (IsWrite(p) <=> ~IsWrite(o))
    BY <1>0, <1>1 DEF Core, OneOfAKind
  <1>4. ASSUME NEW p \in d.ops PROVE Position(d, p.pending) # i
    <2> SUFFICES ASSUME Position(c, p.pending) = i PROVE FALSE
      BY <1>2
    <2>1. StatusFor(p.what) = StatusFor(o.what)
      BY <1>0, <1>3 DEF Core, OpMatches
    <2>2. p.what = o.what
      BY <1>0, <1>3, <2>1, SameWhat
    <2> QED BY <1>3, <2>2 DEF IsWrite
  <1>5. Places(d) = Places(c)
    BY <1>1 DEF Places
  <1>6. InOrder(d, last) /\ FrontAnswered(d) /\ FrontCounted(d) /\ OneOfAKind(d)
    BY <1>0, <1>1, <1>5 DEF Core, InOrder, FrontAnswered, FrontCounted, OneOfAKind
  <1>7. DroppedShape(d, D, last)
    BY <1>0, <1>1, <1>5 DEF Core, DroppedShape
  <1>8. ASSUME NEW p \in d.ops PROVE OpMatches(d, p)
    BY <1>0, <1>1, <1>2, <1>3, <1>5 DEF Core, OpMatches, SameConnection
  <1>9. Modes(u, d, D)
    <2>1. Line(c) => Line(d)
      BY <1>1, <1>5 DEF Line
    <2>2. ReusesFetch(d) <=> ReusesFetch(c)
      BY <1>1 DEF ReusesFetch, Front
    <2> QED BY <1>0, <1>1, <2>1, <2>2 DEF Core, Modes, SameConnection
  <1>10. Core(u, d, D, last)
    BY <1>0, <1>1, <1>6, <1>7, <1>8, <1>9 DEF Core, SameConnection
  <1>11. ASSUME NEW j \in Places(c), j # i PROVE ServedAt(d, D, j)
    <2> SUFFICES ASSUME c.requests[j].status \in Busy, c.requests[j].id \notin D
                 PROVE  \E p \in d.ops : p.id = c.requests[j].id
      BY <1>1 DEF ServedAt
    <2>1. PICK p \in c.ops : p.id = c.requests[j].id
      BY DEF Good, ServedAt
    <2>2. i \in Places(c) /\ o.id = c.requests[i].id
      BY <1>0 DEF Core, OpMatches
    <2>3. i \in Nat /\ j \in Nat /\ c.requests[i].id \in Nat /\ c.requests[j].id \in Nat
      BY <1>0, <2>2, ClientTypes DEF Places
    <2>4. c.requests[i].id # c.requests[j].id
      BY <1>0, <1>11, <2>2, <2>3 DEF Core, InOrder
    <2> QED BY <1>1, <2>1, <2>2, <2>4
  <1> QED BY <1>1, <1>2, <1>3, <1>4, <1>10, <1>11 DEF d

\* handle_async_connect.
LEMMA ConnectGood ==
  ASSUME NEW u, NEW c, NEW D, NEW last, Good(u, c, D, last), NEW o \in c.ops, o.what = "connect",
         NEW ec \in {"ok", "error"}
  PROVE  Good(u, HandleConnect(Without(c, o), ec), D, last)
  <1> DEFINE d == Without(c, o)
             b == Break(d)
             e == [d EXCEPT !.status = "established"]
  <1>0. /\ c \in Clients /\ Core(u, c, D, last) /\ c.ops \subseteq Operations
        /\ c.status = "connectting" /\ ~IsWrite(o) /\ Position(c, o.pending) = 1
        /\ c.requests # <<>> /\ c.requests[1].status = "send_pending"
    <2>1. c.status = "connectting" /\ c.requests # <<>> /\ OpMatches(c, o) /\ ~IsWrite(o)
      BY DEF Good, Going, Core, OpMatches, IsWrite, WriteKinds
    <2>2. Position(c, o.pending) = 1
      BY <2>1 DEF OpMatches, Position
    <2>3. StatusFor(o.what) = "send_pending"
      BY DEF StatusFor
    <2> QED BY <2>1, <2>2, <2>3, ClientTypes DEF Good, Core, OpMatches
  <1>1. /\ Core(u, d, D, last) /\ SameConnection(c, d) /\ d.requests = c.requests
        /\ d.num_sent = c.num_sent /\ d.ops = c.ops \ {o}
        /\ \A p \in d.ops : IsWrite(p) <=> ~IsWrite(o)
        /\ \A j \in Places(c) : j # 1 => ServedAt(d, D, j)
    BY <1>0, WithoutCore
  <1> HIDE DEF d
  <1>2. d.ops = {} /\ d \in Clients
    <2> SUFFICES ASSUME NEW p \in d.ops PROVE FALSE
      BY <1>1 DEF Core
    <2>1. IsWrite(p) /\ p.what = "connect"
      BY <1>0, <1>1 DEF Core, OpMatches
    <2> QED BY <2>1 DEF IsWrite, WriteKinds
  <1>3. \A j \in Places(c) : ServedAt(d, D, j)
    <2>1. ServedAt(d, D, 1)
      BY <1>0, <1>1 DEF ServedAt, Busy
    <2> QED BY <1>1, <2>1
  <1>4. /\ b \in Clients /\ b.status = "broken" /\ b.requests = d.requests /\ b.num_sent = d.num_sent
        /\ b.ops = {} /\ b.is_keep_alive = d.is_keep_alive
    <2>1. Aborted(d.ops) = {}
      BY <1>2 DEF Aborted
    <2> QED BY <1>2, <2>1, BreakFields
  <1>5. /\ e \in Clients /\ e.status = "established" /\ e.requests = d.requests /\ e.num_sent = d.num_sent
        /\ e.ops = {} /\ e.is_keep_alive = d.is_keep_alive
    BY <1>2 DEF Clients, ConnectionStatus
  <1> HIDE DEF b, e
  <1>6. ASSUME NEW f \in Clients, f.status \in {"established", "broken"}, f.requests = d.requests,
               f.num_sent = d.num_sent, f.ops = {}, f.is_keep_alive = d.is_keep_alive
        PROVE  Good(u, AsyncResume(f), D, last)
    <2>1. Places(f) = Places(d) /\ Places(f) = Places(c)
      BY <1>1, <1>6 DEF Places
    <2>2. InOrder(f, last) /\ FrontAnswered(f) /\ FrontCounted(f) /\ OneOfAKind(f)
      BY <1>1, <1>6, <2>1 DEF Core, InOrder, FrontAnswered, FrontCounted, OneOfAKind
    <2>3. DroppedShape(f, D, last)
      BY <1>1, <1>6, <2>1 DEF Core, DroppedShape
    <2>4. Line(d) => Line(f)
      BY <1>6, <2>1 DEF Line
    <2>5. ~ReusesFetch(f)
      BY <1>0, <1>1, <1>6, FrontIsFirst DEF ReusesFetch
    <2>6. Modes(u, f, D)
      BY <1>1, <1>6, <2>4, <2>5 DEF Core, Modes
    <2>7. Core(u, f, D, last)
      BY <1>6, <2>2, <2>3, <2>6 DEF Core
    <2>8. \A j \in Places(f) : ServedAt(f, D, j)
      BY <1>2, <1>3, <1>6, <2>1 DEF ServedAt
    <2> QED BY <1>0, <1>1, <1>6, <2>7, <2>8, ResumeGood
  <1>7. HandleConnect(d, ec) = AsyncResume(b) \/ HandleConnect(d, ec) = AsyncResume(e)
    BY <1>0, <1>1 DEF HandleConnect, SameConnection, b, e
  <1> QED BY <1>4, <1>5, <1>6, <1>7 DEF d
\* handle_async_reqeust.
LEMMA HandledCases ==
  ASSUME NEW c, NEW flag \in BOOLEAN, NEW ec, NEW in
  PROVE  LET i == Position(c, flag)
             p == flag /\ c.num_sent # 0
             s == c.requests[i].status
             h == HandleRequest(c, flag, ec, in)
         IN  /\ ec # "ok" /\ ~EndsBody(c, i, ec) => h = Failed(c, i, p)
             /\ ec = "ok" \/ EndsBody(c, i, ec) =>
                  /\ s = "sending_req_head" => h = IF in.data THEN SendData(c, i, p) ELSE Sent(c, i, p)
                  /\ s = "sending_req_data" => h = Sent(c, i, p)
                  /\ s = "recving_resp_head" =>
                       h = IF in.redirect THEN Redirected(c) ELSE ReceivedHead(c, in.response)
                  /\ s = "recving_resp_data" => h = Fetched(c)
  BY DEF HandleRequest

\* A redirected request is sent again on a connection of its own.
LEMMA RedirectedGood ==
  ASSUME NEW u, NEW c, NEW D, NEW last, Core(u, c, D, last), ~Pipelines(u), c.requests # <<>>, c.ops = {},
         c.requests[1].resp = "held"
  PROVE  Good(u, Redirected(c), D, last)
  <1> DEFINE a == CloseSocket(c)
             b == [a EXCEPT !.status = "closed"]
             d == SetStatus(b, 1, "send_pending")
  <1>0. /\ c \in Clients /\ Len(c.requests) = 1 /\ 1 \in Places(c) /\ c.num_sent \in Nat
        /\ "send_pending" \in RequestStatus
    <2>1. Len(c.requests) \in Nat /\ Len(c.requests) # 0 /\ Len(c.requests) <= 1 /\ c.num_sent \in Nat
      BY ClientTypes DEF Core, Modes
    <2> DEFINE n == Len(c.requests)
    <2> HIDE DEF n
    <2>2. n = 1
      <3>1. n \in Nat /\ n # 0 /\ n <= 1
        BY <2>1 DEF n
      <3> QED BY <3>1
    <2> QED BY <2>1, <2>2 DEF Core, Places, RequestStatus, n
  <1>1. Aborted(c.ops) = {}
    BY DEF Aborted
  <1>2. /\ a \in Clients /\ SameConnection(c, a) /\ a.requests = c.requests
        /\ a.num_sent = c.num_sent /\ a.ops = {}
    BY <1>0, <1>1, CloseSocketFields
  <1> HIDE DEF a
  <1>3. /\ b \in Clients /\ b.requests = c.requests /\ b.ops = {} /\ b.is_keep_alive = c.is_keep_alive
    BY <1>2 DEF Clients, ConnectionStatus, SameConnection
  <1> HIDE DEF b
  <1>4. 1 \in Places(b)
    BY <1>0, <1>3 DEF Places
  <1>5. /\ d \in Clients /\ SameConnection(b, d) /\ Marked(b, d, 1, "send_pending", b.requests[1].resp)
        /\ d.ops = b.ops
    BY <1>0, <1>3, <1>4, SetStatusFields
  <1>6. Redirected(c) = StartConnect(d)
    BY DEF Redirected, a, b
  <1> HIDE DEF d
  <1>7. /\ Len(d.requests) = 1 /\ d.requests[1].status = "send_pending" /\ d.requests[1].resp = "held"
        /\ d.requests[1].id = c.requests[1].id /\ d.ops = {} /\ d.is_keep_alive = c.is_keep_alive
    BY <1>0, <1>3, <1>4, <1>5 DEF Marked, SameConnection
  <1>8. D = {} /\ c.requests[1].id \in 1 .. last /\ (u.reuses => ~c.is_keep_alive)
    BY <1>0 DEF Core, Modes, InOrder
  <1>9. Good(u, StartConnect(d), D, last)
    BY <1>5, <1>7, <1>8, StartConnectGood
  <1> QED BY <1>6, <1>9

\* What a handler finds of the request of its operation.
LEMMA HandlerFinds ==
  ASSUME NEW u, NEW c, NEW D, NEW last, Good(u, c, D, last), NEW o \in c.ops, o.what # "connect"
  PROVE  LET i == Position(c, o.pending)
             pending == o.pending /\ c.num_sent # 0
         IN  /\ c \in Clients /\ Core(u, c, D, last) /\ o \in Operations /\ i \in Places(c)
             /\ c.requests # <<>> /\ c.status \in {"established", "broken"}
             /\ c.requests[1].status \notin Waits
             /\ c.requests[i].id = o.id /\ c.requests[i].status = StatusFor(o.what)
             /\ c.requests[i].resp = "held" /\ (IsWrite(o) => o.id \notin D)
             /\ pending \in BOOLEAN /\ (pending <=> i > 1) /\ (~pending => i = 1)
             /\ Position(c, pending) = i /\ (~IsWrite(o) => ~o.pending)
             /\ Pipelines(u) /\ IsWrite(o) => i = c.num_sent + 1
             /\ ~Pipelines(u) => ~pending
  <1> DEFINE i == Position(c, o.pending)
             pending == o.pending /\ c.num_sent # 0
  <1>1. /\ c \in Clients /\ Core(u, c, D, last) /\ o \in Operations /\ OpMatches(c, o)
        /\ c.num_sent \in Nat /\ Len(c.requests) \in Nat /\ o.pending \in BOOLEAN
    BY ClientTypes DEF Good, Core, Operations
  <1>2. /\ i \in Places(c) /\ c.requests[i].id = o.id /\ c.requests[i].status = StatusFor(o.what)
        /\ (~IsWrite(o) => ~o.pending) /\ c.status # "connectting"
    BY <1>1 DEF OpMatches
  <1>3. c.requests # <<>> /\ i \in Nat /\ i >= 1 /\ 1 \in Places(c)
    <2>1. i \in Nat /\ i >= 1 /\ i <= Len(c.requests)
      BY <1>1, <1>2 DEF Places
    <2>2. Len(c.requests) # 0
      BY <1>1, <2>1
    <2> QED BY <1>1, <2>1, <2>2, ClientTypes DEF Places
  <1>4. c.status \in {"established", "broken"} /\ c.requests[1].status \notin Waits
    BY <1>1, <1>2, <1>3, ClientTypes DEF Good, Going, Core, ConnectionStatus, Established
  <1>5. pending \in BOOLEAN /\ (pending <=> i > 1) /\ (~pending => i = 1) /\ Position(c, pending) = i
    <2>1. CASE o.pending
      BY <1>1, <2>1 DEF Position
    <2>2. CASE ~o.pending
      BY <1>1, <2>2 DEF Position
    <2> QED BY <1>1, <2>1, <2>2
  <1>6. c.requests[i].resp = "held"
    <2>1. StatusFor(o.what) \notin Answered1
      BY <1>1, StatusesOfOps DEF Answered1, Busy
    <2>2. CASE i = 1
      BY <1>1, <1>2, <1>3, <2>1, <2>2 DEF Core, FrontAnswered
    <2>3. CASE i # 1
      BY <1>1, <1>2, <1>3, <2>3 DEF Core, FrontAnswered
    <2> QED BY <2>2, <2>3
  <1>7. ASSUME Pipelines(u), IsWrite(o) PROVE i = c.num_sent + 1
    <2>1. c.requests[i].status \in Unsent
      BY <1>1, <1>2, <1>7, StatusesOfOps DEF Unsent
    <2>2. ~(i <= c.num_sent)
      BY <1>1, <1>2, <1>7, <2>1 DEF Core, Modes, Line
    <2> QED BY <1>1, <1>3, <2>2 DEF Position
  <1>8. ~Pipelines(u) => ~pending
    BY <1>1 DEF Core, Modes
  <1>9. IsWrite(o) => o.id \notin D
    BY <1>1 DEF Core, DroppedShape
  <1> HIDE DEF i, pending
  <1> QED BY <1>1, <1>2, <1>3, <1>4, <1>5, <1>6, <1>7, <1>8, <1>9 DEF i, pending
\* A request whose send failed behind another is left to be found later.
LEMMA DroppedGood ==
  ASSUME NEW u, NEW c, NEW D, NEW last, Good(u, c, D, last), NEW o \in c.ops, o.what # "connect"
  PROVE  o.pending /\ c.num_sent # 0 => Good(u, Without(c, o), D \cup {o.id}, last)
  <1> DEFINE d == Without(c, o)
             i == Position(c, o.pending)
             E == D \cup {o.id}
  <1>1. /\ Core(u, d, D, last) /\ SameConnection(c, d) /\ d.requests = c.requests
        /\ d.num_sent = c.num_sent /\ d.ops = c.ops \ {o}
        /\ \A p \in BOOLEAN : Position(d, p) = Position(c, p)
        /\ \A p \in d.ops : Position(d, p.pending) # i /\ (IsWrite(p) <=> ~IsWrite(o))
        /\ \A j \in Places(c) : j # i => ServedAt(d, D, j)
    BY WithoutCore
  <1>2. /\ c \in Clients /\ Core(u, c, D, last) /\ o \in Operations /\ i \in Places(c)
        /\ c.requests # <<>> /\ c.status \in {"established", "broken"}
        /\ c.requests[1].status \notin Waits
        /\ c.requests[i].id = o.id /\ c.requests[i].status = StatusFor(o.what)
        /\ (~IsWrite(o) => ~o.pending)
        /\ ~Pipelines(u) => ~(o.pending /\ c.num_sent # 0)
    BY HandlerFinds
  <1> HIDE DEF d, i
  <1> HAVE o.pending /\ c.num_sent # 0
  <1>3. IsWrite(o) /\ Pipelines(u) /\ Places(d) = Places(c)
    BY <1>1, <1>2 DEF Places
  <1>4. StatusFor(o.what) # "send_pending" /\ o.id \in 1 .. last
    BY <1>2, StatusesOfOps DEF Core, InOrder
  <1>5. DroppedShape(d, E, last)
    <2>1. E \subseteq 1 .. last
      BY <1>2, <1>4 DEF Core, DroppedShape
    <2>2. ASSUME NEW j \in Places(c), c.requests[j].id \in E PROVE c.requests[j].status # "send_pending"
      <3>1. CASE c.requests[j].id \in D
        BY <1>2, <3>1 DEF Core, DroppedShape
      <3>2. CASE c.requests[j].id = o.id
        <4>1. /\ c.requests[j].id \in Nat /\ c.requests[i].id \in Nat
              /\ j \in Nat /\ i \in Nat
          BY <1>2, ClientTypes DEF Places
        <4>2. j = i
          BY <1>2, <3>2, <4>1 DEF Core, InOrder
        <4> QED BY <1>2, <1>4, <4>2
      <3> QED BY <2>2, <3>1, <3>2
    <2>3. \A p \in d.ops : ~IsWrite(p)
      BY <1>1, <1>3
    <2> QED BY <1>1, <1>3, <2>1, <2>2, <2>3 DEF DroppedShape
  <1>6. Modes(u, d, E)
    BY <1>1, <1>3 DEF Core, Modes
  <1>7. Core(u, d, E, last)
    BY <1>1, <1>5, <1>6 DEF Core
  <1>8. \A j \in Places(d) : ServedAt(d, E, j)
    BY <1>1, <1>2, <1>3 DEF ServedAt
  <1>9. d.status \in {"established", "broken"} /\ d.requests[1].status \notin Waits
    BY <1>1, <1>2 DEF SameConnection
  <1> QED BY <1>7, <1>8, <1>9, GoodOn DEF d

LEMMA SendDataGood ==
  ASSUME NEW u, NEW c, NEW D, NEW last, NEW i \in Places(c), NEW pending \in BOOLEAN,
         Core(u, c, D, last), Sending(u, c, D, i, pending), c.requests[i].id \notin D,
         Position(c, pending) = i, ~Pipelines(u) => ~pending
  PROVE  Good(u, SendData(c, i, pending), D, last)
  <1> DEFINE d == SendData(c, i, pending)
  <1>1. /\ i \in Places(c) /\ pending \in BOOLEAN /\ c \in Clients
        /\ c.status \in {"established", "broken"} /\ c.requests[i].resp = "held"
        /\ c.requests[i].status \in Unsent
        /\ \A o \in c.ops : Position(c, o.pending) # i /\ (IsWrite(o) <=> "write_data" \notin WriteKinds)
        /\ \A j \in Places(c) : j # i => ServedAt(c, D, j)
    BY DEF Sending, Core, Unsent, WriteKinds
  <1>2. "write_data" \in Kinds /\ "write_data" \in WriteKinds
    BY DEF Kinds, WriteKinds
  <1>3. i # 1 => c.requests[1].status \notin Waits
    <2>1. i \in Nat /\ i >= 1
      BY <1>1 DEF Places
    <2> QED BY <2>1 DEF Sending
  <1>4. Begins(c, d, i, "write_data", pending)
    BY <1>1, SendBegins
  <1> HIDE DEF d
  <1>5. Good(u, d, D, last)
    <2> HIDE DEF Sending
    <2>0. /\ c.status \in {"established", "broken"} /\ c.requests[i].resp = "held"
          /\ \A o \in c.ops : Position(c, o.pending) # i /\ (IsWrite(o) <=> "write_data" \notin WriteKinds)
          /\ "write_data" \in Kinds
      BY <1>1, <1>2
    <2>1. /\ "write_data" \notin WriteKinds => ~pending
          /\ "write_data" \in WriteKinds => c.requests[i].id \notin D
          /\ "write_data" \in WriteKinds <=> c.requests[i].status \in Unsent
      BY <1>1, <1>2
    <2>2. /\ Core(u, d, D, last) /\ ServedAt(d, D, i)
          /\ \A j \in Places(c) : j # i /\ ServedAt(c, D, j) => ServedAt(d, D, j)
          /\ (\A j \in Places(c) : j # i => ServedAt(c, D, j)) /\ (i # 1 => c.requests[1].status \notin Waits)
               => Good(u, d, D, last)
      BY <1>4, <2>0, <2>1, BegunCore
    <2> QED BY <1>1, <1>3, <2>2
  <1> QED BY <1>5 DEF d

LEMMA HandlerGood ==
  ASSUME NEW u, NEW c, NEW D, NEW last, Good(u, c, D, last), NEW o \in c.ops, o.what # "connect",
         NEW ec \in ErrorCodes, NEW in, in.response \in Responses,
         in.redirect => ~Pipelines(u)
  PROVE  Good(u, HandleRequest(Without(c, o), o.pending, ec, in),
              IF ec # "ok" /\ o.pending /\ c.num_sent # 0 THEN D \cup {o.id} ELSE D, last)
  <1> DEFINE d == Without(c, o)
             i == Position(c, o.pending)
             pending == o.pending /\ c.num_sent # 0
             h == HandleRequest(d, o.pending, ec, in)
             s == StatusFor(o.what)
             fails == ec # "ok" /\ ~EndsBody(d, i, ec)
  <1>1. /\ c \in Clients /\ Core(u, c, D, last) /\ o \in Operations /\ i \in Places(c)
        /\ c.requests # <<>> /\ c.status \in {"established", "broken"}
        /\ c.requests[1].status \notin Waits
        /\ c.requests[i].id = o.id /\ c.requests[i].status = s
        /\ c.requests[i].resp = "held" /\ (IsWrite(o) => o.id \notin D)
        /\ pending \in BOOLEAN /\ (pending <=> i > 1) /\ (~pending => i = 1)
        /\ Position(c, pending) = i /\ (~IsWrite(o) => ~o.pending)
        /\ Pipelines(u) /\ IsWrite(o) => i = c.num_sent + 1
        /\ ~Pipelines(u) => ~pending
    BY HandlerFinds
  <1>2. /\ Core(u, d, D, last) /\ SameConnection(c, d) /\ d.requests = c.requests
        /\ d.num_sent = c.num_sent /\ d.ops = c.ops \ {o}
        /\ \A p \in BOOLEAN : Position(d, p) = Position(c, p)
        /\ \A p \in d.ops : Position(d, p.pending) # i /\ (IsWrite(p) <=> ~IsWrite(o))
        /\ \A j \in Places(c) : j # i => ServedAt(d, D, j)
    BY WithoutCore
  <1>3. o.pending \in BOOLEAN /\ Position(d, o.pending) = i /\ Position(d, pending) = i
        /\ d.requests[i].status = s /\ (d.num_sent # 0 <=> c.num_sent # 0)
    BY <1>1, <1>2 DEF Operations
  <1>4. /\ fails => h = Failed(d, i, pending)
        /\ ~fails =>
             /\ s = "sending_req_head" => h = IF in.data THEN SendData(d, i, pending) ELSE Sent(d, i, pending)
             /\ s = "sending_req_data" => h = Sent(d, i, pending)
             /\ s = "recving_resp_head" =>
                  h = IF in.redirect THEN Redirected(d) ELSE ReceivedHead(d, in.response)
             /\ s = "recving_resp_data" => h = Fetched(d)
    <2> HIDE DEF d, h, s
    <2>1. LET k == Position(d, o.pending)
              p == o.pending /\ d.num_sent # 0
              t == d.requests[k].status
              g == HandleRequest(d, o.pending, ec, in)
          IN  /\ ec # "ok" /\ ~EndsBody(d, k, ec) => g = Failed(d, k, p)
              /\ ec = "ok" \/ EndsBody(d, k, ec) =>
                   /\ t = "sending_req_head" => g = IF in.data THEN SendData(d, k, p) ELSE Sent(d, k, p)
                   /\ t = "sending_req_data" => g = Sent(d, k, p)
                   /\ t = "recving_resp_head" =>
                        g = IF in.redirect THEN Redirected(d) ELSE ReceivedHead(d, in.response)
                   /\ t = "recving_resp_data" => g = Fetched(d)
      BY <1>3, HandledCases
    <2> QED BY <1>2, <1>3, <2>1 DEF h
  <1>5. /\ s \in Busy
        /\ IsWrite(o) <=> s \in {"sending_req_head", "sending_req_data"}
        /\ "sending_req_head" \in Unsent /\ "sending_req_data" \in Unsent
        /\ "recving_resp_head" \notin Unsent /\ "recving_resp_data" \notin Unsent
    BY <1>1, StatusesOfOps DEF Unsent
  <1>6. /\ d \in Clients /\ d.requests # <<>> /\ d.status \in {"established", "broken"}
        /\ i \in Places(d) /\ Places(d) = Places(c) /\ d.requests[i].resp = "held"
        /\ d.requests[1].status \notin Waits /\ d.requests[i].id = o.id
        /\ \A j \in Places(d) : j # i => ServedAt(d, D, j)
    BY <1>1, <1>2 DEF Core, SameConnection, Places
  <1>7. EndsBody(d, i, ec) => s = "recving_resp_data"
    BY <1>3 DEF EndsBody
  <1> DEFINE E == IF ec # "ok" /\ o.pending /\ c.num_sent # 0 THEN D \cup {o.id} ELSE D
  <1>8. CASE pending /\ ec # "ok"
    <2>1. IsWrite(o) /\ fails
      BY <1>1, <1>5, <1>7, <1>8
    <2>2. h = d
      BY <1>4, <1>8, <2>1 DEF Failed
    <2>3. Good(u, d, D \cup {o.id}, last)
      BY <1>8, DroppedGood
    <2>4. E = D \cup {o.id}
      BY <1>8
    <2> QED BY <2>2, <2>3, <2>4
  <1>9. CASE ~(pending /\ ec # "ok")
    <2>1. E = D
      BY <1>9
    <2> HIDE DEF d, h, E, i, pending, s
    <2>2. CASE fails
      <3>1. ~pending /\ i = 1 /\ h = Failed(d, 1, FALSE)
        BY <1>1, <1>4, <1>9, <2>2
      <3>2. FrontEnds(d, h, "finished")
        BY <1>6, <3>1, FailedEnds
      <3>3. Good(u, h, D, last)
        <4>1. /\ d.requests[1].resp = "held" /\ "finished" \in Answered1
              /\ \A p \in d.ops : Position(d, p.pending) # 1
              /\ \A j \in Places(d) : j > 1 => ServedAt(d, D, j)
          BY <1>2, <1>6, <3>1 DEF Answered1
        <4> QED BY <1>2, <1>6, <3>2, <4>1, AnsweredGood
      <3> QED BY <2>1, <3>3 DEF h, E, i, pending, d
    <2>3. CASE ~fails /\ IsWrite(o)
      <3>0. Sending(u, d, D, i, pending)
        BY <1>1, <1>2, <1>3, <1>5, <1>6, <2>3 DEF Sending
      <3>1. h = SendData(d, i, pending) \/ h = Sent(d, i, pending)
        BY <1>4, <1>5, <2>3
      <3>2. ASSUME h = SendData(d, i, pending) PROVE Good(u, h, D, last)
        <4>1. d.requests[i].id \notin D /\ Position(d, pending) = i /\ (~Pipelines(u) => ~pending)
          BY <1>1, <1>3, <1>6, <2>3
        <4>2. i \in Places(d) /\ pending \in BOOLEAN
          BY <1>1, <1>6
        <4> QED BY <1>2, <3>0, <3>2, <4>1, <4>2, SendDataGood
      <3>3. ASSUME h = Sent(d, i, pending) PROVE Good(u, h, D, last)
        BY <1>2, <3>0, <3>3, SentGood
      <3>4. Good(u, h, D, last)
        BY <3>1, <3>2, <3>3
      <3> QED BY <2>1, <3>4 DEF h, E, i, pending, d
    <2>4. CASE ~fails /\ ~IsWrite(o)
      <3>1. i = 1 /\ s \in {"recving_resp_head", "recving_resp_data"} /\ s \notin Unsent
        <4>1. s # "recv_pending" /\ i = 1
          BY <1>1, <1>5, <2>4 DEF Busy, pending
        <4> QED BY <1>5, <2>4, <4>1 DEF Busy
      <3>2. d.requests[1].resp = "held" /\ d.requests[1].status \notin Unsent
        BY <1>3, <1>6, <3>1
      <3>3. ASSUME FrontEnds(d, h, "finished") \/ FrontEnds(d, h, "opened") PROVE Good(u, h, D, last)
        BY <1>2, <1>6, <3>1, <3>2, <3>3, AnsweredGood DEF Answered1
      <3>4. ASSUME h = Fetched(d) PROVE Good(u, h, D, last)
        <4>1. FrontEnds(d, h, "finished")
          BY <1>6, <3>2, <3>4, FetchedEnds
        <4> QED BY <3>3, <4>1
      <3>5. ASSUME h = Redirected(d), in.redirect PROVE Good(u, h, D, last)
        <4>1. ~Pipelines(u)
          BY <3>5
        <4>2. d.ops = {}
          BY <1>2, <3>1, <4>1 DEF Core, Modes, Position
        <4> QED BY <1>2, <1>6, <3>2, <3>5, <4>1, <4>2, RedirectedGood
      <3>6. ASSUME h = ReceivedHead(d, in.response) PROVE Good(u, h, D, last)
        <4> DEFINE b == Issue(Taken(d, in.response, "recving_resp_data"), "read_data", FALSE, 1)
        <4>1. \/ FrontEnds(d, h, "opened") \/ FrontEnds(d, h, "finished") \/ h = b
          BY <1>6, <3>2, <3>6, ReceivedHeadEnds
        <4>2. CASE h = b
          <5>1. Begins(d, h, 1, "read_data", FALSE)
            BY <1>6, <4>2, ReceiveBegins
          <5>2. "read_data" \in Kinds /\ "read_data" \notin WriteKinds /\ 1 \in Places(d) /\ Position(d, FALSE) = 1
            BY <1>6, <3>1 DEF Kinds, WriteKinds, Position
          <5>3. \A p \in d.ops : Position(d, p.pending) # 1 /\ (IsWrite(p) <=> "read_data" \notin WriteKinds)
            BY <1>2, <2>4, <3>1, <5>2
          <5>4. \A j \in Places(d) : j # 1 => ServedAt(d, D, j)
            BY <1>6, <3>1
          <5> QED BY <1>2, <1>6, <3>2, <5>1, <5>2, <5>3, <5>4, BegunCore
        <4> QED BY <3>3, <4>1, <4>2
      <3>7. Good(u, h, D, last)
        BY <1>4, <2>4, <3>1, <3>4, <3>5, <3>6
      <3> QED BY <2>1, <3>7 DEF h, E, i, pending, d
    <2> QED BY <2>2, <2>3, <2>4
  <1> QED BY <1>8, <1>9
-----------------------------------------------------------------------------
(* The io_service: a callback is called, an operation completes.            *)

LEMMA CallBackGood ==
  ASSUME NEW u, NEW c, NEW D, NEW last, Good(u, c, D, last), NEW i \in Places(c),
         c.requests[i].resp = "posted"
  PROVE  Good(u, [c EXCEPT !.requests[i].resp = "called"], D, last)
  <1> DEFINE d == Change(c, i, c.requests[i].status, "called")
  <1>0. /\ c \in Clients /\ Core(u, c, D, last) /\ c.requests[i] \in Requests
        /\ c.requests[i].status \in RequestStatus /\ "called" \in Callbacks
        /\ Len(c.requests) \in Nat /\ i \in Nat /\ i >= 1
    BY ClientTypes DEF Good, Core, Callbacks, Places
  <1>1. /\ d \in Clients /\ SameConnection(c, d) /\ Marked(c, d, i, c.requests[i].status, "called")
        /\ d.num_sent = c.num_sent /\ d.ops = c.ops
    BY <1>0, RequestChanged
  <1>2. [c EXCEPT !.requests[i].resp = "called"] = d
    <2>1. [c.requests[i] EXCEPT !.status = c.requests[i].status, !.resp = "called"]
            = [c.requests[i] EXCEPT !.resp = "called"]
      BY <1>0 DEF Requests
    <2> QED BY <2>1 DEF Change
  <1> HIDE DEF d
  <1>3. /\ Places(d) = Places(c) /\ Len(d.requests) = Len(c.requests)
        /\ \A j \in Places(c) : d.requests[j].status = c.requests[j].status
                                /\ d.requests[j].id = c.requests[j].id
                                /\ (j # i => d.requests[j].resp = c.requests[j].resp)
        /\ d.requests[i].resp = "called"
    BY <1>1 DEF Marked, Places
  <1>4. i = 1
    BY <1>0 DEF Core, FrontAnswered
  <1>5. 1 \in Places(c) /\ c.requests # <<>> /\ d.requests # <<>>
        /\ d.requests[1].status = c.requests[1].status
        /\ d.requests[1].is_fetch = c.requests[1].is_fetch
    <2>1. Len(c.requests) # 0 /\ 1 \in Places(c)
      BY <1>0, <1>4 DEF Places
    <2> QED BY <1>0, <1>1, <1>3, <2>1, ClientTypes DEF Marked
  <1>6. InOrder(d, last) /\ FrontCounted(d)
    BY <1>0, <1>1, <1>3, <1>5 DEF Core, InOrder, FrontCounted
  <1>7. FrontAnswered(d)
    BY <1>0, <1>3, <1>4, <1>5 DEF Core, FrontAnswered
  <1>8. OneOfAKind(d) /\ DroppedShape(d, D, last)
    BY <1>0, <1>1, <1>3 DEF Core, OneOfAKind, DroppedShape
  <1>9. ASSUME NEW o \in d.ops PROVE OpMatches(d, o)
    BY <1>0, <1>1, <1>3 DEF Core, OpMatches, Position, SameConnection
  <1>10. Modes(u, d, D)
    <2>1. Line(c) => Line(d)
      BY <1>1, <1>3 DEF Line
    <2>2. ReusesFetch(d) => ReusesFetch(c)
      BY <1>3, <1>5, FrontIsFirst DEF ReusesFetch
    <2> QED BY <1>0, <1>1, <1>3, <2>1, <2>2 DEF Core, Modes, SameConnection
  <1>11. Core(u, d, D, last)
    BY <1>0, <1>1, <1>6, <1>7, <1>8, <1>9, <1>10 DEF Core, SameConnection
  <1>12. Going(d)
    BY <1>1, <1>5 DEF Good, Going, SameConnection
  <1>13. \A j \in Places(d) : ServedAt(d, D, j)
    BY <1>1, <1>3 DEF Good, ServedAt
  <1> QED BY <1>2, <1>11, <1>12, <1>13 DEF Good

LEMMA CompleteGood ==
  ASSUME NEW u, NEW c, NEW D, NEW last, Good(u, c, D, last), NEW o \in c.ops, NEW r \in ErrorCodes
  PROVE  Good(u, [c EXCEPT !.ops = (@ \ {o}) \cup {[o EXCEPT !.result = r]}], D, last)
  <1> DEFINE q == [o EXCEPT !.result = r]
             d == [c EXCEPT !.ops = (c.ops \ {o}) \cup {q}]
  <1>0. c \in Clients /\ Core(u, c, D, last) /\ c.ops \subseteq Operations
    BY ClientTypes DEF Good, Core
  <1>1. q \in Operations /\ q.what = o.what /\ q.pending = o.pending /\ q.id = o.id
    BY <1>0 DEF Operations
  <1>2. (IsWrite(q) <=> IsWrite(o))
    BY <1>1 DEF IsWrite
  <1> HIDE DEF q
  <1>3. /\ d \in Clients /\ SameConnection(c, d) /\ d.requests = c.requests
        /\ d.num_sent = c.num_sent /\ d.ops = (c.ops \ {o}) \cup {q}
    BY <1>0, <1>1 DEF Clients, SameConnection
  <1> HIDE DEF d
  <1>4. Places(d) = Places(c) /\ \A p : Position(d, p) = Position(c, p)
    BY <1>3 DEF Places, Position
  <1>5. InOrder(d, last) /\ FrontAnswered(d) /\ FrontCounted(d)
    BY <1>0, <1>3, <1>4 DEF Core, InOrder, FrontAnswered, FrontCounted
  <1>6. OneOfAKind(d)
    <2> SUFFICES ASSUME NEW x \in d.ops, NEW y \in d.ops, IsWrite(x) <=> IsWrite(y) PROVE x = y
      BY DEF OneOfAKind
    <2> QED BY <1>0, <1>2, <1>3 DEF Core, OneOfAKind
  <1>7. DroppedShape(d, D, last)
    BY <1>0, <1>1, <1>2, <1>3, <1>4 DEF Core, DroppedShape
  <1>8. ASSUME NEW p \in d.ops PROVE OpMatches(d, p)
    <2>1. CASE p = q
      <3>1. OpMatches(c, o)
        BY <1>0 DEF Core
      <3> QED BY <1>1, <1>2, <1>3, <1>4, <2>1, <3>1 DEF OpMatches, SameConnection
    <2>2. CASE p # q
      <3>1. OpMatches(c, p)
        BY <1>0, <1>3, <2>2 DEF Core
      <3> QED BY <1>3, <1>4, <3>1 DEF OpMatches, SameConnection
    <2> QED BY <2>1, <2>2
  <1>9. Modes(u, d, D)
    <2>1. Line(c) => Line(d)
      BY <1>3, <1>4 DEF Line
    <2>2. ReusesFetch(d) <=> ReusesFetch(c)
      BY <1>3 DEF ReusesFetch, Front
    <2>3. ~Pipelines(u) => \A p \in d.ops : ~p.pending
      BY <1>0, <1>1, <1>3 DEF Core, Modes
    <2> QED BY <1>0, <1>3, <2>1, <2>2, <2>3 DEF Core, Modes, SameConnection
  <1>10. Core(u, d, D, last)
    BY <1>0, <1>3, <1>5, <1>6, <1>7, <1>8, <1>9 DEF Core, SameConnection
  <1>11. Going(d)
    BY <1>3 DEF Good, Going, SameConnection
  <1>12. \A j \in Places(d) : ServedAt(d, D, j)
    BY <1>1, <1>3, <1>4 DEF Good, ServedAt
  <1> QED BY <1>10, <1>11, <1>12 DEF Good, d, q
-----------------------------------------------------------------------------
(* The invariant holds at first and every step keeps it.                    *)

\* Users close a request after its callback; they pipeline, or have one request
\* at a time.
InUse == EarlyClose = FALSE /\ \A u \in Users : Orderly(u)

LEMMA InitGood ==
  ASSUME InUse, Init
  PROVE  IInv
  <1>1. user \in Uses /\ Orderly(user) /\ MaxPosts \in Nat /\ user.redirects \in Nat
    BY HttpClientAssumption DEF InUse, Init, Uses
  <1>2. /\ client \in Clients /\ client.requests = <<>> /\ client.ops = {} /\ client.num_sent = 0
        /\ client.status = "closed" /\ client.is_keep_alive = FALSE
    <2>1. NewClient \in Clients
      <3>1. <<>> \in Seq(Requests) /\ [framing |-> "none", keep |-> FALSE] \in Responses
        BY DEF Responses, Framings
      <3> QED BY <3>1 DEF NewClient, Clients, ConnectionStatus
    <2> QED BY <2>1 DEF Init, NewClient
  <1>3. Places(client) = {} /\ Len(client.requests) = 0
    BY <1>2 DEF Places
  <1>4. InOrder(client, 0) /\ FrontAnswered(client) /\ FrontCounted(client) /\ OneOfAKind(client)
    BY <1>2, <1>3 DEF InOrder, FrontAnswered, FrontCounted, OneOfAKind
  <1>5. DroppedShape(client, {}, 0) /\ Modes(user, client, {})
    BY <1>2, <1>3 DEF DroppedShape, Modes, Line, ReusesFetch
  <1>6. Core(user, client, {}, 0)
    BY <1>2, <1>4, <1>5 DEF Core
  <1>7. Going(client) /\ \A i \in Places(client) : ServedAt(client, {}, i)
    BY <1>2, <1>3 DEF Going, Established
  <1>8. Good(user, client, dropped, req_id)
    BY <1>6, <1>7 DEF Good, Init
  <1> QED BY <1>1, <1>8 DEF IInv, Init

\* Posting, to a client that is good for it.
LEMMA PostKeeps ==
  ASSUME IInv, NEW c, NEW is_fetch \in BOOLEAN, Good(user, c, dropped, req_id),
         ReusesFetch(c) => user.reuses,
         ~ReusesFetch(c) => Len(c.requests) < user.queue \/ c.requests = <<>>,
         Post(c, is_fetch)
  PROVE  IInv'
  <1>1. /\ user \in Uses /\ Orderly(user) /\ req_id \in Nat /\ req_id < MaxPosts
        /\ req_id' = req_id + 1 /\ ~Rejected(c) /\ req_id' \in 0 .. MaxPosts
        /\ user' = user /\ redirected' = redirected /\ dropped' = dropped
    BY HttpClientAssumption DEF IInv, Post
  <1>2. PICK keep \in user.keep_alives :
          client' = AsyncResume(PostRequest(c, req_id + 1, is_fetch, keep))
    BY <1>1 DEF Post
  <1>3. Good(user, client', dropped, req_id + 1)
    BY <1>1, <1>2, PostGood
  <1> QED BY <1>1, <1>3 DEF IInv

\* A step that leaves all but the client, and what was dropped or redirected.
LEMMA ClientKeeps ==
  ASSUME IInv, UNCHANGED <<user, req_id>>, redirected' \in 0 .. user.redirects,
         Good(user, client', dropped', req_id)
  PROVE  IInv'
  BY DEF IInv

LEMMA FrontCalled ==
  ASSUME IInv, client.requests # <<>>, client.requests[1].resp = "called"
  PROVE  client.requests[1].status \in Answered1
  BY DEF IInv, Good, Core, FrontAnswered

LEMMA NextKeeps ==
  ASSUME InUse, IInv, [Next]_vars
  PROVE  IInv'
  <1>0. /\ user \in Uses /\ Good(user, client, dropped, req_id) /\ redirected \in 0 .. user.redirects
        /\ client \in Clients /\ client.ops \subseteq Operations /\ Len(client.requests) \in Nat
        /\ client.requests = <<>> <=> Len(client.requests) = 0
        /\ Core(user, client, dropped, req_id)
    BY ClientTypes DEF IInv, Good, Core
  <1>1. ASSUME AsyncOpen \/ AsyncFetch PROVE IInv'
    <2>1. ReusesFetch(client) => user.reuses
      BY <1>1 DEF AsyncOpen, AsyncFetch, Room
    <2>2. ~ReusesFetch(client) => Len(client.requests) < user.queue \/ client.requests = <<>>
      BY <1>1 DEF AsyncOpen, AsyncFetch, Room
    <2>3. PICK is_fetch \in BOOLEAN : Post(client, is_fetch)
      BY <1>1 DEF AsyncOpen, AsyncFetch
    <2> QED BY <1>0, <2>1, <2>2, <2>3, PostKeeps
  <1>2. ASSUME Again PROVE IInv'
    <2> DEFINE c == Closed(PopFront(client))
    <2>1. Len(client.requests) = 1 /\ client.requests # <<>> /\ client.requests[1].resp = "called"
      <3>1. Len(client.requests) = 1 /\ client.requests # <<>>
        BY <1>0, <1>2 DEF Again
      <3> QED BY <1>2, <3>1, FrontIsFirst DEF Again, MayClose, InUse
    <2>2. client.requests[1].status \in Answered1
      BY <2>1, FrontCalled
    <2>3. Good(user, c, dropped, req_id) /\ c.requests = <<>>
      BY <1>0, <2>1, <2>2, HandleNextGood
    <2>4. Front(client).is_fetch \in BOOLEAN
      <3>1. client.requests[1].is_fetch \in BOOLEAN
        BY <1>0, <2>1, ClientTypes DEF Places
      <3> QED BY <2>1, <3>1, FrontIsFirst
    <2>5. Post(c, Front(client).is_fetch)
      BY <1>2 DEF Again
    <2> HIDE DEF c
    <2>6. ~ReusesFetch(c)
      BY <2>3 DEF ReusesFetch
    <2> QED BY <2>3, <2>4, <2>5, <2>6, PostKeeps
  <1>3. ASSUME CallBack PROVE IInv'
    <2>1. PICK i \in DOMAIN client.requests :
            /\ client.requests[i].resp = "posted"
            /\ client' = [client EXCEPT !.requests[i].resp = "called"]
      BY <1>3 DEF CallBack
    <2>2. i \in Places(client)
      BY <1>0, <2>1, ClientTypes DEF Places
    <2>3. Good(user, client', dropped, req_id)
      BY <1>0, <2>1, <2>2, CallBackGood
    <2> QED BY <1>0, <1>3, <2>3, ClientKeeps DEF CallBack
  <1>4. ASSUME Close PROVE IInv'
    <2>1. CASE client.requests = <<>>
      <3>1. client' = Closed(client)
        BY <1>0, <1>4, <2>1 DEF Close
      <3>2. Good(user, client', dropped, req_id)
        BY <1>0, <2>1, <3>1, ClosedGood
      <3> QED BY <1>0, <1>4, <3>2, ClientKeeps DEF Close
    <2>2. CASE client.requests # <<>>
      <3>1. client.requests[1].resp = "called"
        BY <1>4, <2>2, FrontIsFirst DEF Close, MayClose, InUse
      <3>2. client.requests[1].status \in Answered1
        BY <2>2, <3>1, FrontCalled
      <3>3. /\ Good(user, HandleNext(client), dropped, req_id)
            /\ Len(client.requests) = 1 => Good(user, Closed(PopFront(client)), dropped, req_id)
        BY <1>0, <2>2, <3>2, HandleNextGood
      <3>4. client' = (IF Len(client.requests) > 1 THEN HandleNext(client) ELSE Closed(PopFront(client)))
        BY <1>4, <2>2 DEF Close
      <3>5. ~(Len(client.requests) > 1) => Len(client.requests) = 1
        <4> DEFINE n == Len(client.requests)
        <4>1. n \in Nat /\ n # 0
          BY <1>0, <2>2
        <4> HIDE DEF n
        <4>2. ~(n > 1) => n = 1
          BY <4>1
        <4> QED BY <4>2 DEF n
      <3>6. Good(user, client', dropped, req_id)
        BY <3>3, <3>4, <3>5
      <3> QED BY <1>0, <1>4, <3>6, ClientKeeps DEF Close
    <2> QED BY <2>1, <2>2
  <1>5. ASSUME ReadFinish PROVE IInv'
    <2>1. client.requests # <<>> /\ client.requests[1].status = "opened" /\ client' = HandleNext(client)
      BY <1>5, FrontIsFirst DEF ReadFinish
    <2>2. Good(user, client', dropped, req_id)
      BY <1>0, <2>1, HandleNextGood DEF Answered1
    <2> QED BY <1>0, <1>5, <2>2, ClientKeeps DEF ReadFinish
  <1>6. ASSUME Complete PROVE IInv'
    <2>1. PICK o \in client.ops, r \in ErrorCodes :
            client' = [client EXCEPT !.ops = (@ \ {o}) \cup {[o EXCEPT !.result = r]}]
      BY <1>6 DEF Complete, Results, ErrorCodes
    <2>2. Good(user, client', dropped, req_id)
      BY <1>0, <2>1, CompleteGood
    <2> QED BY <1>0, <1>6, <2>2, ClientKeeps DEF Complete
  <1>7. ASSUME ConnectHandler PROVE IInv'
    <2>1. PICK o \in client.ops :
            /\ o.result # "pending" /\ o.what = "connect"
            /\ client' = HandleConnect(Without(client, o), o.result)
      BY <1>7 DEF ConnectHandler, Runs, Without
    <2>2. CASE o.result \in {"ok", "error"}
      <3>1. Good(user, client', dropped, req_id)
        BY <1>0, <2>1, <2>2, ConnectGood
      <3> QED BY <1>0, <1>7, <3>1, ClientKeeps DEF ConnectHandler
    <2>3. CASE o.result = "eof"
      <3>1. HandleConnect(Without(client, o), o.result) = HandleConnect(Without(client, o), "error")
        BY <2>3 DEF HandleConnect
      <3>2. Good(user, client', dropped, req_id)
        BY <1>0, <2>1, <3>1, ConnectGood
      <3> QED BY <1>0, <1>7, <3>2, ClientKeeps DEF ConnectHandler
    <2>4. o.result \in {"ok", "error", "eof"}
      BY <1>0, <2>1 DEF Operations, ErrorCodes
    <2> QED BY <2>2, <2>3, <2>4
  <1>8. ASSUME RequestHandler PROVE IInv'
    <2>0. PICK o \in client.ops : \E in \in Inputs(o) :
            /\ o.result # "pending" /\ o.what # "connect"
            /\ client' = HandleRequest(Without(client, o), o.pending, o.result, in)
            /\ redirected' = (IF in.redirect /\ o.result = "ok" THEN redirected + 1 ELSE redirected)
            /\ dropped' = (IF o.result # "ok" /\ o.pending /\ client.num_sent # 0
                             THEN dropped \cup {o.id} ELSE dropped)
            /\ UNCHANGED <<user, req_id>>
      BY <1>8 DEF RequestHandler, Runs, Without
    <2>1. PICK in \in Inputs(o) :
            /\ o.result # "pending" /\ o.what # "connect"
            /\ client' = HandleRequest(Without(client, o), o.pending, o.result, in)
            /\ redirected' = (IF in.redirect /\ o.result = "ok" THEN redirected + 1 ELSE redirected)
            /\ dropped' = (IF o.result # "ok" /\ o.pending /\ client.num_sent # 0
                             THEN dropped \cup {o.id} ELSE dropped)
            /\ UNCHANGED <<user, req_id>>
      BY <2>0
    <2>2. o.result \in ErrorCodes
      BY <1>0, <2>1 DEF Operations
    <2>3. in.response \in Responses /\ (in.redirect => MayRedirect)
      <3>1. NoInput.response \in Responses /\ in \in Inputs(o)
        BY <2>1 DEF NoInput, Responses, Framings
      <3>2. in.response \in Responses
        BY <3>1 DEF Inputs
      <3>3. in.redirect => MayRedirect
        BY <3>1 DEF Inputs
      <3> QED BY <3>2, <3>3
    <2>4. user.redirects \in Nat /\ redirected \in Nat
      BY <1>0 DEF Uses
    <2>5. in.redirect => ~Pipelines(user) /\ redirected + 1 \in 0 .. user.redirects
      BY <2>3, <2>4 DEF MayRedirect, Pipelines
    <2>6. Good(user, client', dropped', req_id)
      BY <1>0, <2>1, <2>2, <2>3, <2>5, HandlerGood
    <2>7. redirected' \in 0 .. user.redirects
      BY <1>0, <2>1, <2>5
    <2> QED BY <2>1, <2>6, <2>7, ClientKeeps
  <1>9. ASSUME UNCHANGED vars PROVE IInv'
    BY <1>9 DEF vars, IInv
  <1> QED BY <1>1, <1>2, <1>3, <1>4, <1>5, <1>6, <1>7, <1>8, <1>9 DEF Next

-----------------------------------------------------------------------------
(* What the invariant says.                                                 *)

\* An operation that is under way for the request at i is the only one.
LEMMA OneOperation ==
  ASSUME NEW u, NEW c, NEW D, NEW last, Core(u, c, D, last), NEW o \in c.ops, NEW p \in c.ops, o.id = p.id
  PROVE  o = p
  <1>1. c \in Clients /\ c.ops \subseteq Operations /\ OpMatches(c, o) /\ OpMatches(c, p)
    BY ClientTypes DEF Core
  <1> DEFINE i == Position(c, o.pending)
             j == Position(c, p.pending)
  <1>2. /\ i \in Places(c) /\ j \in Places(c) /\ c.requests[i].id = c.requests[j].id
        /\ c.requests[i].status = StatusFor(o.what) /\ c.requests[j].status = StatusFor(p.what)
    BY <1>1 DEF OpMatches
  <1>3. i \in Nat /\ j \in Nat /\ c.requests[i].id \in Nat /\ c.requests[j].id \in Nat
    BY <1>1, <1>2, ClientTypes DEF Places
  <1> HIDE DEF i, j
  <1>4. i = j
    BY <1>2, <1>3 DEF Core, InOrder
  <1>5. o.what = p.what
    BY <1>1, <1>2, <1>4, SameWhat
  <1> QED BY <1>5 DEF Core, OneOfAKind, IsWrite

LEMMA IInvExclusive ==
  ASSUME IInv
  PROVE  BuffersAreExclusive
  <1>0. Core(user, client, dropped, req_id) /\ client \in Clients /\ client.ops \subseteq Operations
    BY ClientTypes DEF IInv, Good, Core
  <1>1. \A o \in Writes : o \in client.ops /\ IsWrite(o)
    BY DEF Writes, IsWrite, WriteKinds
  <1>2. \A o \in Reads : o \in client.ops /\ ~IsWrite(o) /\ o.what # "connect"
    BY DEF Reads, IsWrite, WriteKinds
  <1>3. ASSUME NEW o \in Reads PROVE o.id = Front(client).id /\ Front(client).status # "opened"
    <2>1. /\ Position(client, o.pending) = 1 /\ 1 \in Places(client)
          /\ client.requests[1].id = o.id /\ client.requests[1].status = StatusFor(o.what)
      BY <1>0, <1>2 DEF Core, OpMatches, Position
    <2>2. client.requests # <<>>
      <3>1. Len(client.requests) # 0
        BY <1>0, <2>1 DEF Places
      <3> QED BY <1>0, <3>1, ClientTypes
    <2>3. StatusFor(o.what) # "opened"
      BY <1>0, <1>2, StatusesOfOps DEF Busy
    <2> QED BY <2>1, <2>2, <2>3, FrontIsFirst
  <1> QED BY <1>0, <1>1, <1>2, <1>3 DEF BuffersAreExclusive, Core, OneOfAKind

LEMMA IInvAsserts ==
  ASSUME IInv
  PROVE  AssertsHold
  <1>0. /\ Core(user, client, dropped, req_id) /\ client \in Clients /\ Len(client.requests) \in Nat
        /\ client.num_sent \in Nat
    BY ClientTypes DEF IInv, Good, Core
  <1>1. \A o \in client.ops : o.what = "connect" => client.status = "connectting"
    BY <1>0 DEF Core, OpMatches
  <1>2. ASSUME NEW i \in client.num_sent + 2 .. Len(client.requests)
        PROVE  client.requests[i].status = "send_pending"
    <2>1. i \in Places(client) /\ i > client.num_sent + 1 /\ Len(client.requests) > 1
      BY <1>0 DEF Places
    <2>2. Line(client)
      BY <1>0, <2>1 DEF Core, Modes
    <2> QED BY <2>1, <2>2 DEF Line
  <1>3. user.reuses /\ ReusesFetch(client) => client.status \in {"closed", "broken"}
    BY <1>0 DEF Core, Modes
  <1> QED BY <1>1, <1>2, <1>3 DEF AssertsHold

LEMMA IInvInTurn ==
  ASSUME IInv
  PROVE  ServedInTurn
  <1>0. /\ Core(user, client, dropped, req_id) /\ client \in Clients /\ Len(client.requests) \in Nat
        /\ client.num_sent \in Nat /\ client.ops \subseteq Operations /\ Going(client)
        /\ client.status \in ConnectionStatus /\ DOMAIN client.requests = Places(client)
        /\ \A i \in Places(client) : ServedAt(client, dropped, i)
    BY ClientTypes DEF IInv, Good, Core, Places
  <1>1. TypeOK
    <2>1. dropped \subseteq 1 .. MaxPosts
      BY <1>0, HttpClientAssumption DEF IInv, Core, DroppedShape
    <2> QED BY <1>0, <2>1 DEF IInv, TypeOK
  <1>2. HandlersFindTheirRequest
    BY <1>0 DEF Core, OpMatches, HandlersFindTheirRequest, InQueue, Places
  <1>3. OneAnswer
    <2> SUFFICES ASSUME NEW i \in Places(client) PROVE client.requests[i].resp # "twice"
      BY <1>0 DEF OneAnswer
    <2>1. i \in Nat /\ i >= 1 /\ client.requests # <<>>
      BY <1>0, ClientTypes DEF Places
    <2>2. CASE i = 1
      BY <1>0, <2>1, <2>2 DEF Core, FrontAnswered
    <2>3. CASE i > 1
      BY <1>0, <2>3 DEF Core, FrontAnswered
    <2> QED BY <2>1, <2>2, <2>3
  <1>4. FrontIsServed
    <2> SUFFICES ASSUME client.requests # <<>>, client.requests[1].resp = "held",
                        client.requests[1].id \notin dropped
                 PROVE  \E o \in client.ops : o.id = client.requests[1].id
      <3>1. ASSUME NEW o \in client.ops, o.id = Front(client).id
            PROVE  \A p \in client.ops : p.id = Front(client).id <=> p = o
        BY <1>0, <3>1, OneOperation
      <3> QED BY <3>1, FrontIsFirst DEF FrontIsServed
    <2>1. 1 \in Places(client) /\ client.requests[1].status \in RequestStatus
      <3>1. 1 \in Places(client)
        BY <1>0, ClientTypes DEF Places
      <3> QED BY <1>0, <3>1, ClientTypes
    <2>2. client.requests[1].status \notin Answered1
      BY <1>0 DEF Core, FrontAnswered
    <2>3. CASE client.requests[1].status \in Busy
      BY <1>0, <2>1, <2>3 DEF ServedAt
    <2>4. CASE client.requests[1].status \in Waits
      <3>1. client.status = "connectting"
        BY <1>0, <2>4 DEF Going, ConnectionStatus, Established
      <3>2. PICK o \in client.ops : TRUE
        BY <1>0, <3>1 DEF Going
      <3>3. o.what = "connect" /\ OpMatches(client, o)
        BY <1>0, <3>1 DEF Core, OpMatches
      <3>4. o.id = client.requests[1].id
        BY <3>3 DEF OpMatches, Position, IsWrite, WriteKinds
      <3> QED BY <3>4
    <2> QED BY <2>1, <2>2, <2>3, <2>4 DEF RequestStatus, Busy, Waits, Answered1
  <1>5. NumSentCounts
    <2> SUFFICES ASSUME Pipelines(user)
                 PROVE  {i \in Places(client) : client.requests[i].status \in Unsent}
                          = client.num_sent + 1 .. Len(client.requests)
      BY <1>0 DEF NumSentCounts, Pipelines
    <2>1. Line(client)
      BY <1>0 DEF Core, Modes
    <2>2. ASSUME NEW i PROVE i \in client.num_sent + 1 .. Len(client.requests)
                              <=> i \in Places(client) /\ i > client.num_sent
      BY <1>0 DEF Places
    <2>3. \A i \in Places(client) : i > client.num_sent \/ i <= client.num_sent
      BY <1>0 DEF Places
    <2> QED BY <2>1, <2>2, <2>3 DEF Line
  <1> QED BY <1>1, <1>2, <1>3, <1>4, <1>5 DEF ServedInTurn

\* The inductive invariant holds in every state.
LEMMA AlwaysIInv == InUse => (Spec => []IInv)
  <1> SUFFICES ASSUME InUse PROVE Spec => []IInv
    OBVIOUS
  <1>1. Init => IInv
    BY InitGood
  <1>2. IInv /\ [Next]_vars => IInv'
    BY NextKeeps
  <1> QED BY <1>1, <1>2, PTL DEF Spec

-----------------------------------------------------------------------------
(* The theorems.                                                            *)

\* Two handlers never have the use of one stream: at most one write and one read
\* are under way, the read is for the request at the front, which is not with the
\* user (async_open, async_fetch, handle_async in HttpClient.cpp, which start an
\* operation where they leave the queue, and again where a handler returns to it).
THEOREM ClientExclusive == InUse => (Spec => []BuffersAreExclusive)
  <1> SUFFICES ASSUME InUse PROVE Spec => []BuffersAreExclusive
    OBVIOUS
  <1>1. Spec => []IInv
    BY AlwaysIInv
  <1>2. IInv => BuffersAreExclusive
    BY IInvExclusive
  <1> QED BY <1>1, <1>2, PTL

\* What handle_async asserts: a connection is being made while its handler is
\* waited for, the requests behind the one being sent are send_pending, and a
\* fetched request without keep-alive leaves no connection in use.
THEOREM ClientAsserts == InUse => (Spec => []AssertsHold)
  <1> SUFFICES ASSUME InUse PROVE Spec => []AssertsHold
    OBVIOUS
  <1>1. Spec => []IInv
    BY AlwaysIInv
  <1>2. IInv => AssertsHold
    BY IInvAsserts
  <1> QED BY <1>1, <1>2, PTL

\* Requests are served in the order they were posted, each called back once: every
\* handler finds its request in the queue, num_sent_ counts those that were sent,
\* and a request at the front that waits for its answer is the one that is being
\* worked for (handle_async, handle_next, response in HttpClient.cpp).
THEOREM ClientServesInTurn == InUse => (Spec => []ServedInTurn)
  <1> SUFFICES ASSUME InUse PROVE Spec => []ServedInTurn
    OBVIOUS
  <1>1. Spec => []IInv
    BY AlwaysIInv
  <1>2. IInv => ServedInTurn
    BY IInvInTurn
  <1> QED BY <1>1, <1>2, PTL

-----------------------------------------------------------------------------
(* What a polled client shares with the other, HttpClient.tla, is the same   *)
(* in either; the lemmas on it are those above.                              *)

LEMMA SameSets ==
  /\ Polled!ConnectionStatus = ConnectionStatus /\ Polled!RequestStatus = RequestStatus
  /\ Polled!Established = Established /\ Polled!Unsent = Unsent /\ Polled!OpenedOn = OpenedOn
  /\ Polled!Responses = Responses
  BY DEF Polled!ConnectionStatus, ConnectionStatus, Polled!RequestStatus, RequestStatus,
         Polled!Established, Established, Polled!Unsent, Unsent, Polled!OpenedOn, OpenedOn,
         Polled!Responses, Responses, Polled!Framings, Framings

LEMMA SameSmall ==
  ASSUME NEW c, NEW i, NEW s
  PROVE  /\ Polled!SetStatus(c, i, s) = SetStatus(c, i, s)
         /\ Polled!Front(c) = Front(c) /\ Polled!ResetSource(c) = ResetSource(c)
         /\ Polled!CloseSocket(c) = CloseSocket(c)
  BY DEF Polled!SetStatus, SetStatus, Polled!Front, Front, Polled!ResetSource, ResetSource, Polled!CloseSocket, CloseSocket

LEMMA SameClosed ==
  ASSUME NEW c
  PROVE  Polled!Closed(c) = Closed(c) /\ Polled!Break(c) = Break(c)
  BY SameSmall DEF Polled!Closed, Closed, Polled!Break, Break

LEMMA SameFail ==
  ASSUME NEW c, NEW i
  PROVE  /\ Polled!Fail(c, i) = Fail(c, i)
         /\ Polled!EndsConnection(c, i) <=> EndsConnection(c, i)
  <1>1. Polled!CountFailed(c, i) = CountFailed(c, i)
    BY SameSets DEF Polled!CountFailed, CountFailed
  <1>2. Polled!Fail(c, i) = Fail(c, i)
    BY <1>1, SameSmall, SameClosed DEF Polled!Fail, Fail
  <1>3. Polled!EndsConnection(c, i) <=> EndsConnection(c, i)
    BY SameSets DEF Polled!EndsConnection, EndsConnection
  <1> QED BY <1>2, <1>3

LEMMA SamePostHandle ==
  ASSUME NEW c, NEW i, NEW failed
  PROVE  Polled!PostHandle(c, i, failed) = PostHandle(c, i, failed)
  <1> DEFINE d == IF failed THEN Fail(c, i) ELSE c
  <1>1. Polled!EndsConnection(d, i) <=> EndsConnection(d, i)
    BY SameFail
  <1>2. Polled!Break(d) = Break(d) /\ Polled!Fail(c, i) = Fail(c, i) /\ Polled!OpenedOn = OpenedOn
    BY SameFail, SameClosed, SameSets
  <1> QED BY <1>1, <1>2, Zenon DEF Polled!PostHandle, PostHandle

LEMMA SamePopFront ==
  ASSUME NEW c
  PROVE  Polled!PopFront(c) = PopFront(c)
  <1>1. Polled!FinishFront(c) = FinishFront(c)
    <2> DEFINE f == PostHandle(ResetSource(SetStatus(c, 1, "finished")), 1, FALSE)
               d == IF Front(c).status = "opened" THEN f ELSE c
    <2>1. Polled!PostHandle(Polled!ResetSource(Polled!SetStatus(c, 1, "finished")), 1, FALSE) = f
      BY SameSmall, SamePostHandle
    <2>2. Polled!Front(c) = Front(c) /\ Polled!Front(d) = Front(d)
      BY DEF Polled!Front, Front
    <2>3. Polled!PostHandle(d, 1, TRUE) = PostHandle(d, 1, TRUE)
      BY SamePostHandle
    <2>4. Polled!FinishFront(c) =
            IF Polled!Front(d).status = "finished" THEN d ELSE Polled!PostHandle(d, 1, TRUE)
      <3> DEFINE g == Polled!PostHandle(Polled!ResetSource(Polled!SetStatus(c, 1, "finished")), 1, FALSE)
                 e == IF Polled!Front(c).status = "opened" THEN g ELSE c
      <3>1. e = d
        BY <2>1, <2>2
      <3>2. Polled!FinishFront(c) =
              IF Polled!Front(e).status = "finished" THEN e ELSE Polled!PostHandle(e, 1, TRUE)
        BY DEF Polled!FinishFront
      <3> HIDE DEF d, e
      <3> QED BY <3>1, <3>2
    <2>5. FinishFront(c) = IF Front(d).status = "finished" THEN d ELSE PostHandle(d, 1, TRUE)
      BY DEF FinishFront
    <2> HIDE DEF d
    <2> QED BY <2>2, <2>3, <2>4, <2>5
  <1> QED BY <1>1 DEF Polled!PopFront, PopFront, Polled!Uncount, Uncount

LEMMA SamePost ==
  ASSUME NEW c, NEW id, NEW is_fetch, NEW keep_alive
  PROVE  /\ Polled!ReusesFetch(c) <=> ReusesFetch(c)
         /\ Polled!PostRequest(c, id, is_fetch, keep_alive) = PostRequest(c, id, is_fetch, keep_alive)
  <1>1. Polled!ReusesFetch(c) <=> ReusesFetch(c)
    BY SameSmall DEF Polled!ReusesFetch, ReusesFetch
  <1>2. Polled!NewRequest(id, is_fetch) = NewRequest(id, is_fetch)
    BY DEF Polled!NewRequest, NewRequest
  <1> QED BY <1>1, <1>2 DEF Polled!PostRequest, PostRequest

-----------------------------------------------------------------------------
(* The inductive invariant of a polled client, in named parts: what holds   *)
(* of a client c when `last` requests were posted; exact is false from the  *)
(* first redirection on, which sends again what num_sent_ has counted, and  *)
(* of a user who posts over a finished fetch, which num_sent_ has counted.  *)

\* num_sent_ counts at least the requests that are not unsent, and behind the
\* first that is not counted nothing is begun.
Counts(c) ==
    \A i \in Places(c) :
        /\ i > c.num_sent => c.requests[i].status \in Unsent
        /\ i > c.num_sent + 1 => c.requests[i].status = "send_pending"

CountsExactly(c) ==
    /\ c.num_sent <= Len(c.requests)
    /\ \A i \in Places(c) : i <= c.num_sent => c.requests[i].status \notin Unsent

\* A fetch is not opened, and what is opened has its body left to the user.
FitsKind(r) ==
    /\ r.status = "opened" => ~r.is_fetch
    /\ r.status = "recving_resp_data" => r.is_fetch

ReadyFronts == {"recving_resp_data", "finished"}
ReadyInTime(c) ==
    c.status = "ready" /\ c.requests # <<>> => c.requests[1].status \in ReadyFronts

Tidy(c, last, exact) ==
    /\ c \in Clients /\ InOrder(c, last)
    /\ Counts(c) /\ (exact => CountsExactly(c))
    /\ \A i \in Places(c) : FitsKind(c.requests[i])
    /\ ReadyInTime(c)

\* What is known of the front request when a call says yes.
IsYes(c) == c.requests # <<>> /\ c.requests[1].status \in Answered1

Exact == redirected = 0 /\ ~user.reuses

PInv ==
    /\ user \in Uses /\ req_id \in Nat /\ redirected \in Nat
    /\ Tidy(client, req_id, Exact)
    /\ answer.call # "async"
    /\ answer.call \in {"is_open", "is_fetch"} /\ answer.ec = "ok" => IsYes(client)

\* The invariant of a client used one way or the other.
IInvAll == IF IsPolled THEN PInv ELSE IInv

-----------------------------------------------------------------------------
(* How far a request has come.                                              *)

Sequel == Polled!Sequel

LEMMA SequelCases ==
  ASSUME NEW s \in RequestStatus
  PROVE  /\ s \in Sequel[s] /\ "finished" \in Sequel[s] /\ Sequel[s] \subseteq RequestStatus
         /\ s \notin Unsent => Sequel[s] \cap Unsent = {}
         /\ s \in Unsent => "recv_pending" \in Sequel[s]
         /\ s \in Unsent /\ s # "sending_req_data" => "sending_req_head" \in Sequel[s]
         /\ s \in Unsent => "sending_req_data" \in Sequel[s]
         /\ s \in {"recv_pending", "recving_resp_head"} =>
              {"recving_resp_head", "recving_resp_data", "opened"} \subseteq Sequel[s]
         /\ \A t \in Sequel[s] : Sequel[t] \subseteq Sequel[s]
  <1>1. /\ Sequel["send_pending"] = RequestStatus
        /\ Sequel["sending_req_head"] = RequestStatus \ {"send_pending"}
        /\ Sequel["sending_req_data"] = RequestStatus \ {"send_pending", "sending_req_head"}
        /\ Sequel["recv_pending"] = RequestStatus \ Unsent
        /\ Sequel["recving_resp_head"] = RequestStatus \ (Unsent \cup {"recv_pending"})
        /\ \A t \in OpenedOn : Sequel[t] = OpenedOn
    BY SameSets DEF Sequel, Polled!Sequel, RequestStatus, OpenedOn
  <1> HIDE DEF Sequel
  <1>2. CASE s = "send_pending"
    BY <1>1, <1>2 DEF RequestStatus, OpenedOn, Unsent
  <1>3. CASE s = "sending_req_head"
    BY <1>1, <1>3 DEF RequestStatus, OpenedOn, Unsent
  <1>4. CASE s = "sending_req_data"
    BY <1>1, <1>4 DEF RequestStatus, OpenedOn, Unsent
  <1>5. CASE s = "recv_pending"
    BY <1>1, <1>5 DEF RequestStatus, OpenedOn, Unsent
  <1>6. CASE s = "recving_resp_head"
    BY <1>1, <1>6 DEF RequestStatus, OpenedOn, Unsent
  <1>7. CASE s \in OpenedOn
    BY <1>1, <1>7 DEF RequestStatus, OpenedOn, Unsent
  <1> QED BY <1>2, <1>3, <1>4, <1>5, <1>6, <1>7 DEF RequestStatus, OpenedOn

\* The requests of c went on, or stayed, in d.
Leads(c, d) ==
    /\ Len(d.requests) = Len(c.requests)
    /\ \A i \in Places(c) :
         /\ d.requests[i].id = c.requests[i].id
         /\ d.requests[i].is_fetch = c.requests[i].is_fetch
         /\ d.requests[i].status \in Sequel[c.requests[i].status]

LEMMA LeadsOn ==
  ASSUME NEW c \in Clients, NEW d \in Clients, NEW e, Leads(c, d), Leads(d, e)
  PROVE  Leads(c, e)
  <1>1. Places(d) = Places(c)
    BY DEF Leads, Places
  <1> SUFFICES ASSUME NEW i \in Places(c)
               PROVE  /\ e.requests[i].id = c.requests[i].id
                      /\ e.requests[i].is_fetch = c.requests[i].is_fetch
                      /\ e.requests[i].status \in Sequel[c.requests[i].status]
    BY DEF Leads
  <1>2. c.requests[i].status \in RequestStatus
    BY ClientTypes
  <1>3. d.requests[i].status \in Sequel[c.requests[i].status]
    BY DEF Leads
  <1>4. Sequel[d.requests[i].status] \subseteq Sequel[c.requests[i].status]
    BY <1>2, <1>3, SequelCases
  <1> QED BY <1>1, <1>4 DEF Leads

LEMMA LeadsNot ==
  ASSUME NEW c \in Clients, NEW d, d.requests = c.requests
  PROVE  Leads(c, d)
  BY ClientTypes, SequelCases DEF Leads

-----------------------------------------------------------------------------
(* The steps of a call keep a client tidy.                                  *)

\* A request that may be begun goes on, and is counted when it is sent.
LEMMA MarkTidy ==
  ASSUME NEW c, NEW d \in Clients, NEW last, NEW exact, Tidy(c, last, exact),
         NEW i \in Places(c), NEW s, NEW r, Marked(c, d, i, s, r),
         i <= c.num_sent + 1, s \in Sequel[c.requests[i].status],
         d.num_sent = (IF c.requests[i].status \in Unsent /\ s \notin Unsent
                         THEN c.num_sent + 1 ELSE c.num_sent),
         s = "opened" => ~c.requests[i].is_fetch, s = "recving_resp_data" => c.requests[i].is_fetch,
         d.status = "ready" => c.status = "ready" /\ (i = 1 => s \in ReadyFronts)
  PROVE  Tidy(d, last, exact) /\ Leads(c, d)
  <1>0. /\ c \in Clients /\ c.num_sent \in Nat /\ Len(c.requests) \in Nat /\ i \in Nat
        /\ c.requests[i].status \in RequestStatus /\ Places(d) = Places(c) /\ Places(c) \subseteq Nat
    <2>1. c \in Clients
      BY DEF Tidy
    <2> QED BY <2>1, ClientTypes DEF Marked, Places
  <1>1. s \notin Unsent \/ c.requests[i].status \in Unsent
    BY <1>0, SequelCases
  <1>2. /\ d.num_sent \in {c.num_sent, c.num_sent + 1}
        /\ s \in Unsent => d.num_sent = c.num_sent /\ c.requests[i].status \in Unsent
        /\ s \notin Unsent /\ c.requests[i].status \in Unsent => d.num_sent = c.num_sent + 1
        /\ s \notin Unsent /\ c.requests[i].status \notin Unsent => d.num_sent = c.num_sent
    BY <1>1
  <1>3. \A j \in Places(c) : d.requests[j].status = IF j = i THEN s ELSE c.requests[j].status
    BY DEF Marked
  <1>4. InOrder(d, last)
    BY <1>0 DEF InOrder, Tidy, Marked
  <1>5. Counts(c) /\ (exact => CountsExactly(c))
    BY DEF Tidy
  <1>6. Counts(d)
    <2> SUFFICES ASSUME NEW j \in Places(c)
                 PROVE  /\ j > d.num_sent => d.requests[j].status \in Unsent
                        /\ j > d.num_sent + 1 => d.requests[j].status = "send_pending"
      BY <1>0 DEF Counts
    <2>1. CASE j = i
      <3>1. d.requests[j].status = s /\ ~(j > d.num_sent + 1)
        BY <1>0, <1>2, <1>3, <2>1
      <3>2. j > d.num_sent => s \in Unsent
        <4> SUFFICES ASSUME s \notin Unsent PROVE ~(j > d.num_sent)
          OBVIOUS
        <4>1. CASE c.requests[i].status \in Unsent
          BY <1>0, <1>2, <2>1, <4>1
        <4>2. CASE c.requests[i].status \notin Unsent
          BY <1>0, <1>2, <1>5, <2>1, <4>2 DEF Counts
        <4> QED BY <4>1, <4>2
      <3> QED BY <3>1, <3>2
    <2>2. CASE j # i
      <3>1. d.requests[j].status = c.requests[j].status
        BY <1>3, <2>2
      <3>2. /\ j > c.num_sent => c.requests[j].status \in Unsent
            /\ j > c.num_sent + 1 => c.requests[j].status = "send_pending"
        BY <1>5 DEF Counts
      <3>3. j \in Nat /\ (d.num_sent = c.num_sent \/ d.num_sent = c.num_sent + 1)
        BY <1>0, <1>2
      <3> QED BY <1>0, <3>1, <3>2, <3>3
    <2> QED BY <2>1, <2>2
  <1>7. ASSUME exact PROVE CountsExactly(d)
    <2>1. /\ c.num_sent <= Len(c.requests)
          /\ \A j \in Places(c) : j <= c.num_sent => c.requests[j].status \notin Unsent
      BY <1>5, <1>7 DEF CountsExactly
    <2>2. Len(d.requests) = Len(c.requests)
      BY DEF Marked
    <2>3. d.num_sent = c.num_sent + 1 => i = c.num_sent + 1 /\ i <= Len(c.requests)
      <3> SUFFICES ASSUME d.num_sent = c.num_sent + 1 PROVE i = c.num_sent + 1 /\ i <= Len(c.requests)
        OBVIOUS
      <3>1. c.requests[i].status \in Unsent
        BY <1>0, <1>2
      <3>2. ~(i <= c.num_sent)
        BY <2>1, <3>1
      <3> QED BY <1>0, <3>2 DEF Places
    <2>4. d.num_sent <= Len(d.requests)
      BY <1>0, <1>2, <2>1, <2>2, <2>3
    <2>5. ASSUME NEW j \in Places(c), j <= d.num_sent PROVE d.requests[j].status \notin Unsent
      <3>1. CASE j = i
        <4> SUFFICES ASSUME s \in Unsent PROVE FALSE
          BY <1>3, <3>1
        <4>1. c.requests[i].status \in Unsent /\ d.num_sent = c.num_sent
          BY <1>2
        <4> QED BY <2>1, <2>5, <3>1, <4>1
      <3>2. CASE j # i
        <4>1. j <= c.num_sent
          BY <1>0, <1>2, <2>3, <2>5, <3>2
        <4> QED BY <1>3, <2>1, <3>2, <4>1
      <3> QED BY <3>1, <3>2
    <2> QED BY <1>0, <2>4, <2>5 DEF CountsExactly
  <1>8. \A j \in Places(d) : FitsKind(d.requests[j])
    BY <1>0 DEF FitsKind, Tidy, Marked
  <1>9. ReadyInTime(d)
    <2> SUFFICES ASSUME d.status = "ready", d.requests # <<>> PROVE d.requests[1].status \in ReadyFronts
      BY DEF ReadyInTime
    <2>1. c.requests # <<>> /\ 1 \in Places(c)
      BY <1>0, ClientTypes DEF Places, Marked
    <2>2. c.requests[1].status \in ReadyFronts
      BY <2>1 DEF Tidy, ReadyInTime
    <2> QED BY <1>3, <2>1, <2>2
  <1>10. Leads(c, d)
    <2> SUFFICES ASSUME NEW j \in Places(c) PROVE d.requests[j].status \in Sequel[c.requests[j].status]
      BY DEF Leads, Marked
    <2>1. c.requests[j].status \in RequestStatus
      BY <1>0, ClientTypes
    <2> QED BY <1>3, <2>1, SequelCases
  <1> QED BY <1>4, <1>6, <1>7, <1>8, <1>9, <1>10 DEF Tidy

\* Another state of the connection.
LEMMA SameTidy ==
  ASSUME NEW c, NEW d \in Clients, NEW last, NEW exact, Tidy(c, last, exact),
         d.requests = c.requests, d.num_sent = c.num_sent,
         d.status = "ready" /\ d.requests # <<>> => d.requests[1].status \in ReadyFronts
  PROVE  Tidy(d, last, exact) /\ Leads(c, d)
  <1>1. Leads(c, d)
    BY LeadsNot DEF Tidy
  <1> QED BY <1>1 DEF Tidy, InOrder, Counts, CountsExactly, ReadyInTime, Places

\* What the socket does: a call that stops has not gone well.
IsOutcome(o) ==
    o.response \in Responses /\ (o.stop # "none" => o.ec \in {"error", "would_block"})

LEMMA OutcomeFacts ==
  ASSUME NEW c, NEW pending, NEW in \in Polled!Inputs(c, pending)
  PROVE  /\ IsOutcome(in.front) /\ IsOutcome(in.behind)
         /\ in.connect \in {"ok", "would_block", "error"}
  <1> DEFINE G == Polled!Going
  <1>1. G.stop = "none" /\ G.response \in Responses
        /\ G = [stop |-> "none", ec |-> "ok", redirect |-> "no", response |-> Polled!NoResponse]
    BY DEF Polled!Going, Polled!NoResponse, Responses, Framings
  <1> HIDE DEF G
  <1>2. IsOutcome(G)
    BY <1>1 DEF IsOutcome
  <1>3. ASSUME NEW stop \in {"write_head", "write_data", "read_head"}, NEW e \in {"would_block", "error"},
               NEW o, o = [G EXCEPT !.stop = stop, !.ec = e]
        PROVE  IsOutcome(o)
    <2>1. o = [stop |-> stop, ec |-> e, redirect |-> "no", response |-> Polled!NoResponse]
      BY <1>1, <1>3
    <2>2. Polled!NoResponse \in Responses
      BY DEF Polled!NoResponse, Responses, Framings
    <2> QED BY <2>1, <2>2 DEF IsOutcome
  <1>4. ASSUME NEW o \in Polled!Answers PROVE IsOutcome(o) /\ IsOutcome([o EXCEPT !.redirect = "refused"])
    <2>1. PICK p \in {G} \cup Polled!Stops({"read_data"}), r \in Responses : o = [p EXCEPT !.response = r]
      BY SameSets, <1>4 DEF Polled!Answers, G
    <2>2. CASE p = G
      BY <1>1, <2>1, <2>2 DEF IsOutcome
    <2>3. CASE p \in Polled!Stops({"read_data"})
      <3>1. PICK e \in {"would_block", "error"} : p = [G EXCEPT !.stop = "read_data", !.ec = e]
        BY <2>3 DEF Polled!Stops, G
      <3>2. p = [stop |-> "read_data", ec |-> e, redirect |-> "no", response |-> Polled!NoResponse]
        BY <1>1, <3>1
      <3> QED BY <2>1, <3>2 DEF IsOutcome
    <2> QED BY <2>1, <2>2, <2>3
  <1>5. \A o \in Polled!FrontOutcomes : IsOutcome(o)
    <2>1. ASSUME NEW o, o \in Polled!Stops({"write_head", "write_data", "read_head"}) PROVE IsOutcome(o)
      <3>1. PICK s \in {"write_head", "write_data", "read_head"}, e \in {"would_block", "error"} :
              o = [G EXCEPT !.stop = s, !.ec = e]
        BY <2>1 DEF Polled!Stops, G
      <3> QED BY <1>3, <3>1
    <2> QED BY <1>4, <2>1 DEF Polled!FrontOutcomes
  <1>6. \A o \in Polled!BehindOutcomes : IsOutcome(o)
    <2>1. ASSUME NEW o, o \in Polled!Stops({"write_head", "write_data"}) PROVE IsOutcome(o)
      <3>1. PICK s \in {"write_head", "write_data"}, e \in {"would_block", "error"} :
              o = [G EXCEPT !.stop = s, !.ec = e]
        BY <2>1 DEF Polled!Stops, G
      <3> QED BY <1>3, <3>1
    <2> QED BY <1>2, <2>1 DEF Polled!BehindOutcomes, G
  <1>7. \A o \in Polled!Redirections(c) : IsOutcome(o)
    <2>1. IsOutcome([G EXCEPT !.redirect = "followed"])
      BY <1>1 DEF IsOutcome
    <2> QED BY <1>4, <2>1 DEF Polled!Redirections, G
  <1>8. in.front \in {G} \cup Polled!FrontOutcomes \cup Polled!Redirections(c)
        /\ in.behind \in {G} \cup Polled!BehindOutcomes
        /\ in.connect \in {"ok", "would_block", "error"}
    BY DEF Polled!Inputs, G
  <1> QED BY <1>2, <1>5, <1>6, <1>7, <1>8

\* A step of a call is a client, an error and whether the request is sent again.
IsStep(w) == w = [client |-> w.client, ec |-> w.ec, again |-> w.again]

\* resume_connect.
LEMMA ConnectedTidy ==
  ASSUME NEW c, NEW last, NEW exact, Tidy(c, last, exact), NEW connect \in {"ok", "would_block", "error"}
  PROVE  LET w == Polled!Connected(c, connect) IN
         /\ IsStep(w) /\ Tidy(w.client, last, exact) /\ Leads(c, w.client) /\ w.again = FALSE
         /\ w.client.status \notin Established => w.ec # "ok"
  <1>0. c \in Clients /\ c.status \in ConnectionStatus
    BY ClientTypes DEF Tidy
  <1> DEFINE ok == [c EXCEPT !.status = "established"]
             wait == [c EXCEPT !.status = "connectting"]
             bad == [c EXCEPT !.status = "broken", !.broken_error = "error"]
  <1>1. \A d \in {ok, wait, bad} :
          d \in Clients /\ d.requests = c.requests /\ d.num_sent = c.num_sent /\ d.status # "ready"
    BY <1>0 DEF Clients, ConnectionStatus
  <1>2. ok.status = "established"
    BY <1>0 DEF Clients
  <1>3. \A d \in {ok, wait, bad} : Tidy(d, last, exact) /\ Leads(c, d)
    BY <1>1, SameTidy
  <1>4. Leads(c, c)
    BY <1>0, LeadsNot
  <1> HIDE DEF ok, wait, bad
  <1>5. \/ Polled!Connected(c, connect) = Polled!Went(ok, "ok")
        \/ Polled!Connected(c, connect) = Polled!Went(wait, "would_block")
        \/ Polled!Connected(c, connect) = Polled!Went(bad, "error")
        \/ c.status \notin {"closed", "connectting"} /\ Polled!Connected(c, connect) = Polled!Went(c, c.broken_error)
    <2>1. /\ connect = "ok" => Polled!ResumeConnect(c, connect) = Polled!Went(ok, "ok")
          /\ connect = "would_block" => Polled!ResumeConnect(c, connect) = Polled!Went(wait, "would_block")
          /\ connect = "error" => Polled!ResumeConnect(c, connect) = Polled!Went(bad, "error")
      BY DEF Polled!ResumeConnect, ok, wait, bad
    <2>2. Polled!Connected(c, connect) =
            IF c.status \in {"closed", "connectting"} THEN Polled!ResumeConnect(c, connect)
            ELSE Polled!Went(c, c.broken_error)
      BY DEF Polled!Connected
    <2> QED BY <2>1, <2>2
  <1>6. \A d, ec : /\ Polled!Went(d, ec).client = d /\ Polled!Went(d, ec).ec = ec
                   /\ Polled!Went(d, ec).again = FALSE /\ IsStep(Polled!Went(d, ec))
    BY DEF Polled!Went, IsStep
  <1>7. c.status \notin {"closed", "connectting"} => c.status \in Established
    BY <1>0 DEF ConnectionStatus, Established
  <1> QED BY <1>2, <1>3, <1>4, <1>5, <1>6, <1>7 DEF Established

\* resume_request as far as a request is sent.
SentOn(c, i, w, last, exact) ==
    /\ IsStep(w) /\ Tidy(w.client, last, exact) /\ Leads(c, w.client) /\ w.again = FALSE
    /\ w.client.status = c.status
    /\ w.ec = "ok" => w.client.requests[i].status \notin Unsent
    /\ \A j \in Places(c) : j # i => w.client.requests[j].status = c.requests[j].status

LEMMA SendTidy ==
  ASSUME NEW c, NEW last, NEW exact, Tidy(c, last, exact), NEW i \in Places(c), i <= c.num_sent + 1,
         NEW o, IsOutcome(o)
  PROVE  SentOn(c, i, Polled!Send(c, i, o), last, exact)
  <1> DEFINE s == c.requests[i].status
             h == SetStatus(c, i, "sending_req_head")
             t == SetStatus(c, i, "sending_req_data")
             n == Counted(c, i)
             w == Polled!Send(c, i, o)
  <1>0. c \in Clients /\ s \in RequestStatus
    BY ClientTypes DEF Tidy
  <1>1. Polled!Send(c, i, o) =
          IF s \notin Unsent THEN Polled!Went(c, "ok")
          ELSE IF o.stop = "write_head" /\ s # "sending_req_data" THEN Polled!Went(h, o.ec)
          ELSE IF o.stop = "write_data" THEN Polled!Went(t, o.ec)
          ELSE Polled!Went(n, "ok")
    BY SameSets, SameSmall DEF Polled!Send, Polled!Retry, Counted
  <1>2. CASE s \notin Unsent
    <2>1. Polled!Send(c, i, o) = Polled!Went(c, "ok")
      BY <1>1, <1>2
    <2>2. w.client = c /\ w.again = FALSE /\ IsStep(w)
      BY <2>1 DEF IsStep, Polled!Went
    <2>3. Leads(c, c)
      BY <1>0, LeadsNot
    <2> HIDE DEF w
    <2> QED BY <1>2, <2>2, <2>3 DEF w, SentOn
  <1>3. ASSUME s \in Unsent, NEW d \in Clients, NEW u \in RequestStatus, SameConnection(c, d),
               Marked(c, d, i, u, c.requests[i].resp), u \in Sequel[s], u \notin OpenedOn,
               d.num_sent = IF u \notin Unsent THEN c.num_sent + 1 ELSE c.num_sent
        PROVE  /\ Tidy(d, last, exact) /\ Leads(c, d) /\ d.status = c.status
               /\ d.requests[i].status = u
               /\ \A j \in Places(c) : j # i => d.requests[j].status = c.requests[j].status
    <2>1. d.status = "ready" => c.status = "ready" /\ (i = 1 => u \in ReadyFronts)
      <3> SUFFICES ASSUME d.status = "ready", i = 1 PROVE FALSE
        BY <1>3 DEF SameConnection
      <3>1. c.requests # <<>> /\ c.status = "ready"
        BY <1>0, <1>3, ClientTypes DEF SameConnection, Places
      <3>2. s \in ReadyFronts
        BY <3>1 DEF Tidy, ReadyInTime
      <3> QED BY <1>3, <3>2 DEF ReadyFronts, Unsent
    <2>2. u # "opened" /\ u # "recving_resp_data"
      BY <1>3 DEF OpenedOn
    <2>3. d.num_sent = (IF s \in Unsent /\ u \notin Unsent THEN c.num_sent + 1 ELSE c.num_sent)
      BY <1>3
    <2>4. Tidy(d, last, exact) /\ Leads(c, d)
      BY <1>3, <2>1, <2>2, <2>3, MarkTidy
    <2>5. d.status = c.status
      BY <1>3 DEF SameConnection
    <2>6. /\ d.requests[i].status = u
          /\ \A j \in Places(c) : j # i => d.requests[j].status = c.requests[j].status
      BY <1>3 DEF Marked
    <2> QED BY <2>4, <2>5, <2>6
  <1>4. CASE s \in Unsent /\ o.stop = "write_head" /\ s # "sending_req_data"
    <2>1. /\ h \in Clients /\ SameConnection(c, h) /\ h.num_sent = c.num_sent
          /\ Marked(c, h, i, "sending_req_head", c.requests[i].resp)
      BY <1>0, SetStatusFields DEF RequestStatus
    <2>2. "sending_req_head" \in Sequel[s]
      BY <1>0, <1>4, SequelCases
    <2> HIDE DEF s, h
    <2>3. /\ Tidy(h, last, exact) /\ Leads(c, h) /\ h.status = c.status
          /\ \A j \in Places(c) : j # i => h.requests[j].status = c.requests[j].status
      BY <1>3, <1>4, <2>1, <2>2 DEF RequestStatus, OpenedOn, Unsent
    <2>4. Polled!Send(c, i, o) = Polled!Went(h, o.ec) /\ o.ec # "ok"
      BY <1>1, <1>4 DEF IsOutcome
    <2>5. w.client = h /\ w.again = FALSE /\ w.ec # "ok" /\ IsStep(w)
      BY <2>4 DEF IsStep, Polled!Went
    <2> HIDE DEF w
    <2> QED BY <2>3, <2>5 DEF w, SentOn
  <1>5. CASE s \in Unsent /\ ~(o.stop = "write_head" /\ s # "sending_req_data") /\ o.stop = "write_data"
    <2>1. /\ t \in Clients /\ SameConnection(c, t) /\ t.num_sent = c.num_sent
          /\ Marked(c, t, i, "sending_req_data", c.requests[i].resp)
      BY <1>0, SetStatusFields DEF RequestStatus
    <2>2. "sending_req_data" \in Sequel[s]
      BY <1>0, <1>5, SequelCases
    <2> HIDE DEF s, t
    <2>3. /\ Tidy(t, last, exact) /\ Leads(c, t) /\ t.status = c.status
          /\ \A j \in Places(c) : j # i => t.requests[j].status = c.requests[j].status
      BY <1>3, <1>5, <2>1, <2>2 DEF RequestStatus, OpenedOn, Unsent
    <2>4. Polled!Send(c, i, o) = Polled!Went(t, o.ec) /\ o.ec # "ok"
      BY <1>1, <1>5 DEF IsOutcome
    <2>5. w.client = t /\ w.again = FALSE /\ w.ec # "ok" /\ IsStep(w)
      BY <2>4 DEF IsStep, Polled!Went
    <2> HIDE DEF w
    <2> QED BY <2>3, <2>5 DEF w, SentOn
  <1>6. CASE s \in Unsent /\ ~(o.stop = "write_head" /\ s # "sending_req_data") /\ o.stop # "write_data"
    <2>1. /\ n \in Clients /\ SameConnection(c, n) /\ n.num_sent = c.num_sent + 1
          /\ Marked(c, n, i, "recv_pending", c.requests[i].resp)
      BY <1>0, CountedFields
    <2>2. "recv_pending" \in Sequel[s]
      BY <1>0, <1>6, SequelCases
    <2> HIDE DEF s, n
    <2>3. /\ Tidy(n, last, exact) /\ Leads(c, n) /\ n.status = c.status /\ n.requests[i].status = "recv_pending"
          /\ \A j \in Places(c) : j # i => n.requests[j].status = c.requests[j].status
      BY <1>3, <1>6, <2>1, <2>2 DEF RequestStatus, OpenedOn, Unsent
    <2>4. Polled!Send(c, i, o) = Polled!Went(n, "ok")
      BY <1>1, <1>6
    <2>5. w.client = n /\ w.again = FALSE /\ IsStep(w)
      BY <2>4 DEF IsStep, Polled!Went
    <2> HIDE DEF w
    <2> QED BY <2>3, <2>5 DEF w, SentOn, Unsent
  <1> QED BY <1>2, <1>4, <1>5, <1>6

LEMMA PolledFront ==
  ASSUME NEW c, c.requests # <<>>
  PROVE  Polled!Front(c) = c.requests[1]
  BY FrontIsFirst, SameSmall

\* A redirected request is to be sent again.
LEMMA AgainTidy ==
  ASSUME NEW c, NEW last, NEW exact, Tidy(c, last, exact), Len(c.requests) = 1
  PROVE  LET d == SetStatus([c EXCEPT !.status = "closed"], 1, "send_pending") IN
         Tidy(d, last, FALSE) /\ d.requests # <<>>
  <1> DEFINE b == [c EXCEPT !.status = "closed"]
             d == SetStatus(b, 1, "send_pending")
  <1>0. c \in Clients /\ Places(c) = {1}
    BY DEF Tidy, Places
  <1>1. b \in Clients /\ b.requests = c.requests /\ b.num_sent = c.num_sent /\ b.status = "closed"
    BY <1>0 DEF Clients, ConnectionStatus
  <1>2. Places(b) = {1}
    BY <1>0, <1>1 DEF Places
  <1> HIDE DEF b
  <1>3. /\ d \in Clients /\ SameConnection(b, d) /\ d.num_sent = b.num_sent
        /\ Marked(b, d, 1, "send_pending", b.requests[1].resp)
    BY <1>1, <1>2, SetStatusFields DEF RequestStatus
  <1> HIDE DEF d
  <1>4. Places(d) = {1} /\ d.status = "closed" /\ d.requests # <<>>
    <2>1. Len(d.requests) = Len(b.requests) /\ d.status = "closed"
      BY <1>1, <1>3 DEF Marked, SameConnection
    <2>2. Places(d) = {1}
      BY <1>2, <2>1 DEF Places
    <2>3. Len(d.requests) # 0
      BY <1>1, <2>1
    <2> QED BY <1>3, <2>1, <2>2, <2>3, ClientTypes
  <1>5. /\ d.requests[1].status = "send_pending" /\ d.requests[1].id = c.requests[1].id
    BY <1>1, <1>2, <1>3 DEF Marked
  <1>6. InOrder(d, last)
    BY <1>0, <1>4, <1>5 DEF Tidy, InOrder
  <1>7. Counts(d) /\ ReadyInTime(d) /\ \A i \in Places(d) : FitsKind(d.requests[i])
    BY <1>4, <1>5 DEF Counts, ReadyInTime, FitsKind, Unsent
  <1> QED BY <1>3, <1>4, <1>6, <1>7 DEF Tidy, d, b

\* As far as the head of the response is read.
Received(c, w, last, exact) ==
    /\ IsStep(w)
    /\ w.again => Tidy(w.client, last, FALSE) /\ w.client.requests # <<>>
    /\ ~w.again => Tidy(w.client, last, exact) /\ Leads(c, w.client)

LEMMA ReceiveHeadTidy ==
  ASSUME NEW c, NEW last, NEW exact, Tidy(c, last, exact), c.requests # <<>>,
         c.requests[1].status \notin Unsent, NEW o, IsOutcome(o)
  PROVE  LET w == Polled!ReceiveHead(c, o) IN
         /\ Received(c, w, last, exact)
         /\ ~w.again /\ w.ec = "ok" => w.client.requests[1].status \in OpenedOn
  <1> DEFINE w == Polled!ReceiveHead(c, o)
             s == c.requests[1].status
             h == SetStatus(c, 1, "recving_resp_head")
             r == SetStatus([c EXCEPT !.status = "closed"], 1, "send_pending")
             u == IF c.requests[1].is_fetch THEN "recving_resp_data" ELSE "opened"
             t == Taken(c, o.response, u)
             heads == {"recv_pending", "recving_resp_head"}
  <1>0. /\ c \in Clients /\ s \in RequestStatus /\ 1 \in Places(c) /\ c.num_sent \in Nat
        /\ Len(c.requests) \in Nat
    <2>1. c \in Clients
      BY DEF Tidy
    <2>2. 1 \in Places(c)
      BY <2>1, ClientTypes DEF Places
    <2> QED BY <2>1, <2>2, ClientTypes
  <1>1. \/ s \notin heads /\ w = Polled!Went(c, "ok")
        \/ s \in heads /\ o.stop = "read_head" /\ w = Polled!Went(h, o.ec)
        \/ s \in heads /\ Len(c.requests) = 1 /\ w = [client |-> r, ec |-> "ok", again |-> TRUE]
        \/ s \in heads /\ \E ec : w = Polled!Went(t, ec)
    <2>1. Polled!Front(c) = c.requests[1]
      BY PolledFront
    <2>2. Polled!TakeHead(c, o.response) = t
      BY <2>1, SameSmall DEF Polled!TakeHead, Taken
    <2>3. Polled!Retry(c, 1, "recving_resp_head") = h
      BY SameSmall DEF Polled!Retry
    <2>4. Polled!SetStatus([c EXCEPT !.status = "closed"], 1, "send_pending") = r
      BY SameSmall
    <2> HIDE DEF r, t, h
    <2> QED BY <2>1, <2>2, <2>3, <2>4 DEF Polled!ReceiveHead
  <1>2. ASSUME NEW d \in Clients, NEW v \in RequestStatus, s \in heads, d.status = c.status, d.num_sent = c.num_sent,
               Marked(c, d, 1, v, c.requests[1].resp), v \in Sequel[s],
               v = "opened" => ~c.requests[1].is_fetch, v = "recving_resp_data" => c.requests[1].is_fetch
        PROVE  Tidy(d, last, exact) /\ Leads(c, d) /\ d.requests[1].status = v
    <2>1. d.status # "ready"
      BY <1>2 DEF Tidy, ReadyInTime, ReadyFronts
    <2>2. 1 <= c.num_sent + 1 /\ d.num_sent = (IF s \in Unsent /\ v \notin Unsent THEN c.num_sent + 1 ELSE c.num_sent)
      BY <1>0, <1>2
    <2>3. Tidy(d, last, exact) /\ Leads(c, d)
      BY <1>0, <1>2, <2>1, <2>2, MarkTidy
    <2> QED BY <1>0, <1>2, <2>3 DEF Marked
  <1>3. CASE s \notin heads /\ w = Polled!Went(c, "ok")
    <2>1. w.client = c /\ w.again = FALSE /\ IsStep(w)
      BY <1>3 DEF IsStep, Polled!Went
    <2>2. Leads(c, c) /\ s \in OpenedOn
      BY <1>0, <1>3, LeadsNot DEF RequestStatus, Unsent, OpenedOn
    <2> HIDE DEF w
    <2> QED BY <2>1, <2>2 DEF Received, w
  <1>4. CASE s \in heads /\ o.stop = "read_head" /\ w = Polled!Went(h, o.ec)
    <2>1. w.client = h /\ w.again = FALSE /\ w.ec # "ok" /\ IsStep(w)
      BY <1>4 DEF IsStep, Polled!Went, IsOutcome
    <2>2. /\ h \in Clients /\ SameConnection(c, h) /\ h.num_sent = c.num_sent
          /\ Marked(c, h, 1, "recving_resp_head", c.requests[1].resp)
      BY <1>0, SetStatusFields DEF RequestStatus
    <2>3. "recving_resp_head" \in Sequel[s]
      BY <1>0, <1>4, SequelCases
    <2> HIDE DEF h, w, s
    <2>4. Tidy(h, last, exact) /\ Leads(c, h)
      BY <1>2, <1>4, <2>2, <2>3 DEF RequestStatus, SameConnection
    <2> QED BY <2>1, <2>4 DEF Received, w
  <1>5. CASE s \in heads /\ Len(c.requests) = 1 /\ w = [client |-> r, ec |-> "ok", again |-> TRUE]
    <2>1. Tidy(r, last, FALSE) /\ r.requests # <<>>
      BY <1>5, AgainTidy
    <2> HIDE DEF r
    <2>2. w.client = r /\ w.again = TRUE /\ IsStep(w)
      BY <1>5 DEF IsStep
    <2> HIDE DEF w
    <2> QED BY <2>1, <2>2 DEF Received, w
  <1>6. CASE s \in heads /\ \E ec : w = Polled!Went(t, ec)
    <2>1. w.client = t /\ w.again = FALSE /\ IsStep(w)
      BY <1>6 DEF IsStep, Polled!Went
    <2>2. /\ u \in RequestStatus /\ u \in OpenedOn
          /\ u = "opened" => ~c.requests[1].is_fetch
          /\ u = "recving_resp_data" => c.requests[1].is_fetch
      BY DEF RequestStatus, OpenedOn
    <2>3. u \in Sequel[s]
      BY <1>0, <1>6, SequelCases
    <2> HIDE DEF u
    <2>4. /\ t \in Clients /\ SameConnection(c, t) /\ t.num_sent = c.num_sent
          /\ Marked(c, t, 1, u, c.requests[1].resp)
      BY <1>0, <2>2, TakenFields DEF IsOutcome
    <2> HIDE DEF t, w, s
    <2>5. Tidy(t, last, exact) /\ Leads(c, t) /\ t.requests[1].status = u
      BY <1>2, <1>6, <2>2, <2>3, <2>4 DEF SameConnection
    <2> QED BY <2>1, <2>2, <2>5 DEF Received, w
  <1> QED BY <1>1, <1>3, <1>4, <1>5, <1>6

\* The body of a fetch.
LEMMA ReceiveDataTidy ==
  ASSUME NEW c, NEW last, NEW exact, Tidy(c, last, exact), c.requests # <<>>,
         c.requests[1].status \in OpenedOn, NEW o, IsOutcome(o)
  PROVE  LET w == Polled!ReceiveData(c, o) IN
         /\ IsStep(w) /\ Tidy(w.client, last, exact) /\ Leads(c, w.client) /\ w.again = FALSE
         /\ w.ec = "ok" => w.client.requests[1].status \in Answered1
  <1> DEFINE w == Polled!ReceiveData(c, o)
             s == c.requests[1].status
             f == SetStatus(c, 1, "finished")
             d == ResetSource(f)
  <1>0. /\ c \in Clients /\ s \in RequestStatus /\ 1 \in Places(c) /\ c.num_sent \in Nat
    <2>1. c \in Clients
      BY DEF Tidy
    <2>2. 1 \in Places(c)
      BY <2>1, ClientTypes DEF Places
    <2> QED BY <2>1, <2>2, ClientTypes
  <1>1. /\ f \in Clients /\ SameConnection(c, f) /\ f.num_sent = c.num_sent
        /\ Marked(c, f, 1, "finished", c.requests[1].resp)
    BY <1>0, SetStatusFields DEF RequestStatus
  <1>2. d \in Clients /\ d.requests = f.requests /\ d.num_sent = f.num_sent /\ d.status = f.status
    <2> HIDE DEF f
    <2> QED BY <1>1 DEF ResetSource, Clients
  <1>3. Marked(c, d, 1, "finished", c.requests[1].resp)
    BY <1>1, <1>2 DEF Marked
  <1>4. \/ w = Polled!Went(c, "ok") /\ s # "recving_resp_data"
        \/ w = Polled!Went(c, o.ec) /\ o.stop = "read_data"
        \/ w = Polled!Went(d, "ok")
    <2>1. Polled!Front(c) = c.requests[1]
      BY PolledFront
    <2>2. Polled!ResetSource(Polled!SetStatus(c, 1, "finished")) = d
      BY SameSmall
    <2> HIDE DEF d
    <2> QED BY <2>1, <2>2 DEF Polled!ReceiveData
  <1>5. "finished" \in Sequel[s] /\ "finished" \notin Unsent
    BY <1>0, SequelCases DEF Unsent
  <1>6. s \notin Unsent
    BY DEF OpenedOn, Unsent
  <1> HIDE DEF d, f, s
  <1>7. /\ d.status = "ready" => c.status = "ready" /\ (1 = 1 => "finished" \in ReadyFronts)
        /\ 1 <= c.num_sent + 1 /\ d.num_sent = c.num_sent
    BY <1>0, <1>1, <1>2 DEF SameConnection, ReadyFronts
  <1>8. Tidy(d, last, exact) /\ Leads(c, d)
    BY <1>0, <1>2, <1>3, <1>5, <1>6, <1>7, MarkTidy DEF s
  <1>9. d.requests[1].status = "finished"
    BY <1>0, <1>3 DEF Marked
  <1>10. CASE w = Polled!Went(c, "ok") /\ s # "recving_resp_data"
    <2>1. w.client = c /\ w.again = FALSE /\ IsStep(w)
      BY <1>10 DEF IsStep, Polled!Went
    <2>2. Leads(c, c) /\ s \in Answered1
      BY <1>0, <1>10, LeadsNot DEF s, OpenedOn, Answered1
    <2> HIDE DEF w
    <2> QED BY <2>1, <2>2 DEF w, s
  <1>11. CASE w = Polled!Went(c, o.ec) /\ o.stop = "read_data"
    <2>1. w.client = c /\ w.again = FALSE /\ w.ec # "ok" /\ IsStep(w)
      BY <1>11 DEF IsStep, Polled!Went, IsOutcome
    <2>2. Leads(c, c)
      BY <1>0, LeadsNot
    <2> HIDE DEF w
    <2> QED BY <2>1, <2>2 DEF w
  <1>12. CASE w = Polled!Went(d, "ok")
    <2>1. w.client = d /\ w.again = FALSE /\ IsStep(w)
      BY <1>12 DEF IsStep, Polled!Went
    <2> HIDE DEF w
    <2> QED BY <1>8, <1>9, <2>1 DEF w, Answered1
  <1> QED BY <1>4, <1>10, <1>11, <1>12

\* post_handle_request of the front.
LEMMA PostHandleTidy ==
  ASSUME NEW c, NEW last, NEW exact, Tidy(c, last, exact), c.requests # <<>>, NEW failed \in BOOLEAN
  PROVE  LET d == PostHandle(c, 1, failed) IN
         /\ Tidy(d, last, exact) /\ Leads(c, d)
         /\ ~failed => d.requests[1].status = c.requests[1].status
  <1> DEFINE d == PostHandle(c, 1, failed)
             s == IF failed THEN "finished" ELSE c.requests[1].status
  <1>0. c \in Clients /\ 1 \in Places(c) /\ c.num_sent \in Nat /\ c.requests[1].status \in RequestStatus
    <2>1. c \in Clients
      BY DEF Tidy
    <2>2. 1 \in Places(c)
      BY <2>1, ClientTypes DEF Places
    <2> QED BY <2>1, <2>2, ClientTypes
  <1>1. /\ d \in Clients /\ d.status \in {c.status, "broken"} /\ (failed => d.status = "broken")
        /\ Marked(c, d, 1, s, c.requests[1].resp)
        /\ d.num_sent = (IF failed THEN CountFailed(c, 1) ELSE c.num_sent)
    BY <1>0, PostHandleFields
  <1> HIDE DEF d
  <1>2. s \in Sequel[c.requests[1].status]
    BY <1>0, SequelCases
  <1>3. d.num_sent = (IF c.requests[1].status \in Unsent /\ s \notin Unsent THEN c.num_sent + 1 ELSE c.num_sent)
    BY <1>1 DEF CountFailed, Unsent
  <1>4. /\ s = "opened" => ~c.requests[1].is_fetch
        /\ s = "recving_resp_data" => c.requests[1].is_fetch
    BY <1>0 DEF Tidy, FitsKind
  <1>5. d.status = "ready" => c.status = "ready" /\ (1 = 1 => s \in ReadyFronts)
    BY <1>1 DEF Tidy, ReadyInTime
  <1>6. d.requests[1].status = s
    BY <1>0, <1>1 DEF Marked
  <1>7. ~failed => s = c.requests[1].status
    OBVIOUS
  <1>8. 1 <= c.num_sent + 1
    BY <1>0
  <1> HIDE DEF s
  <1>9. Tidy(d, last, exact) /\ Leads(c, d)
    BY <1>0, <1>1, <1>2, <1>3, <1>4, <1>5, <1>8, MarkTidy
  <1> QED BY <1>6, <1>7, <1>9 DEF d

\* resume_request of the front.
LEMMA ResumeFrontTidy ==
  ASSUME NEW c, NEW last, NEW exact, Tidy(c, last, exact), c.requests # <<>>, NEW o, IsOutcome(o)
  PROVE  LET w == Polled!ResumeFront(c, o) IN
         /\ Received(c, w, last, exact)
         /\ ~w.again /\ w.ec = "ok" => w.client.requests[1].status \in Answered1
  <1> DEFINE w1 == Polled!Send(c, 1, o)
             w2 == Polled!ThenReceiveHead(w1, o)
             w3 == Polled!ThenReceiveData(w2, o)
             w == Polled!Ended(w3)
  <1>0. c \in Clients /\ 1 \in Places(c) /\ 1 <= c.num_sent + 1 /\ c.num_sent \in Nat
    <2>1. c \in Clients
      BY DEF Tidy
    <2>2. 1 \in Places(c) /\ c.num_sent \in Nat
      BY <2>1, ClientTypes DEF Places
    <2> QED BY <2>1, <2>2
  <1>1. /\ IsStep(w1) /\ Tidy(w1.client, last, exact) /\ Leads(c, w1.client) /\ w1.again = FALSE
        /\ w1.client.status = c.status
        /\ w1.ec = "ok" => w1.client.requests[1].status \notin Unsent
        /\ \A j \in Places(c) : j # 1 => w1.client.requests[j].status = c.requests[j].status
    <2>1. SentOn(c, 1, w1, last, exact)
      BY <1>0, SendTidy
    <2> HIDE DEF w1
    <2> QED BY <2>1 DEF SentOn
  <1>2. ASSUME NEW d, Tidy(d, last, exact), Leads(c, d) PROVE d.requests # <<>> /\ d \in Clients
    BY <1>0, <1>2, ClientTypes DEF Tidy, Leads
  <1> HIDE DEF w1
  <1>3. /\ Received(c, w2, last, exact)
        /\ ~w2.again /\ w2.ec = "ok" => w2.client.requests[1].status \in OpenedOn
    <2>1. CASE w1.ec = "ok"
      <3>1. w2 = Polled!ReceiveHead(w1.client, o)
        BY <2>1 DEF Polled!ThenReceiveHead
      <3>2. w1.client.requests # <<>> /\ w1.client \in Clients
        BY <1>1, <1>2
      <3>3. /\ Received(w1.client, w2, last, exact)
            /\ ~w2.again /\ w2.ec = "ok" => w2.client.requests[1].status \in OpenedOn
        BY <1>1, <2>1, <3>1, <3>2, ReceiveHeadTidy
      <3> HIDE DEF w2
      <3>4. ~w2.again => Leads(c, w2.client)
        <4> SUFFICES ASSUME ~w2.again PROVE Leads(c, w2.client)
          OBVIOUS
        <4>1. Leads(w1.client, w2.client)
          BY <3>3 DEF Received
        <4> QED BY <1>0, <1>1, <3>2, <4>1, LeadsOn
      <3> QED BY <3>3, <3>4 DEF Received
    <2>2. CASE w1.ec # "ok"
      <3>1. w2 = w1
        BY <2>2 DEF Polled!ThenReceiveHead
      <3> QED BY <1>1, <2>2, <3>1 DEF Received
    <2> QED BY <2>1, <2>2
  <1> HIDE DEF w2
  <1>4. /\ Received(c, w3, last, exact)
        /\ ~w3.again /\ w3.ec = "ok" => w3.client.requests[1].status \in Answered1
    <2>1. CASE w2.ec = "ok" /\ ~w2.again
      <3>1. w3 = Polled!ReceiveData(w2.client, o)
        BY <2>1 DEF Polled!ThenReceiveData
      <3>2. /\ Tidy(w2.client, last, exact) /\ Leads(c, w2.client)
            /\ w2.client.requests[1].status \in OpenedOn
        BY <1>3, <2>1 DEF Received
      <3>3. w2.client.requests # <<>> /\ w2.client \in Clients
        BY <1>2, <3>2
      <3> DEFINE v == Polled!ReceiveData(w2.client, o)
      <3>a. /\ IsStep(v) /\ Tidy(v.client, last, exact) /\ Leads(w2.client, v.client) /\ v.again = FALSE
            /\ v.ec = "ok" => v.client.requests[1].status \in Answered1
        BY <3>2, <3>3, ReceiveDataTidy
      <3> HIDE DEF v, w3
      <3>4. /\ IsStep(w3) /\ Tidy(w3.client, last, exact) /\ Leads(w2.client, w3.client) /\ w3.again = FALSE
            /\ w3.ec = "ok" => w3.client.requests[1].status \in Answered1
        BY <3>1, <3>a DEF v
      <3> HIDE DEF w3
      <3>5. Leads(c, w3.client)
        BY <1>0, <3>2, <3>3, <3>4, LeadsOn
      <3> QED BY <3>4, <3>5 DEF Received
    <2>2. CASE ~(w2.ec = "ok" /\ ~w2.again)
      <3>1. w3 = w2
        BY <2>2 DEF Polled!ThenReceiveData
      <3> QED BY <1>3, <2>2, <3>1
    <2> QED BY <2>1, <2>2
  <1> HIDE DEF w3
  <1>5. Received(c, w, last, exact) /\ (~w.again /\ w.ec = "ok" => w.client.requests[1].status \in Answered1)
    <2>1. CASE w3.ec = "would_block" \/ w3.again
      <3>1. w = w3
        BY <2>1 DEF Polled!Ended
      <3> QED BY <1>4, <3>1
    <2>2. CASE ~(w3.ec = "would_block" \/ w3.again)
      <3> DEFINE p == PostHandle(w3.client, 1, w3.ec = "error")
      <3>1. w = Polled!Went(p, w3.ec)
        BY <2>2, SamePostHandle DEF Polled!Ended
      <3>2. w.client = p /\ w.again = FALSE /\ w.ec = w3.ec /\ IsStep(w)
        BY <3>1 DEF IsStep, Polled!Went
      <3>3. Tidy(w3.client, last, exact) /\ Leads(c, w3.client)
        BY <1>4, <2>2 DEF Received
      <3>4. w3.client.requests # <<>> /\ w3.client \in Clients
        BY <1>2, <3>3
      <3>5. /\ Tidy(p, last, exact) /\ Leads(w3.client, p)
            /\ w3.ec # "error" => p.requests[1].status = w3.client.requests[1].status
        BY <3>3, <3>4, PostHandleTidy
      <3> HIDE DEF p, w
      <3>6. p \in Clients
        BY <3>5 DEF Tidy
      <3>7. Leads(c, p)
        BY <1>0, <3>3, <3>4, <3>5, <3>6, LeadsOn
      <3>8. w.ec = "ok" => w.client.requests[1].status \in Answered1
        BY <1>4, <2>2, <3>2, <3>5
      <3> QED BY <3>2, <3>5, <3>7, <3>8 DEF Received
    <2> QED BY <2>1, <2>2
  <1>6. Polled!ResumeFront(c, o) = w
    BY DEF Polled!ResumeFront, w1, w2, w3
  <1> HIDE DEF w
  <1> QED BY <1>5, <1>6

\* A call, or a part of one, that brought c to w: the only request is to be sent
\* again, or it went on; a yes is true.
Resumed(c, w, last, exact, pending) ==
    /\ IsStep(w)
    /\ w.again => Tidy(w.client, last, FALSE) /\ w.client.requests # <<>>
    /\ ~w.again =>
         /\ Tidy(w.client, last, exact) /\ Leads(c, w.client)
         /\ ~pending /\ w.ec = "ok" => w.client.requests[1].status \in Answered1

LEMMA LedClient ==
  ASSUME NEW c \in Clients, c.requests # <<>>, NEW d, NEW last, NEW exact, Tidy(d, last, exact), Leads(c, d)
  PROVE  d \in Clients /\ d.requests # <<>> /\ Places(d) = Places(c) /\ 1 \in Places(d)
  <1>1. d \in Clients /\ Len(d.requests) = Len(c.requests)
    BY DEF Tidy, Leads
  <1> QED BY <1>1, ClientTypes DEF Places

LEMMA ThenFrontTidy ==
  ASSUME NEW c \in Clients, c.requests # <<>>, NEW last, NEW exact, NEW w, IsStep(w), w.again = FALSE,
         Tidy(w.client, last, exact), Leads(c, w.client), NEW pending \in BOOLEAN, NEW o, IsOutcome(o)
  PROVE  Resumed(c, Polled!ThenFront(w, pending, o), last, exact, pending)
  <1> DEFINE d == w.client
             v == Polled!ThenFront(w, pending, o)
             p == PostHandle(d, 1, TRUE)
  <1>0. d \in Clients /\ d.requests # <<>> /\ Tidy(d, last, exact) /\ Leads(c, d)
    BY LedClient
  <1>1. Polled!Front(d) = d.requests[1]
    BY <1>0, PolledFront
  <1> HIDE DEF d
  <1>2. \/ v = w /\ (pending \/ d.requests[1].status \in Answered1)
        \/ v = Polled!Went(p, w.ec) /\ w.ec # "ok"
        \/ v = Polled!ResumeFront(d, o)
    BY <1>1, SamePostHandle DEF Polled!ThenFront, Answered1, d
  <1>3. CASE v = w /\ (pending \/ d.requests[1].status \in Answered1)
    BY <1>0, <1>3 DEF Resumed, d
  <1>4. CASE v = Polled!Went(p, w.ec) /\ w.ec # "ok"
    <2>1. v.client = p /\ v.ec # "ok" /\ v.again = FALSE /\ IsStep(v)
      BY <1>4 DEF Polled!Went, IsStep
    <2>2. Tidy(p, last, exact) /\ Leads(d, p) /\ p \in Clients
      BY <1>0, PostHandleTidy DEF Tidy
    <2> HIDE DEF p, v
    <2>3. Leads(c, p)
      BY <1>0, <2>2, LeadsOn
    <2> QED BY <2>1, <2>2, <2>3 DEF Resumed, v
  <1>5. CASE v = Polled!ResumeFront(d, o)
    <2> HIDE DEF v
    <2>1. /\ Received(d, v, last, exact)
          /\ ~v.again /\ v.ec = "ok" => v.client.requests[1].status \in Answered1
      BY <1>0, <1>5, ResumeFrontTidy
    <2>2. ~v.again => Leads(c, v.client)
      <3> SUFFICES ASSUME ~v.again PROVE Leads(c, v.client)
        OBVIOUS
      <3>1. Leads(d, v.client)
        BY <2>1 DEF Received
      <3> QED BY <1>0, <3>1, LeadsOn
    <2> QED BY <2>1, <2>2 DEF Received, Resumed, v
  <1> QED BY <1>2, <1>3, <1>4, <1>5

\* The request behind the one sent.
LEMMA ThenBehindTidy ==
  ASSUME NEW c \in Clients, c.requests # <<>>, NEW last, NEW exact, NEW w, ~w.again,
         NEW pending \in BOOLEAN, Resumed(c, w, last, exact, pending), NEW o, IsOutcome(o)
  PROVE  /\ Resumed(c, Polled!ResumeBehind(w, pending, o), last, exact, pending)
         /\ ~Polled!ResumeBehind(w, pending, o).again
  <1> DEFINE d == w.client
             v == Polled!ResumeBehind(w, pending, o)
             s == Polled!SendBehind(d, o)
             i == d.num_sent + 1
  <1>0. /\ Tidy(d, last, exact) /\ Leads(c, d) /\ IsStep(w)
        /\ ~pending /\ w.ec = "ok" => d.requests[1].status \in Answered1
    BY DEF Resumed
  <1>1. d \in Clients /\ d.requests # <<>> /\ 1 \in Places(d) /\ d.num_sent \in Nat /\ Len(d.requests) \in Nat
    <2>1. d \in Clients /\ d.requests # <<>> /\ 1 \in Places(d)
      BY <1>0, LedClient
    <2> QED BY <2>1, ClientTypes
  <1> HIDE DEF d
  <1>2. CASE ~Polled!Behind(d)
    <2>1. v = w
      BY <1>2 DEF Polled!ResumeBehind, d
    <2> QED BY <2>1
  <1>3. CASE Polled!Behind(d)
    <2>1. v = Polled!AnswerBehind(w, s, pending)
      BY <1>3 DEF Polled!ResumeBehind, d
    <2>2. v.client = s.client /\ v.again = FALSE /\ (~pending => v.ec = w.ec) /\ IsStep(v)
      BY <2>1 DEF Polled!AnswerBehind, Polled!Went, IsStep
    <2>3. i \in Places(d) /\ i <= d.num_sent + 1 /\ i # 1
      BY <1>1, <1>3 DEF Polled!Behind, Places
    <2>4. Tidy(s.client, last, exact) /\ Leads(d, s.client) /\ s.client.requests[1].status = d.requests[1].status
      <3>1. CASE d.broken_error # "ok"
        <4>1. s.client = d
          BY <3>1 DEF Polled!SendBehind, Polled!Went
        <4> QED BY <1>0, <1>1, <4>1, LeadsNot
      <3>2. CASE d.broken_error = "ok"
        <4>1. s = Polled!Send(d, i, o)
          BY <3>2 DEF Polled!SendBehind, Polled!FirstUnsent
        <4> HIDE DEF s, i
        <4>2. SentOn(d, i, s, last, exact)
          BY <1>0, <2>3, <4>1, SendTidy
        <4> QED BY <1>1, <2>3, <4>2 DEF SentOn
      <3> QED BY <3>1, <3>2
    <2> HIDE DEF s, v
    <2>5. s.client \in Clients
      BY <2>4 DEF Tidy
    <2>6. Leads(c, s.client)
      BY <1>0, <1>1, <2>4, <2>5, LeadsOn
    <2>7. Resumed(c, v, last, exact, pending)
      BY <1>0, <2>2, <2>4, <2>6 DEF Resumed
    <2> QED BY <2>2, <2>7 DEF v
  <1> QED BY <1>2, <1>3

LEMMA GetReadyTidy ==
  ASSUME NEW c \in Clients, c.requests # <<>>, NEW last, NEW exact, NEW w, ~w.again,
         NEW pending \in BOOLEAN, Resumed(c, w, last, exact, pending)
  PROVE  Resumed(c, Polled!GetReady(w), last, exact, pending)
  <1> DEFINE d == w.client
             e == [d EXCEPT !.status = "ready"]
             v == Polled!GetReady(w)
  <1>0. /\ Tidy(d, last, exact) /\ Leads(c, d) /\ IsStep(w)
        /\ ~pending /\ w.ec = "ok" => d.requests[1].status \in Answered1
    BY DEF Resumed
  <1>1. d \in Clients /\ d.requests # <<>>
    BY <1>0, LedClient
  <1>2. CASE ~(d.status = "established" /\ Polled!MayBeReady(d))
    <2>1. v = w
      BY <1>2 DEF Polled!GetReady
    <2> QED BY <2>1
  <1>3. CASE d.status = "established" /\ Polled!MayBeReady(d)
    <2>1. v = [w EXCEPT !.client.status = "ready"]
      BY <1>3 DEF Polled!GetReady
    <2>2. d.requests[1].status \in ReadyFronts
      <3>1. Polled!Front(d) = d.requests[1]
        BY <1>1, PolledFront
      <3> QED BY <1>3, <3>1 DEF Polled!MayBeReady, ReadyFronts
    <2> HIDE DEF v
    <2>3. v.client = e /\ v.ec = w.ec /\ v.again = w.again /\ IsStep(v)
      <3> DEFINE ec == w.ec
                 again == w.again
      <3>1. w = [client |-> d, ec |-> ec, again |-> again]
        BY <1>0 DEF IsStep
      <3> HIDE DEF d, ec, again
      <3>2. v = [client |-> e, ec |-> ec, again |-> again]
        BY <2>1, <3>1
      <3> HIDE DEF e
      <3>3. v.client = e /\ v.ec = ec /\ v.again = again /\ IsStep(v)
        BY <3>2 DEF IsStep
      <3> QED BY <3>3 DEF ec, again
    <2> HIDE DEF d
    <2>4. e \in Clients /\ e.requests = d.requests /\ e.num_sent = d.num_sent
      BY <1>1 DEF Clients, ConnectionStatus
    <2> HIDE DEF e
    <2>5. Tidy(e, last, exact) /\ Leads(d, e)
      BY <1>0, <2>2, <2>4, SameTidy
    <2>6. Leads(c, e)
      BY <1>0, <1>1, <2>4, <2>5, LeadsOn
    <2>7. Resumed(c, v, last, exact, pending)
      BY <1>0, <2>3, <2>4, <2>5, <2>6 DEF Resumed
    <2> QED BY <2>7 DEF v
  <1> QED BY <1>2, <1>3

\* resume(), up to a redirection.
LEMMA ResumeOnceTidy ==
  ASSUME NEW c, NEW last, NEW exact, Tidy(c, last, exact), c.requests # <<>>, NEW pending \in BOOLEAN,
         NEW w, w \in Polled!Outcomes(c, pending)
  PROVE  Resumed(c, w, last, exact, pending)
  <1>1. PICK in \in Polled!Inputs(c, pending) : w = Polled!ResumeOnce(c, pending, in)
    BY DEF Polled!Outcomes
  <1>2. /\ IsOutcome(in.front) /\ IsOutcome(in.behind)
        /\ in.connect \in {"ok", "would_block", "error"} /\ c \in Clients
    BY <1>1, OutcomeFacts DEF Tidy
  <1> DEFINE w1 == Polled!Connected(c, in.connect)
             w2 == Polled!ThenFront(w1, pending, in.front)
             w3 == Polled!ResumeBehind(w2, pending, in.behind)
  <1>3. /\ IsStep(w1) /\ Tidy(w1.client, last, exact) /\ Leads(c, w1.client) /\ w1.again = FALSE
        /\ w1.client.status \notin Established => w1.ec # "ok"
    BY <1>2, ConnectedTidy
  <1> HIDE DEF w1
  <1>4. Resumed(c, w2, last, exact, pending)
    BY <1>2, <1>3, ThenFrontTidy
  <1>5. w = IF w1.client.status \in Established THEN Polled!ThenBehind(w2, pending, in.behind) ELSE w1
    BY <1>1, SameSets DEF Polled!ResumeOnce, Polled!IfEstablished, w1
  <1> HIDE DEF w2
  <1>6. CASE w1.client.status \notin Established
    BY <1>3, <1>5, <1>6 DEF Resumed
  <1>7. CASE w1.client.status \in Established /\ w2.again
    <2>1. w = w2
      BY <1>5, <1>7 DEF Polled!ThenBehind
    <2> QED BY <1>4, <2>1
  <1>8. CASE w1.client.status \in Established /\ ~w2.again
    <2>1. w = Polled!GetReady(w3)
      BY <1>5, <1>8 DEF Polled!ThenBehind
    <2>2. Resumed(c, w3, last, exact, pending) /\ ~w3.again
      BY <1>2, <1>4, <1>8, ThenBehindTidy
    <2> HIDE DEF w3
    <2> QED BY <1>2, <2>1, <2>2, GetReadyTidy
  <1> QED BY <1>6, <1>7, <1>8

\* A call of resume(), a redirection and what follows included.
Called(c, last, pending, call) ==
    /\ redirected' \in Nat /\ Tidy(client', last, Exact') /\ UNCHANGED user
    /\ answer'.call = call /\ (~pending /\ answer'.ec = "ok" => IsYes(client'))
    /\ redirected' = redirected => Leads(c, client')

LEMMA ResumeTidy ==
  ASSUME NEW c, NEW last, redirected \in Nat, Tidy(c, last, Exact), c.requests # <<>>,
         NEW pending \in BOOLEAN, NEW call, Polled!Resume(c, pending, call)
  PROVE  Called(c, last, pending, call)
  <1>1. PICK w \in Polled!Outcomes(c, pending) :
          \/ Polled!Replies(call, w) /\ redirected' = redirected
          \/ /\ w.again /\ redirected' = redirected + 1
             /\ \E then \in Polled!Outcomes(w.client, FALSE) : Polled!Replies(call, then)
    BY DEF Polled!Resume
  <1>2. Resumed(c, w, last, Exact, pending)
    BY <1>1, ResumeOnceTidy
  <1>3. CASE Polled!Replies(call, w) /\ redirected' = redirected
    <2>1. /\ ~w.again /\ UNCHANGED user /\ client' = w.client /\ answer'.call = call /\ answer'.ec = w.ec
      BY <1>3 DEF Polled!Replies
    <2>2. /\ Tidy(client', last, Exact) /\ Leads(c, client')
          /\ ~pending /\ w.ec = "ok" => client'.requests[1].status \in Answered1
      BY <1>2, <2>1 DEF Resumed
    <2>3. c \in Clients
      BY DEF Tidy
    <2>4. client'.requests # <<>>
      BY <2>2, <2>3, LedClient
    <2>5. Exact' = Exact
      BY <1>3, <2>1 DEF Exact
    <2> QED BY <1>3, <2>1, <2>2, <2>4, <2>5 DEF Called, IsYes
  <1>4. CASE /\ w.again /\ redirected' = redirected + 1
             /\ \E then \in Polled!Outcomes(w.client, FALSE) : Polled!Replies(call, then)
    <2>1. Tidy(w.client, last, FALSE) /\ w.client.requests # <<>>
      BY <1>2, <1>4 DEF Resumed
    <2>2. PICK then \in Polled!Outcomes(w.client, FALSE) : Polled!Replies(call, then)
      BY <1>4
    <2>3. Resumed(w.client, then, last, FALSE, FALSE)
      BY <2>1, <2>2, ResumeOnceTidy
    <2>4. /\ ~then.again /\ UNCHANGED user /\ client' = then.client /\ answer'.call = call /\ answer'.ec = then.ec
      BY <2>2 DEF Polled!Replies
    <2>5. /\ Tidy(client', last, FALSE) /\ Leads(w.client, client')
          /\ then.ec = "ok" => client'.requests[1].status \in Answered1
      BY <2>3, <2>4 DEF Resumed
    <2>6. w.client \in Clients
      BY <2>1 DEF Tidy
    <2>7. client'.requests # <<>>
      BY <2>1, <2>5, <2>6, LedClient
    <2>8. redirected' \in Nat /\ redirected' # redirected /\ Exact' = FALSE
      BY <1>4 DEF Exact
    <2> QED BY <2>4, <2>5, <2>7, <2>8 DEF Called, IsYes
  <1> QED BY <1>1, <1>3, <1>4

\* post_reqeust: a request is put behind those of c, which asks for k.
PlacedBehind(c, d, last) ==
    /\ d.requests # <<>> /\ Len(d.requests) = Len(c.requests) + 1
    /\ d.requests[Len(c.requests) + 1].id = last
    /\ \A j \in Places(c) : d.requests[j] = c.requests[j]

Put(c, id, is_fetch, k) ==
    [Appended(c, NewRequest(id, is_fetch), k) EXCEPT
        !.status = IF @ = "ready" THEN "established" ELSE @]

LEMMA PutTidy ==
  ASSUME NEW c, NEW last \in Nat, NEW exact, Tidy(c, last, exact),
         NEW is_fetch \in BOOLEAN, NEW k \in BOOLEAN
  PROVE  LET d == Put(c, last + 1, is_fetch, k) IN
         Tidy(d, last + 1, exact) /\ PlacedBehind(c, d, last + 1)
  <1> DEFINE r == NewRequest(last + 1, is_fetch)
             n == Len(c.requests)
             a == Appended(c, r, k)
             d == [a EXCEPT !.status = IF @ = "ready" THEN "established" ELSE @]
  <1>0. c \in Clients /\ n \in Nat /\ c.num_sent \in Nat
    <2>1. c \in Clients
      BY DEF Tidy
    <2> QED BY <2>1, ClientTypes
  <1>1. r \in Requests /\ r.id = last + 1 /\ r.status = "send_pending"
    BY DEF NewRequest, Requests, RequestStatus, Callbacks
  <1>2. Put(c, last + 1, is_fetch, k) = d
    BY DEF Put
  <1> HIDE DEF r
  <1>4. /\ a \in Clients /\ a.status = c.status /\ a.num_sent = c.num_sent
        /\ Len(a.requests) = n + 1 /\ Places(a) = Places(c) \cup {n + 1} /\ n + 1 \notin Places(c)
        /\ n + 1 \in Nat /\ n + 1 >= 1
        /\ a.requests[n + 1] = r /\ \A j \in Places(c) : a.requests[j] = c.requests[j]
    BY <1>0, <1>1, AppendFields
  <1> HIDE DEF a
  <1>5. d \in Clients /\ d.requests = a.requests /\ d.num_sent = a.num_sent /\ d.status # "ready"
    BY <1>4 DEF Clients, ConnectionStatus
  <1> HIDE DEF d
  <1>6. d.requests # <<>>
    <2>1. Len(d.requests) # 0
      BY <1>0, <1>4, <1>5
    <2> QED BY <1>5, <2>1, ClientTypes
  <1>7. /\ Places(d) = Places(c) \cup {n + 1} /\ d.requests[n + 1] = r
        /\ \A j \in Places(c) : d.requests[j] = c.requests[j]
    BY <1>4, <1>5 DEF Places
  <1>8. InOrder(d, last + 1)
    <2>1. ASSUME NEW j \in Places(c) PROVE c.requests[j].id \in 1 .. last /\ j < n + 1
      BY <1>0 DEF Tidy, InOrder, Places
    <2>2. last + 1 \in 1 .. last + 1 /\ \A x \in 1 .. last : x \in 1 .. last + 1 /\ x < last + 1
      OBVIOUS
    <2>3. \A j \in Places(d) : d.requests[j].id \in 1 .. last + 1
      BY <1>1, <1>7, <2>1, <2>2
    <2>4. ASSUME NEW i \in Places(d), NEW j \in Places(d), i < j
          PROVE  d.requests[i].id < d.requests[j].id
      <3>1. i \in Places(c)
        <4> SUFFICES ASSUME i = n + 1 PROVE FALSE
          BY <1>7
        <4>1. j <= n + 1 /\ j \in Nat
          BY <1>0, <1>4, <1>7, <2>4 DEF Places
        <4> QED BY <1>0, <2>4, <4>1
      <3>2. CASE j \in Places(c)
        BY <1>7, <2>4, <3>1, <3>2 DEF Tidy, InOrder
      <3>3. CASE j = n + 1
        BY <1>1, <1>7, <2>1, <2>2, <3>1, <3>3
      <3> QED BY <1>7, <3>2, <3>3
    <2> QED BY <2>3, <2>4 DEF InOrder
  <1>9. Counts(d)
    <2>1. ASSUME NEW j \in Places(d)
          PROVE  /\ j > d.num_sent => d.requests[j].status \in Unsent
                 /\ j > d.num_sent + 1 => d.requests[j].status = "send_pending"
      <3>1. CASE j \in Places(c)
        BY <1>4, <1>5, <1>7, <3>1 DEF Tidy, Counts
      <3>2. CASE j = n + 1
        BY <1>1, <1>7, <3>2 DEF Unsent
      <3> QED BY <1>7, <3>1, <3>2
    <2> QED BY <2>1 DEF Counts
  <1>10. ASSUME exact PROVE CountsExactly(d)
    <2>1. /\ c.num_sent <= n
          /\ \A j \in Places(c) : j <= c.num_sent => c.requests[j].status \notin Unsent
      BY <1>10 DEF Tidy, CountsExactly
    <2>2. ~(n + 1 <= c.num_sent) /\ c.num_sent <= n + 1
      BY <1>0, <2>1
    <2>3. d.num_sent <= Len(d.requests)
      BY <1>4, <1>5, <2>2
    <2>4. \A j \in Places(d) : j <= d.num_sent => d.requests[j].status \notin Unsent
      BY <1>4, <1>5, <1>7, <2>1, <2>2
    <2> QED BY <2>3, <2>4 DEF CountsExactly
  <1>11. \A j \in Places(d) : FitsKind(d.requests[j])
    BY <1>1, <1>7 DEF Tidy, FitsKind
  <1>12. Tidy(d, last + 1, exact)
    BY <1>5, <1>8, <1>9, <1>10, <1>11 DEF Tidy, ReadyInTime
  <1>13. PlacedBehind(c, d, last + 1)
    BY <1>1, <1>4, <1>5, <1>6, <1>7 DEF PlacedBehind
  <1> QED BY <1>2, <1>12, <1>13

\* A finished fetch that is posted over leaves its count behind.
Over(c) == [c EXCEPT !.status = "closed", !.broken_error = "ok", !.requests = <<>>]

LEMMA OverTidy ==
  ASSUME NEW c, NEW last, NEW exact, Tidy(c, last, exact)
  PROVE  Tidy(Over(c), last, FALSE) /\ Over(c).requests = <<>>
  <1> DEFINE e == Over(c)
  <1>1. c \in Clients
    BY DEF Tidy
  <1>2. e \in Clients /\ e.requests = <<>>
    <2>1. <<>> \in Seq(Requests)
      OBVIOUS
    <2> QED BY <1>1, <2>1 DEF Over, Clients, ConnectionStatus
  <1> HIDE DEF e
  <1>3. Places(e) = {}
    BY <1>2 DEF Places
  <1>4. Tidy(e, last, FALSE)
    BY <1>2, <1>3 DEF Tidy, InOrder, Counts, ReadyInTime
  <1> QED BY <1>2, <1>4 DEF e

\* What a request is put behind: the requests that are there, or none.
LEMMA PostedTidy ==
  ASSUME NEW c, NEW last \in Nat, NEW exact, Tidy(c, last, exact), ReusesFetch(c) => exact = FALSE,
         NEW is_fetch \in BOOLEAN, NEW keep_alive \in BOOLEAN
  PROVE  LET d == PostRequest(c, last + 1, is_fetch, keep_alive) IN
         /\ Tidy(d, last + 1, exact)
         /\ \E e \in Clients : (e = c \/ e.requests = <<>>) /\ PlacedBehind(e, d, last + 1)
  <1> DEFINE d == PostRequest(c, last + 1, is_fetch, keep_alive)
             k == keep_alive /\ (c.is_keep_alive \/ c.requests = <<>>)
             e == Over(c)
             r == NewRequest(last + 1, is_fetch)
  <1>0. c \in Clients /\ c.is_keep_alive \in BOOLEAN
    <2>1. c \in Clients
      BY DEF Tidy
    <2> QED BY <2>1 DEF Clients
  <1>1. CASE ~ReusesFetch(c)
    <2>1. d = Put(c, last + 1, is_fetch, k)
      BY <1>0, <1>1 DEF PostRequest, Put, Appended, Clients
    <2>2. k \in BOOLEAN
      OBVIOUS
    <2> HIDE DEF d, k
    <2>3. Tidy(d, last + 1, exact) /\ PlacedBehind(c, d, last + 1)
      BY <2>1, <2>2, PutTidy
    <2> QED BY <1>0, <2>3 DEF d
  <1>2. CASE ReusesFetch(c)
    <2>1. Tidy(e, last, FALSE) /\ e.requests = <<>>
      BY OverTidy
    <2>2. e \in Clients /\ e.is_keep_alive \in BOOLEAN
      <3> HIDE DEF e
      <3>1. e \in Clients
        BY <2>1 DEF Tidy
      <3> QED BY <3>1 DEF Clients
    <2>3. d = Put(e, last + 1, is_fetch, e.is_keep_alive)
      <3>1. d = [e EXCEPT !.requests = Append(@, r), !.status = IF @ = "ready" THEN "established" ELSE @]
        BY <1>2 DEF PostRequest, Over
      <3> HIDE DEF e, d, r
      <3>2. d = [Appended(e, r, e.is_keep_alive) EXCEPT
                    !.status = IF @ = "ready" THEN "established" ELSE @]
        BY <2>2, <3>1 DEF Appended, Clients
      <3> QED BY <3>2 DEF Put, r
    <2> HIDE DEF d, e
    <2>4. Tidy(d, last + 1, FALSE) /\ PlacedBehind(e, d, last + 1)
      BY <2>1, <2>2, <2>3, PutTidy
    <2> QED BY <1>2, <2>1, <2>2, <2>4 DEF d
  <1> QED BY <1>1, <1>2

\* handle_next up to its call of resume: the front request is finished and gone.
LEMMA FinishedFront ==
  ASSUME NEW c \in Clients, c.requests # <<>>
  PROVE  LET d == FinishFront(c) IN
         /\ d \in Clients /\ d.status \in {c.status, "broken"}
         /\ Marked(c, d, 1, "finished", c.requests[1].resp)
         /\ d.num_sent = (IF c.requests[1].status \in Unsent THEN c.num_sent + 1 ELSE c.num_sent)
  <1> DEFINE d == FinishFront(c)
             p == PostHandle(c, 1, TRUE)
  <1>0. 1 \in Places(c)
    BY ClientTypes DEF Places
  <1>1. CASE c.requests[1].status \in Answered1
    <2>1. /\ d \in Clients /\ d.status \in {c.status, "broken"}
          /\ Marked(c, d, 1, "finished", c.requests[1].resp) /\ d.num_sent = c.num_sent
      BY <1>1, FinishFrontFields
    <2>2. c.requests[1].status \notin Unsent
      BY <1>1 DEF Answered1, Unsent
    <2> HIDE DEF d
    <2> QED BY <2>1, <2>2 DEF d
  <1>2. CASE c.requests[1].status \notin Answered1
    <2>1. d = p
      BY <1>2, FrontIsFirst DEF FinishFront, Answered1
    <2>2. /\ p \in Clients /\ p.status \in {c.status, "broken"}
          /\ Marked(c, p, 1, "finished", c.requests[1].resp) /\ p.num_sent = CountFailed(c, 1)
      BY <1>0, PostHandleFields
    <2> HIDE DEF d, p
    <2> QED BY <2>1, <2>2 DEF CountFailed, d
  <1> QED BY <1>1, <1>2

Popped(c, e) ==
    /\ Len(e.requests) = Len(c.requests) - 1
    /\ \A j \in Places(e) :
         /\ j \in Nat /\ j + 1 \in Places(c)
         /\ e.requests[j].id = c.requests[j + 1].id
         /\ e.requests[j].status = c.requests[j + 1].status

LEMMA PoppedTidy ==
  ASSUME NEW c, NEW last, NEW exact, Tidy(c, last, exact), c.requests # <<>>
  PROVE  Tidy(PopFront(c), last, exact) /\ Popped(c, PopFront(c))
  <1> DEFINE d == FinishFront(c)
             q == Tail(d.requests)
             e == PopFront(c)
  <1>0. /\ c \in Clients /\ 1 \in Places(c) /\ c.num_sent \in Nat /\ Len(c.requests) \in Nat
        /\ Len(c.requests) # 0 /\ c.requests[1].status \in RequestStatus
    <2>1. c \in Clients
      BY DEF Tidy
    <2>2. 1 \in Places(c)
      BY <2>1, ClientTypes DEF Places
    <2> QED BY <2>1, <2>2, ClientTypes
  <1>1. /\ d \in Clients /\ d.status \in {c.status, "broken"}
        /\ Marked(c, d, 1, "finished", c.requests[1].resp)
        /\ d.num_sent = (IF c.requests[1].status \in Unsent THEN c.num_sent + 1 ELSE c.num_sent)
    BY <1>0, FinishedFront
  <1> HIDE DEF d
  <1>2. Tidy(d, last, exact) /\ d.requests[1].status = "finished"
    <2>1. "finished" \in Sequel[c.requests[1].status] /\ "finished" \notin Unsent
      BY <1>0, SequelCases DEF Unsent
    <2>2. d.status = "ready" => c.status = "ready" /\ (1 = 1 => "finished" \in ReadyFronts)
      BY <1>1 DEF ReadyFronts
    <2>3. 1 <= c.num_sent + 1
      BY <1>0
    <2>4. d.num_sent = (IF c.requests[1].status \in Unsent /\ "finished" \notin Unsent
                          THEN c.num_sent + 1 ELSE c.num_sent)
      BY <1>1, <2>1
    <2>5. Tidy(d, last, exact) /\ Leads(c, d)
      BY <1>0, <1>1, <2>1, <2>2, <2>3, <2>4, MarkTidy
    <2> QED BY <1>0, <1>1, <2>5 DEF Marked
  <1>3. /\ d.requests \in Seq(Requests) /\ Len(d.requests) = Len(c.requests) /\ d.requests # <<>>
        /\ d.num_sent \in Nat /\ Places(d) = Places(c)
    <2>1. Len(d.requests) = Len(c.requests) /\ d.requests \in Seq(Requests)
      BY <1>1 DEF Marked
    <2> QED BY <1>0, <1>1, <2>1, ClientTypes DEF Places
  <1>4. d.num_sent >= 1
    <2> SUFFICES ASSUME ~(d.num_sent >= 1) PROVE FALSE
      OBVIOUS
    <2>1. 1 > d.num_sent
      BY <1>3
    <2>2. d.requests[1].status \in Unsent
      BY <1>0, <1>2, <1>3, <2>1 DEF Tidy, Counts
    <2> QED BY <1>2, <2>2 DEF Unsent
  <1>5. /\ q \in Seq(Requests) /\ Len(q) = Len(d.requests) - 1
        /\ \A j \in 1 .. Len(q) : q[j] = d.requests[j + 1]
    BY <1>3
  <1> HIDE DEF q
  <1>6. /\ e \in Clients /\ e.requests = q /\ e.num_sent = d.num_sent - 1
        /\ e.status = "ready" => ~(Len(d.requests) > 1)
    <2>1. e = [d EXCEPT !.requests = Tail(@), !.num_sent = @ - 1,
              !.status = IF @ = "ready" /\ Len(d.requests) > 1 THEN "established" ELSE @]
      BY DEF PopFront, Uncount, d
    <2>2. d.num_sent - 1 \in Nat
      BY <1>3, <1>4
    <2> HIDE DEF e
    <2> QED BY <1>1, <1>5, <2>1, <2>2 DEF Clients, ConnectionStatus, q
  <1> HIDE DEF e
  <1>7. ASSUME NEW j \in Places(e)
        PROVE  /\ j \in Nat /\ j >= 1 /\ j + 1 \in Places(c) /\ j + 1 # 1
               /\ e.requests[j] = d.requests[j + 1]
    BY <1>0, <1>3, <1>5, <1>6 DEF Places
  <1>8. Popped(c, e)
    <2>1. Len(e.requests) = Len(c.requests) - 1
      BY <1>3, <1>5, <1>6
    <2>2. ASSUME NEW j \in Places(e)
          PROVE  /\ e.requests[j].id = c.requests[j + 1].id
                 /\ e.requests[j].status = c.requests[j + 1].status
      BY <1>1, <1>7 DEF Marked
    <2> QED BY <1>7, <2>1, <2>2 DEF Popped
  <1>9. InOrder(e, last)
    <2>1. ASSUME NEW i \in Places(e), NEW j \in Places(e), i < j
          PROVE  e.requests[i].id < e.requests[j].id
      <3>1. i + 1 < j + 1
        BY <1>7, <2>1
      <3> QED BY <1>2, <1>3, <1>7, <3>1 DEF Tidy, InOrder
    <2>2. \A j \in Places(e) : e.requests[j].id \in 1 .. last
      BY <1>2, <1>3, <1>7 DEF Tidy, InOrder
    <2> QED BY <2>1, <2>2 DEF InOrder
  <1>10. Counts(e)
    <2>1. ASSUME NEW j \in Places(e)
          PROVE  /\ j > e.num_sent => e.requests[j].status \in Unsent
                 /\ j > e.num_sent + 1 => e.requests[j].status = "send_pending"
      <3>1. /\ j > e.num_sent => j + 1 > d.num_sent
            /\ j > e.num_sent + 1 => j + 1 > d.num_sent + 1
        BY <1>3, <1>6, <1>7
      <3> QED BY <1>2, <1>3, <1>7, <3>1 DEF Tidy, Counts
    <2> QED BY <2>1 DEF Counts
  <1>11. ASSUME exact PROVE CountsExactly(e)
    <2>1. CountsExactly(d)
      BY <1>2, <1>11 DEF Tidy
    <2>2. e.num_sent <= Len(e.requests)
      BY <1>0, <1>3, <1>5, <1>6, <2>1 DEF CountsExactly
    <2>3. ASSUME NEW j \in Places(e), j <= e.num_sent PROVE e.requests[j].status \notin Unsent
      <3>1. j + 1 <= d.num_sent
        BY <1>3, <1>6, <1>7, <2>3
      <3> QED BY <1>3, <1>7, <2>1, <3>1 DEF CountsExactly
    <2> QED BY <2>2, <2>3 DEF CountsExactly
  <1>12. \A j \in Places(e) : FitsKind(e.requests[j])
    BY <1>2, <1>3, <1>7 DEF Tidy
  <1>13. ReadyInTime(e)
    <2> SUFFICES ASSUME e.status = "ready" PROVE e.requests = <<>>
      BY DEF ReadyInTime
    <2> DEFINE n == Len(d.requests)
    <2>1. n \in Nat /\ n # 0 /\ ~(n > 1) /\ Len(e.requests) = n - 1
      BY <1>0, <1>3, <1>5, <1>6
    <2> HIDE DEF n
    <2>2. n = 1
      BY <2>1
    <2>3. Len(e.requests) = 0
      BY <2>1, <2>2
    <2> QED BY <1>6, <2>3, ClientTypes
  <1> QED BY <1>6, <1>8, <1>9, <1>10, <1>11, <1>12, <1>13 DEF Tidy, e

\* close() of a client without requests.
LEMMA ClosedTidy ==
  ASSUME NEW c, NEW last, NEW exact, Tidy(c, last, exact), c.requests = <<>>
  PROVE  Tidy(Closed(c), last, exact) /\ Closed(c).requests = <<>>
  <1> DEFINE b == CloseSocket(c)
             d == [b EXCEPT !.status = "closed", !.broken_error = "ok"]
  <1>0. c \in Clients
    BY DEF Tidy
  <1>1. b \in Clients /\ b.requests = c.requests /\ b.num_sent = c.num_sent
    BY <1>0, CloseSocketFields
  <1> HIDE DEF b
  <1>2. d \in Clients /\ d.requests = <<>> /\ d.num_sent = c.num_sent
    BY <1>1 DEF Clients, ConnectionStatus
  <1>3. Closed(c) = d
    BY DEF Closed, b
  <1> HIDE DEF d
  <1>4. Tidy(d, last, exact)
    BY <1>2, SameTidy
  <1> QED BY <1>2, <1>3, <1>4

-----------------------------------------------------------------------------
(* The calls of the user of a polled client.                                *)

\* The requests that are still there in d are as far as in c, or further.
OnFrom(c, d) ==
    \A i \in Places(c), j \in Places(d) :
        c.requests[i].id = d.requests[j].id
            => d.requests[j].status \in Sequel[c.requests[i].status]

LEMMA OnFromLeads ==
  ASSUME NEW c, NEW last, NEW exact, Tidy(c, last, exact), NEW d, Leads(c, d)
  PROVE  OnFrom(c, d)
  <1> SUFFICES ASSUME NEW i \in Places(c), NEW j \in Places(d), c.requests[i].id = d.requests[j].id
               PROVE  d.requests[j].status \in Sequel[c.requests[i].status]
    BY DEF OnFrom
  <1>1. j \in Places(c) /\ c \in Clients
    BY DEF Leads, Places, Tidy
  <1>2. d.requests[j].id = c.requests[j].id /\ d.requests[j].status \in Sequel[c.requests[j].status]
    BY <1>1 DEF Leads
  <1>3. i \in Nat /\ j \in Nat /\ c.requests[i].id \in Nat /\ c.requests[j].id \in Nat
    BY <1>1, ClientTypes DEF Places
  <1>4. i = j
    BY <1>1, <1>2, <1>3 DEF Tidy, InOrder
  <1> QED BY <1>2, <1>4

LEMMA OnFromPosted ==
  ASSUME NEW c, NEW last \in Nat, NEW exact, Tidy(c, last, exact),
         NEW p \in Clients, PlacedBehind(c, p, last + 1), NEW d, Leads(p, d)
  PROVE  OnFrom(c, d)
  <1> SUFFICES ASSUME NEW i \in Places(c), NEW j \in Places(d), c.requests[i].id = d.requests[j].id
               PROVE  d.requests[j].status \in Sequel[c.requests[i].status]
    BY DEF OnFrom
  <1>1. c \in Clients /\ Len(c.requests) \in Nat
    BY ClientTypes DEF Tidy
  <1>2. j \in Places(p) /\ Len(p.requests) = Len(c.requests) + 1
    BY DEF Leads, Places, PlacedBehind
  <1>3. d.requests[j].id = p.requests[j].id /\ d.requests[j].status \in Sequel[p.requests[j].status]
    BY <1>2 DEF Leads
  <1>4. i \in Nat /\ j \in Nat /\ c.requests[i].id \in 1 .. last
    BY <1>1, <1>2 DEF Places, Tidy, InOrder
  <1>5. j \in Places(c)
    <2>1. j = Len(c.requests) + 1 => p.requests[j].id = last + 1
      BY DEF PlacedBehind
    <2>2. j # Len(c.requests) + 1
      BY <1>3, <1>4, <2>1
    <2> QED BY <1>1, <1>2, <1>4, <2>2 DEF Places
  <1>6. p.requests[j] = c.requests[j]
    BY <1>5 DEF PlacedBehind
  <1>7. i = j
    BY <1>3, <1>4, <1>5, <1>6 DEF Tidy, InOrder
  <1> QED BY <1>3, <1>6, <1>7

\* The requests before are gone, with another posted behind them.
LEMMA OnFromNothing ==
  ASSUME NEW c, NEW last \in Nat, NEW exact, Tidy(c, last, exact),
         NEW e \in Clients, e.requests = <<>>, NEW p \in Clients, PlacedBehind(e, p, last + 1),
         NEW d, Leads(p, d)
  PROVE  OnFrom(c, d)
  <1> SUFFICES ASSUME NEW i \in Places(c), NEW j \in Places(d) PROVE c.requests[i].id # d.requests[j].id
    BY DEF OnFrom
  <1>1. Len(e.requests) = 0
    OBVIOUS
  <1>2. Len(p.requests) = 1 /\ p.requests[1].id = last + 1
    BY <1>1 DEF PlacedBehind
  <1>3. j = 1 /\ 1 \in Places(p)
    BY <1>2 DEF Leads, Places
  <1>4. d.requests[j].id = last + 1
    BY <1>2, <1>3 DEF Leads
  <1>5. c.requests[i].id \in 1 .. last
    BY DEF Tidy, InOrder
  <1> QED BY <1>4, <1>5

LEMMA OnFromPopped ==
  ASSUME NEW c, NEW last, NEW exact, Tidy(c, last, exact), NEW d, Popped(c, d)
  PROVE  OnFrom(c, d)
  <1> SUFFICES ASSUME NEW i \in Places(c), NEW j \in Places(d), c.requests[i].id = d.requests[j].id
               PROVE  d.requests[j].status \in Sequel[c.requests[i].status]
    BY DEF OnFrom
  <1>1. /\ j + 1 \in Places(c) /\ d.requests[j].id = c.requests[j + 1].id
        /\ d.requests[j].status = c.requests[j + 1].status
    BY DEF Popped
  <1>2. /\ i \in Nat /\ j + 1 \in Nat /\ c.requests[i].id \in Nat /\ c.requests[j + 1].id \in Nat
        /\ c.requests[i].status \in RequestStatus
    BY <1>1, ClientTypes DEF Places, Tidy
  <1>3. i = j + 1
    BY <1>1, <1>2 DEF Tidy, InOrder
  <1> QED BY <1>1, <1>2, <1>3, SequelCases

\* What a step of a polled client is to keep.
Keeps == PInv' /\ (redirected' = redirected => OnFrom(client, client'))

\* Client c, of which the request was asked, and what it was put behind.
Behind1(c, e) == e = c \/ e.requests = <<>>

LEMMA PostKeepsPolled ==
  ASSUME PInv, NEW c, Tidy(c, req_id, Exact), NEW is_fetch \in BOOLEAN,
         NEW call \in {"open", "fetch", "again"}, Polled!Post(c, is_fetch, call)
  PROVE  /\ PInv'
         /\ \E e, p \in Clients : /\ Behind1(c, e) /\ PlacedBehind(e, p, req_id + 1)
                                  /\ redirected' = redirected => Leads(p, client')
  <1>1. /\ req_id \in Nat /\ redirected \in Nat /\ req_id' = req_id + 1
        /\ ReusesFetch(c) => user.reuses
    BY SamePost DEF PInv, Polled!Post, Polled!Room
  <1>2. PICK keep_alive \in user.keep_alives :
          LET p == Polled!PostRequest(c, req_id + 1, is_fetch, keep_alive)
          IN  Polled!Resume(p, Len(p.requests) > 1, call)
    BY <1>1 DEF Polled!Post
  <1>a. keep_alive \in BOOLEAN
    BY <1>2 DEF PInv, Uses
  <1> DEFINE p == PostRequest(c, req_id + 1, is_fetch, keep_alive)
  <1>3. Polled!PostRequest(c, req_id + 1, is_fetch, keep_alive) = p
    BY SamePost
  <1>4. /\ Tidy(p, req_id + 1, Exact)
        /\ \E e \in Clients : Behind1(c, e) /\ PlacedBehind(e, p, req_id + 1)
    <2>1. ReusesFetch(c) => Exact = FALSE
      BY <1>1 DEF Exact
    <2> QED BY <1>1, <1>a, <2>1, PostedTidy DEF Behind1
  <1> HIDE DEF p
  <1> DEFINE pending == Len(p.requests) > 1
  <1>5. Polled!Resume(p, pending, call)
    BY <1>2, <1>3
  <1>6. p.requests # <<>> /\ p \in Clients
    BY <1>4 DEF PlacedBehind, Tidy
  <1>7. pending \in BOOLEAN
    OBVIOUS
  <1> HIDE DEF pending
  <1>8. Called(p, req_id + 1, pending, call)
    BY <1>1, <1>4, <1>5, <1>6, <1>7, ResumeTidy
  <1>9. PInv'
    BY <1>1, <1>8 DEF Called, PInv
  <1> QED BY <1>4, <1>6, <1>8, <1>9 DEF Called

LEMMA OpenKeeps ==
  ASSUME PInv, Polled!Open \/ Polled!Fetch
  PROVE  Keeps
  <1>1. PICK is_fetch \in BOOLEAN, call \in {"open", "fetch", "again"} : Polled!Post(client, is_fetch, call)
    BY DEF Polled!Open, Polled!Fetch
  <1>2. Tidy(client, req_id, Exact) /\ req_id \in Nat
    BY DEF PInv
  <1>3. /\ PInv'
        /\ \E e, p \in Clients : /\ Behind1(client, e) /\ PlacedBehind(e, p, req_id + 1)
                                 /\ redirected' = redirected => Leads(p, client')
    BY <1>1, <1>2, PostKeepsPolled
  <1>4. ASSUME redirected' = redirected PROVE OnFrom(client, client')
    <2>1. PICK e \in Clients, p \in Clients :
            Behind1(client, e) /\ PlacedBehind(e, p, req_id + 1) /\ Leads(p, client')
      BY <1>3, <1>4
    <2>2. CASE e = client
      BY <1>2, <2>1, <2>2, OnFromPosted
    <2>3. CASE e.requests = <<>>
      BY <1>2, <2>1, <2>3, OnFromNothing
    <2> QED BY <2>1, <2>2, <2>3 DEF Behind1
  <1> QED BY <1>3, <1>4 DEF Keeps

LEMMA OneIsSome ==
  ASSUME NEW s, Len(s) = 1
  PROVE  s # <<>> /\ 1 \in 1 .. Len(s)
  <1>1. s # <<>>
    OBVIOUS
  <1>2. 1 \in 1 .. Len(s)
    <2>1. 1 \in 1 .. 1
      OBVIOUS
    <2> QED BY <2>1
  <1> QED BY <1>1, <1>2

LEMMA LastPopped ==
  ASSUME NEW c, NEW last, NEW exact, Tidy(c, last, exact), Len(c.requests) = 1
  PROVE  LET e == Closed(PopFront(c)) IN
         Tidy(e, last, exact) /\ e.requests = <<>> /\ Popped(c, e)
  <1> DEFINE b == PopFront(c)
             e == Closed(b)
  <1>1. c.requests # <<>>
    BY OneIsSome
  <1>2. Tidy(b, last, exact) /\ Popped(c, b)
    BY <1>1, PoppedTidy
  <1> HIDE DEF b
  <1>3. b.requests = <<>>
    <2>1. Len(b.requests) = 0 /\ b \in Clients
      BY <1>2 DEF Popped, Tidy
    <2> QED BY <2>1, ClientTypes
  <1>4. Tidy(e, last, exact) /\ e.requests = <<>>
    BY <1>2, <1>3, ClosedTidy
  <1> HIDE DEF e
  <1>5. Popped(c, e)
    BY <1>2, <1>3, <1>4 DEF Popped, Places
  <1> QED BY <1>4, <1>5 DEF e, b

LEMMA AgainKeeps ==
  ASSUME PInv, Polled!Again
  PROVE  Keeps
  <1> DEFINE e == Closed(PopFront(client))
  <1>1. Len(client.requests) = 1 /\ Tidy(client, req_id, Exact) /\ client \in Clients /\ req_id \in Nat
    BY DEF Polled!Again, PInv, Tidy
  <1>2. Polled!Closed(Polled!PopFront(client)) = e
    BY SameClosed, SamePopFront
  <1>3. Tidy(e, req_id, Exact) /\ e.requests = <<>>
    BY <1>1, LastPopped
  <1>4. Polled!Front(client).is_fetch \in BOOLEAN
    <2>1. client.requests # <<>> /\ 1 \in Places(client)
      BY <1>1, OneIsSome DEF Places
    <2>2. client.requests[1].is_fetch \in BOOLEAN
      BY <1>1, <2>1, ClientTypes
    <2> QED BY <2>1, <2>2, PolledFront
  <1> HIDE DEF e
  <1>5. Polled!Post(e, Polled!Front(client).is_fetch, "again")
    BY <1>2 DEF Polled!Again
  <1>6. /\ PInv'
        /\ \E b, p \in Clients : /\ Behind1(e, b) /\ PlacedBehind(b, p, req_id + 1)
                                 /\ redirected' = redirected => Leads(p, client')
    BY <1>3, <1>4, <1>5, PostKeepsPolled
  <1>7. e \in Clients
    BY <1>3 DEF Tidy
  <1>8. ASSUME redirected' = redirected PROVE OnFrom(client, client')
    <2>1. PICK b \in Clients, p \in Clients :
            Behind1(e, b) /\ PlacedBehind(b, p, req_id + 1) /\ Leads(p, client')
      BY <1>6, <1>8
    <2>2. b.requests = <<>>
      BY <1>3, <2>1 DEF Behind1
    <2> QED BY <1>1, <2>1, <2>2, OnFromNothing
  <1> QED BY <1>6, <1>8 DEF Keeps

LEMMA AskKeeps ==
  ASSUME PInv, Polled!IsOpen \/ Polled!IsFetch
  PROVE  Keeps
  <1>1. /\ client.requests # <<>> /\ req_id' = req_id /\ req_id \in Nat /\ redirected \in Nat
        /\ Tidy(client, req_id, Exact) /\ client \in Clients
    BY DEF Polled!IsOpen, Polled!IsFetch, PInv, Tidy
  <1>2. ASSUME NEW call \in {"is_open", "is_fetch"}, Polled!Resume(client, FALSE, call) PROVE Keeps
    <2>1. Called(client, req_id, FALSE, call)
      BY <1>1, <1>2, ResumeTidy
    <2>2. PInv'
      BY <1>1, <1>2, <2>1 DEF Called, PInv
    <2>3. redirected' = redirected => OnFrom(client, client')
      BY <1>1, <2>1, OnFromLeads DEF Called
    <2> QED BY <2>2, <2>3 DEF Keeps
  <1>3. ASSUME client.status = "ready", answer' = [call |-> "is_open", ec |-> "ok"],
               UNCHANGED <<user, client, redirected>>, ~Polled!Front(client).is_fetch
        PROVE  Keeps
    <2>1. client.requests[1].status \in ReadyFronts /\ 1 \in Places(client)
      BY <1>1, <1>3, ClientTypes DEF Tidy, ReadyInTime, Places
    <2>2. ~client.requests[1].is_fetch
      BY <1>1, <1>3, PolledFront
    <2>3. IsYes(client)
      BY <1>1, <2>1, <2>2 DEF Tidy, FitsKind, ReadyFronts, IsYes, Answered1
    <2>4. PInv'
      BY <1>1, <1>3, <2>3 DEF PInv, Exact
    <2>5. OnFrom(client, client')
      BY <1>1, <1>3, LeadsNot, OnFromLeads
    <2> QED BY <2>4, <2>5 DEF Keeps
  <1> QED BY <1>2, <1>3 DEF Polled!IsOpen, Polled!IsFetch

LEMMA CloseKeeps ==
  ASSUME PInv, Polled!Close \/ Polled!ReadFinish
  PROVE  Keeps
  <1>1. /\ UNCHANGED user /\ req_id' = req_id /\ redirected' = redirected /\ req_id \in Nat /\ redirected \in Nat
        /\ answer'.call \in {"close", "read_finish"}
        /\ Tidy(client, req_id, Exact) /\ client \in Clients
    BY DEF Polled!Close, Polled!ReadFinish, PInv, Tidy
  <1>2. \/ client.requests = <<>> /\ client' = Closed(client)
        \/ Len(client.requests) = 1 /\ client' = Closed(PopFront(client))
        \/ client.requests # <<>> /\ client' = PopFront(client)
    BY SameClosed, SamePopFront DEF Polled!Close, Polled!ReadFinish
  <1>3. Tidy(client', req_id, Exact) /\ OnFrom(client, client')
    <2>1. CASE client.requests = <<>> /\ client' = Closed(client)
      <3>1. Tidy(client', req_id, Exact) /\ client'.requests = <<>>
        BY <1>1, <2>1, ClosedTidy
      <3>2. Places(client') = {}
        BY <3>1 DEF Places
      <3> QED BY <3>1, <3>2 DEF OnFrom
    <2>2. CASE Len(client.requests) = 1 /\ client' = Closed(PopFront(client))
      <3>1. Tidy(client', req_id, Exact) /\ Popped(client, client')
        BY <1>1, <2>2, LastPopped
      <3> QED BY <1>1, <3>1, OnFromPopped
    <2>3. CASE client.requests # <<>> /\ client' = PopFront(client)
      <3>1. Tidy(client', req_id, Exact) /\ Popped(client, client')
        BY <1>1, <2>3, PoppedTidy
      <3> QED BY <1>1, <3>1, OnFromPopped
    <2> QED BY <1>2, <2>1, <2>2, <2>3
  <1>4. PInv'
    BY <1>1, <1>3 DEF PInv, Exact
  <1> QED BY <1>3, <1>4 DEF Keeps

LEMMA PolledKeeps ==
  ASSUME PInv, Polled!Next
  PROVE  Keeps
  <1>1. CASE Polled!OpenRejected
    <2>1. /\ answer'.call = "open" /\ UNCHANGED <<user, client, req_id, redirected>>
          /\ Tidy(client, req_id, Exact) /\ client \in Clients
      BY <1>1 DEF Polled!OpenRejected, PInv, Tidy
    <2>2. PInv'
      BY <2>1 DEF PInv, Exact
    <2>3. OnFrom(client, client')
      BY <2>1, LeadsNot, OnFromLeads
    <2> QED BY <2>2, <2>3 DEF Keeps
  <1> QED BY <1>1, OpenKeeps, AgainKeeps, AskKeeps, CloseKeeps DEF Polled!Next

-----------------------------------------------------------------------------
(* The invariant of a client used one way or the other.                     *)

LEMMA PolledInit ==
  ASSUME Polled!Init
  PROVE  PInv
  <1>1. /\ user \in Uses /\ req_id = 0 /\ redirected = 0 /\ answer = [call |-> "none", ec |-> "ok"]
        /\ client = Polled!NewClient
    BY PollersAssumption DEF Polled!Init
  <1>2. client \in Clients /\ client.requests = <<>> /\ client.num_sent = 0 /\ client.status = "closed"
    <2>1. <<>> \in Seq(Requests) /\ [framing |-> "none", keep |-> FALSE] \in Responses
      BY DEF Responses, Framings
    <2> QED BY <1>1, <2>1 DEF Polled!NewClient, Clients, ConnectionStatus
  <1>3. Places(client) = {} /\ Len(client.requests) = 0
    BY <1>2 DEF Places
  <1>4. Tidy(client, 0, TRUE)
    BY <1>2, <1>3 DEF Tidy, InOrder, Counts, CountsExactly, ReadyInTime
  <1>5. Tidy(client, 0, Exact)
    BY <1>4 DEF Tidy
  <1> QED BY <1>1, <1>5 DEF PInv

LEMMA InitAllGood ==
  ASSUME InUse, InitAll
  PROVE  IInvAll
  <1>1. CASE Init /\ answer = WithCallbacks
    BY <1>1, InitGood DEF IInvAll, IsPolled
  <1>2. CASE Polled!Init
    <2>1. answer.call = "none"
      BY <1>2 DEF Polled!Init
    <2> QED BY <1>2, <2>1, PolledInit DEF IInvAll, IsPolled, WithCallbacks
  <1> QED BY <1>1, <1>2 DEF InitAll

LEMMA PolledStays ==
  ASSUME PInv
  PROVE  IsPolled
  BY DEF PInv, IsPolled, WithCallbacks

LEMMA NextAllKeeps ==
  ASSUME InUse, IInvAll, [NextAll]_allVars
  PROVE  IInvAll'
  <1>1. CASE ~IsPolled
    <2>1. IInv /\ answer = WithCallbacks
      BY <1>1 DEF IInvAll, IsPolled
    <2>2. [Next]_vars /\ answer' = answer
      BY <1>1 DEF NextAll, Async, allVars
    <2>3. IInv'
      BY <2>1, <2>2, NextKeeps
    <2>4. ~IsPolled'
      BY <2>1, <2>2 DEF IsPolled, WithCallbacks
    <2> QED BY <2>3, <2>4 DEF IInvAll
  <1>2. CASE IsPolled /\ Polled!Next
    <2>1. PInv
      BY <1>2 DEF IInvAll
    <2>2. PInv'
      BY <1>2, <2>1, PolledKeeps DEF Keeps
    <2>3. IsPolled'
      BY <2>2 DEF PInv, IsPolled, WithCallbacks
    <2> QED BY <2>2, <2>3 DEF IInvAll
  <1>3. CASE IsPolled /\ UNCHANGED allVars
    <2>1. PInv /\ UNCHANGED <<user, client, req_id, redirected, answer>>
      BY <1>3 DEF IInvAll, allVars, vars
    <2>2. PInv'
      BY <2>1 DEF PInv, IsYes, Exact
    <2>3. IsPolled'
      BY <1>3, <2>1 DEF IsPolled, WithCallbacks
    <2> QED BY <2>2, <2>3 DEF IInvAll
  <1> QED BY <1>1, <1>2, <1>3 DEF NextAll, Async

LEMMA AlwaysIInvAll == InUse => (SpecAll => []IInvAll)
  <1> SUFFICES ASSUME InUse PROVE SpecAll => []IInvAll
    OBVIOUS
  <1>1. InitAll => IInvAll
    BY InitAllGood
  <1>2. IInvAll /\ [NextAll]_allVars => IInvAll'
    BY NextAllKeeps
  <1> QED BY <1>1, <1>2, PTL DEF SpecAll

-----------------------------------------------------------------------------
(* The theorems.                                                            *)

LEMMA PInvInTurn ==
  ASSUME PInv
  PROVE  Polled!PolledInTurn
  <1>1. /\ client \in Clients /\ Len(client.requests) \in Nat /\ client.num_sent \in Nat
        /\ Counts(client) /\ (Exact => CountsExactly(client))
    <2>1. client \in Clients
      BY DEF PInv, Tidy
    <2> QED BY <2>1, ClientTypes DEF PInv, Tidy
  <1>2. DOMAIN client.requests = 1 .. Len(client.requests)
    BY <1>1, ClientTypes
  <1> DEFINE n == Len(client.requests)
             k == client.num_sent
  <1>3. n \in Nat /\ k \in Nat
    BY <1>1
  <1>4. \A i \in 1 .. n : /\ i > k => client.requests[i].status \in Unsent
                          /\ i > k + 1 => client.requests[i].status = "send_pending"
    BY <1>1 DEF Counts, Places
  <1>5. Exact => \A i \in 1 .. n : i <= k => client.requests[i].status \notin Unsent
    BY <1>1 DEF CountsExactly, Places
  <1>6. Polled!NumSentCounts
    <2> SUFFICES ASSUME Exact
                 PROVE  {i \in 1 .. n : client.requests[i].status \in Unsent} = k + 1 .. n
      BY <1>2, SameSets DEF Polled!NumSentCounts, Exact
    <2> HIDE DEF n, k
    <2>1. \A i \in 1 .. n : client.requests[i].status \in Unsent <=> i > k
      BY <1>3, <1>4, <1>5
    <2> QED BY <1>3, <2>1
  <1>7. Polled!SendsInOrder
    <2> SUFFICES ASSUME NEW i \in k + 2 .. n PROVE client.requests[i].status = "send_pending"
      BY DEF Polled!SendsInOrder
    <2> HIDE DEF n, k
    <2>1. i \in 1 .. n /\ i > k + 1
      BY <1>3
    <2> QED BY <1>4, <2>1
  <1>8. Polled!YesMeansOpened
    BY PolledFront DEF PInv, IsYes, Answered1, Polled!YesMeansOpened
  <1> QED BY <1>6, <1>7, <1>8 DEF Polled!PolledInTurn

\* A client serves its requests in turn.  With callbacks each handler finds its
\* request and the one at the front is worked for (handle_async in HttpClient.cpp);
\* polled, whatever its use, nothing is begun beyond the request behind those that
\* num_sent_ counts, which are the requests sent until one is redirected, for a
\* user who never posts over a finished fetch, and is_open and is_fetch say yes
\* only of a request that is opened or fetched (post_reqeust, resume, is_open in
\* HttpClient.cpp).
THEOREM ClientsServeInTurn == InUse => (SpecAll => []QueueInTurn)
  <1> SUFFICES ASSUME InUse PROVE SpecAll => []QueueInTurn
    OBVIOUS
  <1>1. SpecAll => []IInvAll
    BY AlwaysIInvAll
  <1>2. IInvAll => QueueInTurn
    BY PInvInTurn, IInvInTurn DEF IInvAll, QueueInTurn
  <1> QED BY <1>1, <1>2, PTL

\* A polled call goes on where the call before it stopped: no request returns to a
\* status it has left, so nothing is sent or received twice, unless the server
\* redirects it (resume, resume_request in HttpClient.cpp).
THEOREM PolledGoesOn == InUse => (SpecAll => PollsGoOn)
  <1> SUFFICES ASSUME InUse PROVE SpecAll => PollsGoOn
    OBVIOUS
  <1>1. SpecAll => []IInvAll
    BY AlwaysIInvAll
  <1>2. IInvAll /\ [NextAll]_allVars => [IsPolled => Polled!GoesOn]_allVars
    <2> SUFFICES ASSUME IInvAll, NextAll, IsPolled PROVE Polled!GoesOn
      BY DEF allVars
    <2>1. PInv /\ Polled!Next
      BY DEF IInvAll, NextAll, Async
    <2>2. Keeps
      BY <2>1, PolledKeeps
    <2>3. client \in Clients /\ client' \in Clients
      BY <2>1, <2>2 DEF Keeps, PInv, Tidy
    <2>4. DOMAIN client.requests = Places(client) /\ DOMAIN client'.requests = Places(client')
      BY <2>3, ClientTypes DEF Places
    <2> QED BY <2>2, <2>4 DEF Keeps, OnFrom, Polled!GoesOn, Sequel
  <1> QED BY <1>1, <1>2, PTL DEF SpecAll, PollsGoOn
=============================================================================
