----------------------------- MODULE RtspSession -----------------------------
(***************************************************************************)
(* util::protocol::RtspSession, of which RtspServer is one: it always reads a    *)
(* message, writes those that were posted one after another, and deletes itself    *)
(* once it was stopped and neither is under way.  What the derived class does in    *)
(* its callbacks (on_recv, on_sent, on_error) is chosen.                           *)
(***************************************************************************)
EXTENDS Naturals, Sequences, SequencesExt

CONSTANTS
    MaxRequests,    \* bound: requests of the peer
    MaxPosts,       \* bound: requests posted to it
    PostAfterError, \* the derived class posts although a write has failed
    PeerStalls,     \* the peer may stop reading, for ever
    StopOnError     \* the derived class stops on an error

\* [recv: recv_msg_.type: "data" while a read is under way, "none", "message" in between,
\*  writing: a write is under way, "wrote", "failed" when its handler is to run, and "read", "lost"
\*  for the read, sends: send_msgs_, requests: requests_, stopping, inbox: messages on their way,
\*  asked, posted: counts, got: responses at the peer, by their request, broken: write_status_ is
\*  left by a failed write, gone: the peer is, stalled, deleted: times, failed]
VARIABLE rtsp

RtspInit ==
    rtsp = [recv |-> "data", read |-> "pending", writing |-> "idle", sends |-> << >>, requests |-> << >>,
            stopping |-> FALSE, inbox |-> << >>, asked |-> 0, posted |-> 0, got |-> << >>, broken |-> FALSE,
            gone |-> FALSE, stalled |-> FALSE, deleted |-> 0, failed |-> FALSE]

\* a request has the number 0, a response that of its request
IsRequest(m) == m = 0

release(s) ==
    IF s.stopping /\ s.recv = "none" /\ s.sends = << >> THEN [s EXCEPT !.deleted = @ + 1] ELSE s

cancel(s) == [s EXCEPT !.read = IF @ = "pending" THEN "lost" ELSE @,
                       !.writing = IF @ = "pending" THEN "failed" ELSE @]

\* mutant: what is under way is left alone
stop_NoCancel(s) == release([s EXCEPT !.stopping = TRUE])

stop(s) == release(cancel([s EXCEPT !.stopping = TRUE]))

send_next(s) == [s EXCEPT !.writing = "pending", !.failed = s.broken]

post(s, m) == LET p == [s EXCEPT !.sends = Append(@, m)]
              IN  IF s.sends = << >> THEN send_next(p) ELSE p

PostRequest(s) == post([s EXCEPT !.posted = @ + 1], 0)

\* the response goes with the first request there is
PostResponse(s) == post([s EXCEPT !.requests = Tail(@)], Head(s.requests))

\* what a callback of the derived class may do; the peer is told of an error the same way
MayPost(s) == ~s.broken \/ PostAfterError
Callback(s) ==
    {s} \cup {stop(s)}
        \cup (IF s.requests # << >> /\ MayPost(s) THEN {PostResponse(s)} ELSE {})
        \cup (IF s.posted < MaxPosts /\ MayPost(s) THEN {PostRequest(s)} ELSE {})

on_error(s) == IF StopOnError THEN {stop(s)} ELSE {s, stop(s)}

recv_next(s) == [s EXCEPT !.recv = "data", !.read = "pending"]

Alive == rtsp.deleted = 0 /\ ~rtsp.failed

handle_receive_message ==
    /\ Alive
    /\ \/ /\ rtsp.read = "lost"
          /\ \E s \in on_error([rtsp EXCEPT !.read = "idle"]) : rtsp' = release([s EXCEPT !.recv = "none"])
       \/ /\ rtsp.read = "read"
          /\ LET m == Head(rtsp.inbox)
                 r == [rtsp EXCEPT !.inbox = Tail(@), !.read = "idle", !.recv = "message",
                                   !.requests = IF IsRequest(m) THEN @ ELSE Append(@, m)]
             IN  \E s \in Callback(r) :
                     rtsp' = IF s.stopping THEN release([s EXCEPT !.recv = "none"]) ELSE recv_next(s)

handle_send_message ==
    /\ Alive
    /\ \/ /\ rtsp.writing = "failed"
          /\ \E s \in on_error([rtsp EXCEPT !.writing = "idle", !.broken = TRUE]) :
                 rtsp' = release([s EXCEPT !.sends = << >>])
       \/ /\ rtsp.writing = "wrote"
          /\ \E s \in Callback([rtsp EXCEPT !.writing = "idle"]) :
                 rtsp' = LET t == [s EXCEPT !.sends = Tail(@)]
                         IN  IF t.sends = << >> THEN release(t) ELSE send_next(t)

\* another event has the derived class do something
Derived ==
    /\ Alive
    /\ \E s \in Callback(rtsp) : s # rtsp /\ rtsp' = s
-----------------------------------------------------------------------------
\* the operations under way
Reads ==
    /\ Alive /\ rtsp.read = "pending" /\ (rtsp.inbox # << >> \/ rtsp.gone)
    /\ rtsp' = [rtsp EXCEPT !.read = IF rtsp.inbox # << >> THEN "read" ELSE "lost"]

Writes ==
    /\ Alive /\ rtsp.writing = "pending" /\ (rtsp.gone \/ ~rtsp.stalled)
    /\ LET m == Head(rtsp.sends)
       IN  rtsp' = IF rtsp.gone THEN [rtsp EXCEPT !.writing = "failed"]
                   ELSE [rtsp EXCEPT !.writing = "wrote", !.got = IF IsRequest(m) THEN @ ELSE Append(@, m)]

\* the peer: a request, a response to one of ours, or it stops
Peer ==
    /\ Alive /\ ~rtsp.gone
    /\ \/ /\ rtsp.asked < MaxRequests
          /\ rtsp' = [rtsp EXCEPT !.asked = @ + 1, !.inbox = Append(@, rtsp.asked + 1)]
       \/ rtsp.posted > Len(SelectSeq(rtsp.inbox, IsRequest)) /\ Len(rtsp.inbox) < 2
          /\ rtsp' = [rtsp EXCEPT !.inbox = Append(@, 0)]
       \/ rtsp' = [rtsp EXCEPT !.gone = TRUE]
       \/ ~rtsp.stalled /\ rtsp' = [rtsp EXCEPT !.stalled = PeerStalls]

RtspNext == handle_receive_message \/ handle_send_message \/ Derived \/ Reads \/ Writes \/ Peer
-----------------------------------------------------------------------------
(* An RtspSession is deleted once, with neither a read nor a write under way;    *)
(* the responses are those of the requests that came, in their order; one write   *)
(* is under way at a time, that of the first message (RtspSession.cpp:110-190).    *)
SessionSafe ==
    /\ ~rtsp.failed /\ rtsp.deleted <= 1
    /\ rtsp.deleted = 1 => rtsp.read = "idle" /\ rtsp.writing = "idle"
    /\ rtsp.writing = "idle" <=> rtsp.sends = << >>
    /\ \A i \in DOMAIN rtsp.got : rtsp.got[i] = i
=============================================================================
