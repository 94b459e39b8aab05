------------------------------ MODULE RtpSockets ------------------------------
(***************************************************************************)
(* The sockets rtp goes through: create_transport and connect_transport          *)
(* (RtspTransport.cpp) agree on a pair of ports, or of channels of the rtsp        *)
(* connection; RtpUdpSocket then reads from its two sockets through one             *)
(* ReadHandler, which polls a socket, keeps it in a list while it may have more,     *)
(* and serves the reads that wait.                                                  *)
(***************************************************************************)
EXTENDS Naturals, Sequences, FiniteSets, SequencesExt

CONSTANTS
    Ports,          \* the number of ports there are, 2^16 in the code; a port is below it
    Queue,          \* bound: datagrams that wait at a socket
    MaxReads,       \* bound: reads that wait
    NonBlock,       \* whether set_non_block was called: values of that flag
    ServerPasses    \* the transport the server connects with: "in", what came, "out", its answer

\* [proto: "udp" or "tcp", used: ports others have, trying: the end in create_port and port[0],
\*  ports: rtp and rtcp of each end, to: what they are connected to, in, out: the transport on its
\*  way, fields and pairs, queue: datagrams at the client's sockets, polled: sockets with an
\*  async_receive, fired: with on_read to run, ready: ready_sockets_, tasks: reads in tasks_ and
\*  the one that is blocked, non_block: of the sockets, blocked: the thread waits in a receive
\*  from the first of ready]
VARIABLE rtp

Client == "client"
Server == "server"
Unknown == << >>
Sockets == {0, 1}

Pairs == {p \in 0..(Ports - 1) : p % 2 = 0 /\ p # 0}

RtpInit ==
    \E proto \in {"udp", "tcp"}, used \in SUBSET (1..(Ports - 1)), non_block \in NonBlock :
        /\ Cardinality({p \in Pairs : p \notin used /\ p + 1 \notin used}) >= 2
        /\ rtp = [proto |-> proto, used |-> used, trying |-> <<Client, 0>>,
                  ports |-> [e \in {Client, Server} |-> Unknown], to |-> [e \in {Client, Server} |-> Unknown],
                  in |-> << >>, out |-> << >>, queue |-> [s \in Sockets |-> 0], polled |-> {}, fired |-> {},
                  ready |-> << >>, tasks |-> 0, non_block |-> non_block, blocked |-> FALSE]

Port(n) == n % Ports

\* what binding rtp to p may give: a port, or none when it is in use; 0 leaves it to the system,
\* whose choice counts only if it is even
Bound(s, p) ==
    IF p # 0 THEN IF p \in s.used THEN {} ELSE {p}
    ELSE {q \in 1..(Ports - 1) : q \notin s.used /\ q % 2 = 0}

\* where the search goes on from: behind p, or behind the odd port the system chose
Onward(s, p) ==
    IF p # 0 THEN {Port(p + 2)}
    ELSE {Port(q + 1) : q \in {q \in 1..(Ports - 1) : q \notin s.used /\ q % 2 = 1}}

Created(s, e, p) ==
    [s EXCEPT !.ports[e] = <<p, p + 1>>, !.used = @ \cup {p, p + 1},
              !.trying = IF e = Client THEN <<Server, 0>> ELSE <<"none", 0>>]

\* one turn of create_port's loop at an end
create_port ==
    LET e == rtp.trying[1]
        p == rtp.trying[2]
    IN  /\ rtp.proto = "udp" /\ e # "none" /\ (e = Server => rtp.in # << >>)
        /\ \/ \E q \in Bound(rtp, p) :
                 rtp' = IF q + 1 \in rtp.used THEN [rtp EXCEPT !.trying = <<e, Port(q + 2)>>]
                        ELSE Created(rtp, e, q)
           \/ /\ p = 0 \/ p \in rtp.used
              /\ \E q \in Onward(rtp, p) : rtp' = [rtp EXCEPT !.trying = <<e, q>>]

\* RtpTcpSocket::create_port: the next two channels
create_channels ==
    LET e == rtp.trying[1]
    IN  /\ rtp.proto = "tcp" /\ e # "none" /\ (e = Server => rtp.in # << >>)
        /\ rtp' = [rtp EXCEPT !.ports[e] = <<0, 1>>, !.trying = IF e = Client THEN <<Server, 0>> ELSE <<"none", 0>>]

Field(transport, names) ==
    LET at == {i \in DOMAIN transport : transport[i][1] \in names}
    IN  IF at = {} THEN Unknown ELSE transport[CHOOSE i \in at : \A j \in at : i <= j][2]

\* the transport is written once the ports are there: the server's is that which came, and its own
create_transport ==
    \/ /\ rtp.ports[Client] # Unknown /\ rtp.in = << >>
       /\ rtp' = [rtp EXCEPT !.in = <<<<IF rtp.proto = "tcp" THEN "interleaved" ELSE "client_port", rtp.ports[Client]>>>>]
    \/ /\ rtp.ports[Server] # Unknown /\ rtp.out = << >>
       /\ rtp' = [rtp EXCEPT !.out = IF rtp.proto = "tcp" THEN <<<<"interleaved", rtp.ports[Server]>>>>
                                     ELSE Append(rtp.in, <<"server_port", rtp.ports[Server]>>)]

\* server_port if it is there, else client_port
PeerPorts(transport) ==
    IF Field(transport, {"interleaved"}) # Unknown THEN Field(transport, {"interleaved"})
    ELSE IF Field(transport, {"server_port"}) # Unknown THEN Field(transport, {"server_port"})
    ELSE Field(transport, {"client_port"})

\* a socket that was connected is polled
connect_transport ==
    /\ rtp.out # << >>
    /\ \E e \in {Client, Server} :
           /\ rtp.to[e] = Unknown
           /\ rtp' = [rtp EXCEPT !.to[e] = PeerPorts(IF e = Server /\ ServerPasses = "in" THEN rtp.in ELSE rtp.out),
                                 !.polled = IF e = Client /\ rtp.proto = "udp" THEN Sockets ELSE @]
-----------------------------------------------------------------------------
\* mutant: a socket with nothing left is not polled again
handle_task_Drops(s) ==
    IF s.queue[Head(s.ready)] > 0 THEN [s EXCEPT !.queue[Head(s.ready)] = @ - 1]
    ELSE IF Len(s.ready) = 2 /\ s.queue[s.ready[2]] > 0
    THEN [s EXCEPT !.ready = Tail(@), !.queue[s.ready[2]] = @ - 1]
    ELSE [s EXCEPT !.ready = << >>]

\* the first socket of the list that has a datagram serves the read; those before it are polled again,
\* when their receive returns would_block: a socket as it was opened waits for a datagram instead
handle_task(s) ==
    LET n == SelectInSeq(s.ready, LAMBDA k : s.queue[k] > 0)
        idle == {s.ready[i] : i \in 1..(IF n = 0 THEN Len(s.ready) ELSE n - 1)}
        r == [s EXCEPT !.ready = IF n = 0 THEN << >> ELSE SubSeq(@, n, Len(@)), !.polled = @ \cup idle]
    IN  IF ~s.non_block /\ s.queue[Head(s.ready)] = 0 THEN [s EXCEPT !.blocked = TRUE]
        ELSE IF n = 0 THEN r ELSE [r EXCEPT !.queue[s.ready[n]] = @ - 1]

Served(s, t) == s.queue # t.queue

async_read_some ==
    /\ rtp.to[Client] # Unknown /\ rtp.proto = "udp" /\ rtp.tasks < MaxReads /\ ~rtp.blocked
    /\ LET t == IF rtp.ready = << >> THEN rtp ELSE handle_task(rtp)
       IN  rtp' = IF Served(rtp, t) THEN t ELSE [t EXCEPT !.tasks = @ + 1]

\* the reads that wait are served while there is a socket in the list
ServeOne(s) ==
    IF s.tasks = 0 \/ s.ready = << >> \/ s.blocked THEN s
    ELSE LET t == handle_task(s) IN IF Served(s, t) THEN [t EXCEPT !.tasks = @ - 1] ELSE t
ServeTasks(s) ==
    LET after[n \in 0 .. s.tasks] == IF n = 0 THEN s ELSE ServeOne(after[n - 1])
    IN  after[s.tasks]

on_read(k) ==
    /\ k \in rtp.fired /\ ~rtp.blocked
    /\ rtp' = ServeTasks([rtp EXCEPT !.fired = @ \ {k}, !.ready = Append(@, k)])

\* the receive that waited has its datagram, and the thread goes on
receive ==
    /\ rtp.blocked /\ rtp.ready # << >> /\ rtp.queue[Head(rtp.ready)] > 0
    /\ rtp' = ServeTasks([rtp EXCEPT !.blocked = FALSE])

\* a datagram comes; a poll completes once there is one
Datagram ==
    \E k \in Sockets :
        /\ rtp.to[Client] # Unknown /\ rtp.proto = "udp" /\ rtp.queue[k] < Queue
        /\ rtp' = [rtp EXCEPT !.queue[k] = @ + 1]

poll_read(k) ==
    /\ k \in rtp.polled /\ rtp.queue[k] > 0 /\ ~rtp.blocked
    /\ rtp' = [rtp EXCEPT !.polled = @ \ {k}, !.fired = @ \cup {k}]

RtpNext ==
    \/ create_port \/ create_channels \/ create_transport \/ connect_transport
    \/ async_read_some \/ receive \/ Datagram
    \/ \E k \in Sockets : poll_read(k) \/ on_read(k)
-----------------------------------------------------------------------------
(* The ports of an end are its own, rtp's is even and rtcp's the next; each end    *)
(* is connected to the ports of the other; a socket of the client is polled, about    *)
(* to be, or in the list of the ready, once (RtpUdpSocket.cpp:40-88,                   *)
(* RtspTransport.cpp:37-113, RtpUdpSocket.hpp:159-225).                                *)
PortsAgree ==
    LET s == rtp
    IN  /\ s.proto = "udp" => \A e \in {Client, Server} : s.ports[e] # Unknown => s.ports[e][1] % 2 = 0
        /\ s.proto = "udp" /\ s.ports[Server] # Unknown => ToSet(s.ports[Server]) \cap ToSet(s.ports[Client]) = {}
        /\ s.to[Client] # Unknown => s.to[Client] = s.ports[Server]
        /\ s.to[Server] # Unknown => s.to[Server] = s.ports[Client]
        /\ s.to[Client] # Unknown /\ s.proto = "udp" =>
               /\ s.polled \cup s.fired \cup ToSet(s.ready) = Sockets
               /\ Cardinality(s.polled) + Cardinality(s.fired) + Len(s.ready) = 2

\* a read is served
ServesRead == \E k \in Sockets : rtp'.queue[k] < rtp.queue[k]

\* a read waits although a datagram does, at sockets that do not block: one that does may wait in
\* its receive for good, with the datagram at the other
ReadWaits == rtp.non_block /\ rtp.tasks > 0 /\ \E k \in Sockets : rtp.queue[k] > 0
=============================================================================
