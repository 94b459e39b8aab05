---------------------------- MODULE RtmpHandshake ----------------------------
(***************************************************************************)
(* The handshake of util::protocol::RtmpSocket (RtmpSocket.hpp handle_connect   *)
(* and handle_accept) with the digests of RtmpHandshake.cpp: C0 and C1, S0 to    *)
(* S2, then C2, each written and read whole (transfer_all).  Where a digest      *)
(* stands in its 1536 bytes is the sum of four bytes before its part of them.    *)
(***************************************************************************)
EXTENDS Naturals, Sequences

CONSTANTS
    Sums,           \* sums of four random bytes
    Attempts,       \* bound: how often the client connects on one socket
    ReconnectFrom   \* the states of the socket in which it does so again

\* [style: the digest of the client: in front (this library's), in the back, or none,
\*  client, server: status_, busy: the operation under way at each end,
\*  up, down: packets on their way, has, front: has_digest_ and digest_first_ at the server,
\*  c01, s012: the packets that came, found: check_s012 has found the digest,
\*  keyed: whose digest each end holds in digest_, tries, failed: an assert failed]
VARIABLE shake

HANDSHAKE_SIZE == 1536
DigestSize == 32
KeySize == 128
Client == "client"
Server == "server"
Nobody == "nobody"
NoPacket == [kind |-> "none", plain |-> FALSE, front |-> FALSE, sums |-> [b \in BOOLEAN |-> 0],
             digest |-> 0, keys |-> [b \in BOOLEAN |-> 0], by |-> Nobody]

HandshakeInit ==
    \E style \in {"front", "back", "plain"} :
        shake = [style |-> style, client |-> "closed", server |-> "closed",
                 busy |-> [e \in {Client, Server} |-> "connect"],
                 up |-> << >>, down |-> << >>, has |-> TRUE, front |-> TRUE,
                 c01 |-> NoPacket, s012 |-> NoPacket, found |-> FALSE,
                 keyed |-> [e \in {Client, Server} |-> Nobody], tries |-> 1, failed |-> FALSE]

\* sums[TRUE] is that of the bytes 8 to 11, sums[FALSE] that of 772 to 775
digest_offset(sums, front) == (sums[front] % 728) + (IF front THEN 12 ELSE 776)

dhkey_offset(keys, front) == (keys[front] % 632) + (IF front THEN 772 ELSE 8)

Packet(kind, plain, front, sums, keys, by) ==
    [kind |-> kind, plain |-> plain, front |-> front, sums |-> sums,
     digest |-> digest_offset(sums, front), keys |-> keys, by |-> by]

\* every packet has its own random bytes
Random == [BOOLEAN -> Sums]

make_c01(sums, keys) ==
    Packet("c01", shake.style = "plain", shake.style # "back", sums, keys, Client)
make_s012(s, sums, keys) == Packet("s012", ~s.has, s.front, sums, keys, s.keyed[Server])
make_c2(s) == [NoPacket EXCEPT !.kind = "c2", !.by = s.keyed[Client]]

\* the digest is looked for in the back, then in the front
check_c01(s, p) ==
    IF p.plain THEN [s EXCEPT !.has = FALSE, !.c01 = p]
    ELSE LET at(front) == ~p.plain /\ p.digest = digest_offset(p.sums, front)
         IN  [s EXCEPT !.has = TRUE, !.front = IF at(FALSE) THEN FALSE ELSE IF at(TRUE) THEN TRUE ELSE @,
                       !.c01 = p, !.keyed[Server] = IF at(FALSE) \/ at(TRUE) THEN Client ELSE @]

\* a client of this library looks in front; another, where it put its own
check_s012(s, p) ==
    LET at == digest_offset(p.sums, s.style # "back") = p.digest
    IN  IF s.style = "plain" THEN [s EXCEPT !.s012 = p]
        ELSE [s EXCEPT !.s012 = p, !.found = at, !.keyed[Client] = IF at THEN Server ELSE Nobody]
-----------------------------------------------------------------------------
Moves(s, end, status, op) == [s EXCEPT ![end] = status, !.busy[end] = op]

\* the connection is there, or an operation on it is done: what next is told by status_
handle_connect ==
    \/ /\ shake.busy[Client] = "connect"
       /\ \E sums \in Random, key \in Sums :
              shake' = IF shake.client = "closed"
                       THEN [Moves(shake, "client", "handshake1", "write")
                               EXCEPT !.up = Append(@, make_c01(sums, [b \in BOOLEAN |-> key]))]
                       ELSE [shake EXCEPT !.failed = TRUE]
    \/ /\ shake.client = "handshake1" /\ shake.busy[Client] = "write"
       /\ shake' = Moves(shake, "client", "handshake2", "read")
    \/ /\ shake.client = "handshake2" /\ shake.busy[Client] = "read" /\ shake.down # << >>
       /\ LET s == check_s012([shake EXCEPT !.down = Tail(@)], Head(shake.down))
          IN  shake' = [Moves(s, "client", "handshake3", "write") EXCEPT !.up = Append(@, make_c2(s))]
    \/ /\ shake.client = "handshake3" /\ shake.busy[Client] = "write"
       /\ shake' = Moves(shake, "client", "established", "none")

handle_accept ==
    \/ /\ shake.server = "closed" /\ shake.busy[Server] = "connect"
       /\ shake' = Moves(shake, "server", "handshake1", "read")
    \/ /\ shake.server = "handshake1" /\ shake.up # << >>
       /\ \E sums \in Random, key \in Sums :
              LET s == check_c01([shake EXCEPT !.up = Tail(@)], Head(shake.up))
              IN  shake' = [Moves(s, "server", "handshake2", "write")
                              EXCEPT !.down = Append(@, make_s012(s, sums, [b \in BOOLEAN |-> key]))]
    \/ /\ shake.server = "handshake2"
       /\ shake' = Moves(shake, "server", "handshake3", "read")
    \/ /\ shake.server = "handshake3" /\ shake.up # << >>
       /\ shake' = [Moves(shake, "server", "established", "none") EXCEPT !.up = Tail(@)]

\* the connection is lost, both ends close it, and the client connects once more: close()
\* leaves status_ alone, and each connection that is accepted has a socket of its own
Reconnect ==
    /\ shake.tries < Attempts /\ shake.client \in ReconnectFrom
    /\ shake' = [shake EXCEPT !.tries = @ + 1, !.up = << >>, !.down = << >>,
                              !.busy = [e \in {Client, Server} |-> "connect"], !.server = "closed",
                              !.has = TRUE, !.front = TRUE,
                              !.keyed = [e \in {Client, Server} |-> Nobody]]

HandshakeNext == ~shake.failed /\ (handle_connect \/ handle_accept \/ Reconnect)
-----------------------------------------------------------------------------
Apart(a, n, b, m) == a + n <= b \/ b + m <= a
Fits(p) == /\ p.digest + DigestSize <= HANDSHAKE_SIZE
           /\ Apart(p.digest, DigestSize, IF p.front THEN 8 ELSE 772, 4)
KeyFits(p) == /\ Apart(p.digest, DigestSize, dhkey_offset(p.keys, p.front), KeySize)
              /\ Apart(p.digest, DigestSize, IF p.front THEN 1532 ELSE 768, 4)

(* Once both ends are established, the server has found the client's digest,     *)
(* if there is one, the client has found the server's, and each has answered     *)
(* with what the other sent (RtmpHandshake.cpp:100-149); no digest covers the     *)
(* bytes that tell where it or the key stands, or the client's key, and no handshake starts in the middle of      *)
(* another (RtmpSocket.hpp:105-138).                                            *)
HandshakeAgrees ==
    /\ ~shake.failed
    /\ shake.s012.kind = "s012" => (~shake.c01.plain => Fits(shake.c01) /\ KeyFits(shake.c01)) /\ Fits(shake.s012)
    /\ shake.client = "established" /\ shake.server = "established" =>
          /\ shake.has = (shake.style # "plain")
          /\ shake.style # "plain" =>
                 shake.found /\ shake.s012.by = Client /\ shake.keyed[Client] = Server
=============================================================================
