------------------------------- MODULE Sessions -------------------------------
(***************************************************************************)
(* The sessions of the protocols: rtmp and mmsp, each a client and its server;   *)
(* the proxy of http; rtsp, and the sockets of rtp its transports name.  They      *)
(* share nothing, so a behaviour is of one.                                      *)
(***************************************************************************)
EXTENDS Naturals, Sequences

CONSTANTS
    RtmpModes, RtmpCalls, RtmpStrays, AckEvery,
    MmspModes, MmspStrays,
    MaxStrays, Blocks, Attempts, Again, CloseWhen, TickWhen,            \* of both
    MaxRequests, Hosts, NoHost, Pipelining, ServerCloses, Unframed, NDEBUG,
    NonBlock,                                                           \* of proxy and rtp
    MaxAsked, MaxPosts, PostAfterError, PeerStalls, StopOnError,
    Ports, Queue, MaxReads, ServerPasses,
    Absent          \* the state of a session a behaviour does not have

VARIABLES rtmp, mmsp, proxy, rtsp, rtp
vars == <<rtmp, mmsp, proxy, rtsp, rtp>>

Rtmp == INSTANCE RtmpSession WITH session <- rtmp, Modes <- RtmpModes, Calls <- RtmpCalls, Strays <- RtmpStrays
Mmsp == INSTANCE MmspSession WITH session <- mmsp, Modes <- MmspModes, Strays <- MmspStrays
Proxy == INSTANCE HttpProxy
Rtsp == INSTANCE RtspSession WITH MaxRequests <- MaxAsked
Rtp == INSTANCE RtpSockets

Init ==
    \/ Rtmp!RtmpInit /\ mmsp = Absent /\ proxy = Absent /\ rtsp = Absent /\ rtp = Absent
    \/ rtmp = Absent /\ Mmsp!MmspInit /\ proxy = Absent /\ rtsp = Absent /\ rtp = Absent
    \/ rtmp = Absent /\ mmsp = Absent /\ Proxy!ProxyInit /\ rtsp = Absent /\ rtp = Absent
    \/ rtmp = Absent /\ mmsp = Absent /\ proxy = Absent /\ Rtsp!RtspInit /\ rtp = Absent
    \/ rtmp = Absent /\ mmsp = Absent /\ proxy = Absent /\ rtsp = Absent /\ Rtp!RtpInit

Next ==
    \/ rtmp # Absent /\ Rtmp!RtmpNext /\ UNCHANGED <<mmsp, proxy, rtsp, rtp>>
    \/ mmsp # Absent /\ Mmsp!MmspNext /\ UNCHANGED <<rtmp, proxy, rtsp, rtp>>
    \/ proxy # Absent /\ Proxy!ProxyNext /\ UNCHANGED <<rtmp, mmsp, rtsp, rtp>>
    \/ rtsp # Absent /\ Rtsp!RtspNext /\ UNCHANGED <<rtmp, mmsp, proxy, rtp>>
    \/ rtp # Absent /\ Rtp!RtpNext /\ UNCHANGED <<rtmp, mmsp, proxy, rtsp>>

Spec == Init /\ [][Next]_vars

\* an operation under way ends, a handler that is due runs, and who waits for the network calls again; a
\* connection that is there delivers
Fairness ==
    /\ WF_rtmp(rtmp # Absent /\ Rtmp!RtmpNext /\ Rtmp!Server)
    /\ WF_rtmp(rtmp # Absent /\ Rtmp!RtmpNext /\ (Rtmp!Connected \/ Rtmp!Complete \/ Rtmp!Fail))
    /\ SF_rtmp(rtmp # Absent /\ Rtmp!RtmpNext /\ Rtmp!Resume)
    /\ WF_mmsp(mmsp # Absent /\ Mmsp!MmspNext /\ Mmsp!Server)
    /\ WF_mmsp(mmsp # Absent /\ Mmsp!MmspNext /\ (Mmsp!Connected \/ Mmsp!Complete \/ Mmsp!Fail))
    /\ SF_mmsp(mmsp # Absent /\ Mmsp!MmspNext /\ Mmsp!Resume)
    /\ WF_proxy(proxy # Absent /\ Proxy!handle_async) /\ WF_proxy(proxy # Absent /\ Proxy!handle_watch)
    /\ WF_proxy(proxy # Absent /\ Proxy!Complete) /\ WF_proxy(proxy # Absent /\ Proxy!Watched)
    /\ WF_rtsp(rtsp # Absent /\ Rtsp!handle_receive_message) /\ WF_rtsp(rtsp # Absent /\ Rtsp!handle_send_message)
    /\ WF_rtsp(rtsp # Absent /\ Rtsp!Reads) /\ WF_rtsp(rtsp # Absent /\ Rtsp!Writes)
    /\ \A k \in {0, 1} : WF_rtp(rtp # Absent /\ Rtp!on_read(k)) /\ WF_rtp(rtp # Absent /\ Rtp!poll_read(k))
FairSpec == Spec /\ Fairness
-----------------------------------------------------------------------------
(* A client of rtmp or mmsp sends the requests of its calls in turn, each answer   *)
(* completes the request it is to, what the peer asks in between is answered, and    *)
(* no assert fails (RtmpClient.cpp:296-331, MmspClient.cpp:222-261).               *)
RequestsInTurn == (rtmp # Absent => Rtmp!RequestsInTurn) /\ (mmsp # Absent => Mmsp!RequestsInTurn)

(* The two ends of an rtp transport name each other's ports, a pair that is theirs   *)
(* (RtspTransport.cpp:37-113); the list of ready sockets has each once.              *)
PortsAgree == rtp # Absent => Rtp!PortsAgree

(* The sessions that own themselves, HttpProxy and RtspSession, are deleted once     *)
(* and with nothing under way; a proxy answers with what the server named in the      *)
(* request says, an rtsp session in the order of the requests; the transports of the    *)
(* session are those both ends have named (HttpProxy.cpp:129,                        *)
(* RtspSession.cpp:198-204).                                                        *)
SessionsSafe ==
    (proxy # Absent => Proxy!ProxySafe) /\ (rtsp # Absent => Rtsp!SessionSafe) /\ PortsAgree

(* Every call of an rtmp or mmsp client ends.                                     *)
CallsEnd == [](<>((rtmp # Absent => Rtmp!CallEnds) /\ (mmsp # Absent => Mmsp!CallEnds)))

Left == (proxy # Absent /\ proxy.gone) \/ (rtsp # Absent /\ rtsp.stopping)
Freed == (proxy # Absent /\ proxy.deleted) \/ (rtsp # Absent /\ rtsp.deleted = 1)

(* A proxy whose client has gone, and an rtsp session that is stopped, are deleted   *)
(* (HttpProxy.cpp:129-174, RtspSession.cpp:90-102).                                *)
SessionsEnd == Left ~> Freed

(* While reads of rtp wait beside datagrams, reads are served, when set_non_block    *)
(* was called on the sockets (RtpUdpSocket.hpp:158-225, RtpUdpSocket.cpp:156).        *)
ReadersServed == <>[](rtp # Absent /\ Rtp!ReadWaits) => []<><<rtp # Absent /\ Rtp!ServesRead>>_rtp
=============================================================================
