------------------------------- MODULE Messages -------------------------------
(***************************************************************************)
(* The layers under a session of messages: a MessageSocket with its two         *)
(* readers, the chunks of rtmp, and the handshake before them.  They share       *)
(* nothing but the bytes, so a behaviour is of one.                             *)
(***************************************************************************)
EXTENDS MessageSocket

CONSTANTS
    Flows, Kinds, ChunkSizes, MaxSent, MaxTime, Limit, Wrap, Backwards, Resent, SizeAnyTime,
    Sums, Attempts, ReconnectFrom,
    Absent          \* the state of a layer a behaviour does not have

VARIABLES rtmp, shake

Rtmp == INSTANCE RtmpChunks WITH MaxMessages <- MaxSent
Shake == INSTANCE RtmpHandshake

Init ==
    \/ MessageInit /\ rtmp = Absent /\ shake = Absent
    \/ socket = Absent /\ Rtmp!RtmpInit /\ shake = Absent
    \/ socket = Absent /\ rtmp = Absent /\ Shake!HandshakeInit

Next ==
    \/ socket # Absent /\ MessageNext /\ UNCHANGED <<rtmp, shake>>
    \/ rtmp # Absent /\ Rtmp!RtmpNext /\ UNCHANGED <<socket, shake>>
    \/ shake # Absent /\ Shake!HandshakeNext /\ UNCHANGED <<socket, rtmp>>

Spec == Init /\ [][Next]_<<socket, rtmp, shake>>

Live(A) == socket # Absent /\ A
Fairness ==
    /\ WF_socket(Live(Arrive)) /\ WF_socket(Live(Responded))
    /\ WF_socket(Live(RawCalls)) /\ WF_socket(Live(RawMoves)) /\ WF_socket(Live(ControlCalls))
FairSpec == Spec /\ Fairness
-----------------------------------------------------------------------------
(* Each reader of a MessageSocket gets its messages once and in their order, a   *)
(* data message only behind the control messages before it, and no assert fails  *)
(* (MessageSocket.hpp:98).                                                      *)
ReadersKeepOrder == socket # Absent => EachReaderItsOwn

(* With both readers calling, every message that comes in is handed out, unless  *)
(* the connection fails (MessageSocket.hpp:99: "control messages should be       *)
(* handle before data messages").                                               *)
EveryMessageGiven ==
    [](Live(socket.parallel) => <>(socket = Absent \/ socket.broken \/ HandedOut))

(* The messages of rtmp are read as they were sent (RtmpChunkHeader.cpp:11-89).   *)
ChunksReadAsSent == rtmp # Absent => Rtmp!ReadAsSent

(* The two ends of an rtmp handshake agree (RtmpHandshake.cpp:100-149).           *)
DigestsAgree == shake # Absent => Shake!HandshakeAgrees

(* Two ends of rtmp understand one another, in the handshake and behind it.       *)
RtmpAgrees == ChunksReadAsSent /\ DigestsAgree

\* the messages of the instance
FewFlows == {<<3, 1>>, <<3, 2>>, <<64, 1>>}
FewKinds == {<<"a", 1>>, <<"a", 3>>, <<"b", 3>>}
=============================================================================
