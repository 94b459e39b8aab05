--------------------------- MODULE HttpServer_proofs ---------------------------
(***************************************************************************)
(* HttpServer.tla for every MaxChunks, Pipelining and NonBlocking: the      *)
(* object is deleted once, with no operation left, and keeps a connection   *)
(* only after a framed answer.                                             *)
(***************************************************************************)
EXTENDS HttpServer, TLAPS

(* The inductive invariant, in named parts.                                 *)

\* Which operation each state waits for.
MainFitsState ==
    /\ state \in {"stopped", "exiting"} => main = "none"
    /\ ~deleted /\ state \in Serving => main # "none"
    /\ main # "none" =>
        \/ /\ state = "receiving_request_head"
           /\ main = "read_head"
        \/ /\ state = "preparing"
           /\ main \in {"on_receive_request_head", "call"}
        \/ /\ state = "transferring_request_data"
           /\ ((main = "read_body" /\ body) \/ (main = "call" /\ ~body))
        \/ /\ state = "local_processing"
           /\ main \in {"local_process", "call"}
        \/ /\ state = "sending_response_head"
           /\ main = "write_head"
        \/ /\ state = "transferring_response_data"
           /\ main \in {"write_body", "call"}
    /\ main \in Hooks => result = "pending"
    /\ main = "call" => result \in {"ok", "error"}

\* When a watch may be under way.
WatchFitsState ==
    /\ watch # "none" => watch_state = "watching" /\ ~deleted
    /\ watch_state = "watching" => watch # "none" \/ thread = "blocked" \/ deleted
    /\ thread = "blocked" => /\ watch = "none" /\ watch_state = "watching"
                             /\ state \in Serving /\ ~deleted
    /\ state = "receiving_request_head" => watch_state = "watch_stopped"
    /\ body /\ state \in {"preparing", "transferring_request_data"}
         => watch_state = "watch_stopped"
    /\ state = "stopped" => watch_state # "broken"
    /\ state = "exiting" => watch_state # "broken"

FinishFitsMain ==
    /\ owed = IF main = "none" THEN 0 ELSE 1
    /\ deleted => main = "none"

LayersFitState ==
    /\ state \notin {"transferring_request_data", "transferring_response_data", "exiting"}
         => layers = {}
    /\ state = "transferring_request_data" => layers \subseteq {"source"}
    /\ state = "transferring_response_data" => layers \subseteq {"sink"}

\* What the answer under way knows about the request.
AnswerFitsState ==
    /\ main = "on_receive_request_head" => outcome = "none"
    /\ main = "call" /\ state \in {"preparing", "local_processing"} => outcome = result
    /\ main # "none" /\ state = "receiving_request_head" => outcome = "none"
    /\ state = "transferring_request_data" /\ main # "none" => outcome = "ok"
    /\ main = "local_process" => outcome = "ok"
    /\ state = "local_processing" => connection = reqConn
    /\ state \in {"sending_response_head", "transferring_response_data"}
         /\ connection = "keep_alive"
         => length /\ outcome = "ok" /\ reqConn = "keep_alive"

IInv ==
    /\ TypeOK
    /\ MainFitsState
    /\ WatchFitsState
    /\ FinishFitsMain
    /\ LayersFitState
    /\ AnswerFitsState

-----------------------------------------------------------------------------
\* The names every step of the invariant proof needs.
USE DEF StateEnum, WatchStateEnum, Connections, Reads, Writes, Hooks, MainOps,
        Serving, request, response, network, op

\* The invariant holds when the connection object is created.
LEMMA InitInv == Init => IInv
<1> SUFFICES ASSUME Init PROVE IInv
  OBVIOUS
<1> USE DEF Init
<1>1. TypeOK
  <2>1. owed \in Nat /\ kernel \in Nat /\ user \in Nat /\ sent \in Nat
    OBVIOUS
  <2>. QED
    BY <2>1, Zenon DEF TypeOK
<1>2. MainFitsState
  BY DEF MainFitsState
<1>3. WatchFitsState
  BY DEF WatchFitsState
<1>4. FinishFitsMain /\ LayersFitState /\ AnswerFitsState
  BY DEF FinishFitsMain, LayersFitState, AnswerFitsState
<1>. QED
  BY <1>1, <1>2, <1>3, <1>4 DEF IInv

LEMMA AcceptInv == IInv /\ Accept => IInv'
<1> SUFFICES ASSUME IInv, Accept PROVE IInv'
  OBVIOUS
<1> USE DEF Accept, Start, Issue
<1>1. TypeOK'
  <2>1. owed' \in Nat
    BY DEF IInv, TypeOK
  <2>. QED
    BY <2>1, Zenon DEF IInv, TypeOK
<1>2. MainFitsState'
  BY DEF IInv, TypeOK, MainFitsState
<1>3. WatchFitsState'
  BY DEF IInv, TypeOK, MainFitsState, WatchFitsState
<1>4. FinishFitsMain'
  BY DEF IInv, TypeOK, MainFitsState, FinishFitsMain
<1>5. LayersFitState'
  BY DEF IInv, TypeOK, MainFitsState, LayersFitState
<1>6. AnswerFitsState'
  BY DEF IInv, TypeOK, MainFitsState, AnswerFitsState
<1>. QED
  BY <1>1, <1>2, <1>3, <1>4, <1>5, <1>6 DEF IInv

LEMMA HandleBrokenInv == IInv /\ HandleBroken => IInv'
<1> SUFFICES ASSUME IInv, HandleBroken PROVE IInv'
  OBVIOUS
<1> USE DEF HandleBroken, Completed, OnFinish, NoOp
<1>1. TypeOK'
  <2>1. owed' \in Nat
    BY DEF IInv, TypeOK, FinishFitsMain
  <2>2. main' \in MainOps /\ result' \in {"pending", "ok", "error"}
    OBVIOUS
  <2>3. sized' \in BOOLEAN /\ deleted' \in BOOLEAN
    BY Zenon
  <2>4. UNCHANGED <<state, watch_state, watch, thread, request, response,
                    layers, network>>
    OBVIOUS
  <2> HIDE DEF HandleBroken, Completed, NoOp
  <2>5. /\ state' \in StateEnum /\ watch_state' \in WatchStateEnum
        /\ watch' \in {"none", "pending", "ready", "aborted"}
        /\ thread' \in {"free", "blocked"}
        /\ reqConn' \in Connections /\ connection' \in Connections
        /\ outcome' \in {"none", "ok", "error"}
    BY <2>4 DEF IInv, TypeOK
  <2>6. body' \in BOOLEAN /\ length' \in BOOLEAN /\ peerClosed' \in BOOLEAN
    BY <2>4, Zenon DEF IInv, TypeOK
  <2>7. /\ layers' \in SUBSET {"source", "sink"}
        /\ kernel' \in Nat /\ user' \in Nat /\ sent' \in Nat
    BY <2>4 DEF IInv, TypeOK
  <2>. QED
    BY <2>1, <2>2, <2>3, <2>5, <2>6, <2>7, Zenon DEF TypeOK
<1>2. MainFitsState'
  BY DEF IInv, TypeOK, MainFitsState
<1>3. WatchFitsState'
  BY DEF IInv, TypeOK, MainFitsState, WatchFitsState
<1>4. FinishFitsMain'
  BY DEF IInv, TypeOK, MainFitsState, FinishFitsMain
<1>5. LayersFitState'
  BY DEF IInv, TypeOK, MainFitsState, LayersFitState
<1>6. AnswerFitsState'
  BY DEF IInv, TypeOK, MainFitsState, AnswerFitsState
<1>. QED
  BY <1>1, <1>2, <1>3, <1>4, <1>5, <1>6 DEF IInv

LEMMA ReceivedRequestHeadInv == IInv /\ ReceivedRequestHead => IInv'
<1> SUFFICES ASSUME IInv, ReceivedRequestHead PROVE IInv'
  OBVIOUS
<1> USE DEF ReceivedRequestHead, Completed, MayWatch, StartWatch, Issue
<1>1. TypeOK'
  BY DEF IInv, TypeOK
<1>2. MainFitsState'
  BY DEF IInv, TypeOK, MainFitsState
<1>3. WatchFitsState'
  BY DEF IInv, TypeOK, MainFitsState, WatchFitsState
<1>4. FinishFitsMain'
  BY DEF IInv, TypeOK, MainFitsState, FinishFitsMain
<1>5. LayersFitState'
  BY DEF IInv, TypeOK, MainFitsState, LayersFitState
<1>6. AnswerFitsState'
  BY DEF IInv, TypeOK, MainFitsState, AnswerFitsState
<1>. QED
  BY <1>1, <1>2, <1>3, <1>4, <1>5, <1>6 DEF IInv

LEMMA PreparedInv == IInv /\ Prepared => IInv'
<1> SUFFICES ASSUME IInv, Prepared PROVE IInv'
  OBVIOUS
<1> USE DEF Prepared, Completed, Issue, Call
<1>1. TypeOK'
  BY ZenonT(30) DEF IInv, TypeOK
<1>2. MainFitsState'
  BY DEF IInv, TypeOK, MainFitsState
<1>3. WatchFitsState'
  BY DEF IInv, TypeOK, MainFitsState, WatchFitsState
<1>4. FinishFitsMain'
  BY DEF IInv, TypeOK, MainFitsState, FinishFitsMain
<1>5. LayersFitState'
  BY DEF IInv, TypeOK, MainFitsState, LayersFitState
<1>6. AnswerFitsState'
  BY DEF IInv, TypeOK, MainFitsState, AnswerFitsState
<1>. QED
  BY <1>1, <1>2, <1>3, <1>4, <1>5, <1>6 DEF IInv

LEMMA ReceivedRequestDataInv == IInv /\ ReceivedRequestData => IInv'
<1> SUFFICES ASSUME IInv, ReceivedRequestData PROVE IInv'
  OBVIOUS
<1> USE DEF ReceivedRequestData, Completed, StartWatch, Issue
<1>1. TypeOK'
  BY DEF IInv, TypeOK
<1>2. MainFitsState'
  BY DEF IInv, TypeOK, MainFitsState
<1>3. WatchFitsState'
  BY DEF IInv, TypeOK, MainFitsState, WatchFitsState
<1>4. FinishFitsMain'
  BY DEF IInv, TypeOK, MainFitsState, FinishFitsMain
<1>5. LayersFitState'
  BY DEF IInv, TypeOK, MainFitsState, LayersFitState
<1>6. AnswerFitsState'
  BY DEF IInv, TypeOK, MainFitsState, AnswerFitsState
<1>. QED
  BY <1>1, <1>2, <1>3, <1>4, <1>5, <1>6 DEF IInv

LEMMA LocalProcessedInv == IInv /\ LocalProcessed => IInv'
<1> SUFFICES ASSUME IInv, LocalProcessed PROVE IInv'
  OBVIOUS
<1> USE DEF LocalProcessed, Completed, Issue
<1>1. TypeOK'
  BY DEF IInv, TypeOK
<1>2. MainFitsState'
  BY DEF IInv, TypeOK, MainFitsState
<1>3. WatchFitsState'
  BY DEF IInv, TypeOK, MainFitsState, WatchFitsState
<1>4. FinishFitsMain'
  BY DEF IInv, TypeOK, MainFitsState, FinishFitsMain
<1>5. LayersFitState'
  BY DEF IInv, TypeOK, MainFitsState, LayersFitState
<1>6. AnswerFitsState'
  BY DEF IInv, TypeOK, MainFitsState, AnswerFitsState
<1>. QED
  BY <1>1, <1>2, <1>3, <1>4, <1>5, <1>6 DEF IInv

LEMMA SentResponseHeadInv == IInv /\ SentResponseHead => IInv'
<1> SUFFICES ASSUME IInv, SentResponseHead PROVE IInv'
  OBVIOUS
<1> USE DEF SentResponseHead, Completed, Issue, Call
<1>1. TypeOK'
  <2>1. /\ main' \in MainOps /\ result' \in {"pending", "ok", "error"}
        /\ layers' \in SUBSET {"source", "sink"} /\ state' \in StateEnum
    BY DEF IInv, TypeOK, MainOps, Writes, StateEnum
  <2>2. sized' \in BOOLEAN
    BY Zenon
  <2>. QED
    BY <2>1, <2>2, ZenonT(30) DEF IInv, TypeOK
<1>2. MainFitsState'
  BY DEF IInv, TypeOK, MainFitsState
<1>3. WatchFitsState'
  BY DEF IInv, TypeOK, MainFitsState, WatchFitsState
<1>4. FinishFitsMain'
  BY DEF IInv, TypeOK, MainFitsState, FinishFitsMain
<1>5. LayersFitState'
  BY DEF IInv, TypeOK, MainFitsState, LayersFitState
<1>6. AnswerFitsState'
  BY DEF IInv, TypeOK, MainFitsState, AnswerFitsState
<1>. QED
  BY <1>1, <1>2, <1>3, <1>4, <1>5, <1>6 DEF IInv

LEMMA ExitInv == IInv /\ Exit => IInv'
<1> SUFFICES ASSUME IInv, Exit PROVE IInv'
  OBVIOUS
<1> USE DEF Exit, Completed, KeepAlive, OnFinish, DropSink, NoOp, Leave, CancelWatch
<1>1. TypeOK'
  <2>1. owed' \in Nat
    BY DEF IInv, TypeOK, FinishFitsMain
  <2>. QED
    BY <2>1, Zenon DEF IInv, TypeOK
<1>2. MainFitsState'
  BY DEF IInv, TypeOK, MainFitsState
<1>3. WatchFitsState'
  BY DEF IInv, TypeOK, MainFitsState, WatchFitsState
<1>4. FinishFitsMain'
  BY DEF IInv, TypeOK, MainFitsState, FinishFitsMain
<1>5. LayersFitState'
  BY DEF IInv, TypeOK, MainFitsState, LayersFitState
<1>6. AnswerFitsState'
  BY DEF IInv, TypeOK, MainFitsState, AnswerFitsState
<1>. QED
  BY <1>1, <1>2, <1>3, <1>4, <1>5, <1>6 DEF IInv

LEMMA RestartInv == IInv /\ Restart => IInv'
<1> SUFFICES ASSUME IInv, Restart PROVE IInv'
  OBVIOUS
<1> USE DEF Restart, Completed, KeepAlive, DropSink, Issue
<1>1. TypeOK'
  BY DEF IInv, TypeOK
<1>2. MainFitsState'
  BY DEF IInv, TypeOK, MainFitsState
<1>3. WatchFitsState'
  BY DEF IInv, TypeOK, MainFitsState, WatchFitsState
<1>4. FinishFitsMain'
  BY DEF IInv, TypeOK, MainFitsState, FinishFitsMain
<1>5. LayersFitState'
  BY DEF IInv, TypeOK, MainFitsState, LayersFitState
<1>6. AnswerFitsState'
  BY DEF IInv, TypeOK, MainFitsState, AnswerFitsState
<1>. QED
  BY <1>1, <1>2, <1>3, <1>4, <1>5, <1>6 DEF IInv

LEMMA StopInv == IInv /\ Stop => IInv'
<1> SUFFICES ASSUME IInv, Stop PROVE IInv'
  OBVIOUS
<1> USE DEF Stop, Completed, KeepAlive, OnFinish, DropSink, NoOp, CancelWatch
<1>1. TypeOK'
  <2>1. owed' \in Nat
    BY DEF IInv, TypeOK, FinishFitsMain
  <2>. QED
    BY <2>1, Zenon DEF IInv, TypeOK
<1>2. MainFitsState'
  BY DEF IInv, TypeOK, MainFitsState
<1>3. WatchFitsState'
  BY DEF IInv, TypeOK, MainFitsState, WatchFitsState
<1>4. FinishFitsMain'
  BY DEF IInv, TypeOK, MainFitsState, FinishFitsMain
<1>5. LayersFitState'
  BY DEF IInv, TypeOK, MainFitsState, LayersFitState
<1>6. AnswerFitsState'
  BY DEF IInv, TypeOK, MainFitsState, AnswerFitsState
<1>. QED
  BY <1>1, <1>2, <1>3, <1>4, <1>5, <1>6 DEF IInv

LEMMA IoFailedInv == IInv /\ IoFailed => IInv'
<1> SUFFICES ASSUME IInv, IoFailed PROVE IInv'
  OBVIOUS
<1> USE DEF IoFailed, Completed, OnFinish, NoOp, Leave, CancelWatch
<1>1. TypeOK'
  <2>1. owed' \in Nat
    BY DEF IInv, TypeOK, FinishFitsMain
  <2>. QED
    BY <2>1, ZenonT(30) DEF IInv, TypeOK
<1>2. MainFitsState'
  BY DEF IInv, TypeOK, MainFitsState
<1>3. WatchFitsState'
  BY DEF IInv, TypeOK, MainFitsState, WatchFitsState
<1>4. FinishFitsMain'
  BY DEF IInv, TypeOK, MainFitsState, FinishFitsMain
<1>5. LayersFitState'
  BY DEF IInv, TypeOK, MainFitsState, LayersFitState
<1>6. AnswerFitsState'
  BY DEF IInv, TypeOK, MainFitsState, AnswerFitsState
<1>. QED
  BY <1>1, <1>2, <1>3, <1>4, <1>5, <1>6 DEF IInv

LEMMA HookFailedInv == IInv /\ HookFailed => IInv'
<1> SUFFICES ASSUME IInv, HookFailed PROVE IInv'
  OBVIOUS
<1> USE DEF HookFailed, Completed, Issue
<1>1. TypeOK'
  BY DEF IInv, TypeOK
<1>2. MainFitsState'
  BY DEF IInv, TypeOK, MainFitsState
<1>3. WatchFitsState'
  BY DEF IInv, TypeOK, MainFitsState, WatchFitsState
<1>4. FinishFitsMain'
  BY DEF IInv, TypeOK, MainFitsState, FinishFitsMain
<1>5. LayersFitState'
  BY DEF IInv, TypeOK, MainFitsState, LayersFitState
<1>6. AnswerFitsState'
  BY DEF IInv, TypeOK, MainFitsState, AnswerFitsState
<1>. QED
  BY <1>1, <1>2, <1>3, <1>4, <1>5, <1>6 DEF IInv

LEMMA WatchExitsInv == IInv /\ WatchExits => IInv'
  BY DEF IInv, TypeOK, MainFitsState, WatchFitsState, FinishFitsMain,
         LayersFitState, AnswerFitsState, WatchExits, WatchRuns, DeleteThis

LEMMA WatchRestartsInv == IInv /\ WatchRestarts => IInv'
<1> SUFFICES ASSUME IInv, WatchRestarts PROVE IInv'
  OBVIOUS
<1> USE DEF WatchRestarts, WatchRuns, Start, Issue
<1>1. TypeOK'
  <2>1. owed' \in Nat
    BY DEF IInv, TypeOK
  <2>. QED
    BY <2>1, Zenon DEF IInv, TypeOK
<1>2. MainFitsState'
  BY DEF IInv, TypeOK, MainFitsState
<1>3. WatchFitsState'
  BY DEF IInv, TypeOK, MainFitsState, WatchFitsState
<1>4. FinishFitsMain'
  BY DEF IInv, TypeOK, MainFitsState, FinishFitsMain
<1>5. LayersFitState'
  BY DEF IInv, TypeOK, MainFitsState, LayersFitState
<1>6. AnswerFitsState'
  BY DEF IInv, TypeOK, MainFitsState, AnswerFitsState
<1>. QED
  BY <1>1, <1>2, <1>3, <1>4, <1>5, <1>6 DEF IInv

LEMMA WatchAbortedInv == IInv /\ WatchAborted => IInv'
  BY DEF IInv, TypeOK, MainFitsState, WatchFitsState, FinishFitsMain,
         LayersFitState, AnswerFitsState, WatchAborted, WatchRuns

LEMMA WatchReadyInv == IInv /\ WatchReady => IInv'
  BY DEF IInv, TypeOK, MainFitsState, WatchFitsState, FinishFitsMain,
         LayersFitState, AnswerFitsState, WatchReady, WatchRuns, PeekOK, PeekFails, OnBrokenPipe

LEMMA PeekReturnsInv == IInv /\ PeekReturns => IInv'
  BY DEF IInv, TypeOK, MainFitsState, WatchFitsState, FinishFitsMain,
         LayersFitState, AnswerFitsState, PeekReturns, PeekOK, PeekFails, OnBrokenPipe

LEMMA WatchFiresInv == IInv /\ WatchFires => IInv'
  BY DEF IInv, TypeOK, MainFitsState, WatchFitsState, FinishFitsMain,
         LayersFitState, AnswerFitsState, WatchFires

LEMMA ReadHeadInv == IInv /\ ReadHead => IInv'
<1> SUFFICES ASSUME IInv, ReadHead PROVE IInv'
  OBVIOUS
<1> USE DEF ReadHead
<1>1. TypeOK'
  BY DEF IInv, TypeOK
<1>2. MainFitsState'
  BY DEF IInv, TypeOK, MainFitsState
<1>3. WatchFitsState'
  BY DEF IInv, TypeOK, MainFitsState, WatchFitsState
<1>4. FinishFitsMain'
  BY DEF IInv, TypeOK, MainFitsState, FinishFitsMain
<1>5. LayersFitState'
  BY DEF IInv, TypeOK, MainFitsState, LayersFitState
<1>6. AnswerFitsState'
  BY DEF IInv, TypeOK, MainFitsState, AnswerFitsState
<1>. QED
  BY <1>1, <1>2, <1>3, <1>4, <1>5, <1>6 DEF IInv

LEMMA ReadBodyInv == IInv /\ ReadBody => IInv'
  BY DEF IInv, TypeOK, MainFitsState, WatchFitsState, FinishFitsMain,
         LayersFitState, AnswerFitsState, ReadBody

LEMMA WriteInv == IInv /\ Write => IInv'
  BY DEF IInv, TypeOK, MainFitsState, WatchFitsState, FinishFitsMain,
         LayersFitState, AnswerFitsState, Write

LEMMA PeerFailsIoInv == IInv /\ PeerFailsIo => IInv'
  BY DEF IInv, TypeOK, MainFitsState, WatchFitsState, FinishFitsMain,
         LayersFitState, AnswerFitsState, PeerFailsIo

LEMMA HookRepliesInv == IInv /\ HookReplies => IInv'
<1> SUFFICES ASSUME IInv, HookReplies PROVE IInv'
  OBVIOUS
<1> USE DEF HookReplies
<1>1. TypeOK'
  BY DEF IInv, TypeOK
<1>2. MainFitsState'
  BY DEF IInv, TypeOK, MainFitsState
<1>3. WatchFitsState'
  BY DEF IInv, TypeOK, MainFitsState, WatchFitsState
<1>4. FinishFitsMain'
  BY DEF IInv, TypeOK, MainFitsState, FinishFitsMain
<1>5. LayersFitState'
  BY DEF IInv, TypeOK, MainFitsState, LayersFitState
<1>6. AnswerFitsState'
  BY DEF IInv, TypeOK, MainFitsState, AnswerFitsState
<1>. QED
  BY <1>1, <1>2, <1>3, <1>4, <1>5, <1>6 DEF IInv

LEMMA HookCancelsInv == IInv /\ HookCancels => IInv'
  BY DEF IInv, TypeOK, MainFitsState, WatchFitsState, FinishFitsMain,
         LayersFitState, AnswerFitsState, HookCancels, CancelWatch

LEMMA PeerSendsInv == IInv /\ PeerSends => IInv'
  BY DEF IInv, TypeOK, MainFitsState, WatchFitsState, FinishFitsMain,
         LayersFitState, AnswerFitsState, PeerSends, PeerTurn

LEMMA PeerClosesInv == IInv /\ PeerCloses => IInv'
  BY DEF IInv, TypeOK, MainFitsState, WatchFitsState, FinishFitsMain,
         LayersFitState, AnswerFitsState, PeerCloses

LEMMA StutterInv == IInv /\ UNCHANGED vars => IInv'
  BY DEF vars, IInv, TypeOK, MainFitsState, WatchFitsState, FinishFitsMain,
         LayersFitState, AnswerFitsState

\* Every step of the connection, of its environment, or of neither, keeps the
\* invariant.
LEMMA NextInv == IInv /\ [Next]_vars => IInv'
<1> SUFFICES ASSUME IInv, [Next]_vars PROVE IInv'
  OBVIOUS
<1>1. CASE Accept \/ PeekReturns \/ HookReplies
  BY <1>1, AcceptInv, PeekReturnsInv, HookRepliesInv
<1>2. CASE HandleAsync
  BY <1>2, HandleBrokenInv, ReceivedRequestHeadInv, PreparedInv,
     ReceivedRequestDataInv, LocalProcessedInv, SentResponseHeadInv, ExitInv,
     RestartInv, StopInv, IoFailedInv, HookFailedInv DEF HandleAsync
<1>3. CASE HandleWatch
  BY <1>3, WatchExitsInv, WatchRestartsInv, WatchAbortedInv, WatchReadyInv
     DEF HandleWatch
<1>4. CASE Socket
  BY <1>4, WatchFiresInv, ReadHeadInv, ReadBodyInv, WriteInv, PeerFailsIoInv
     DEF Socket
<1>5. CASE Environment
  BY <1>5, HookCancelsInv, PeerSendsInv, PeerClosesInv DEF Environment
<1>6. CASE UNCHANGED vars
  BY <1>6, StutterInv
<1>. QED
  BY <1>1, <1>2, <1>3, <1>4, <1>5, <1>6 DEF Next

\* The inductive invariant holds in every state the connection reaches.
THEOREM Invariance == Spec => []IInv
  BY InitInv, NextInv, PTL DEF Spec

-----------------------------------------------------------------------------
(* What the invariant gives.                                                *)

\* Every variable keeps its type.
THEOREM TypeCorrect == Spec => []TypeOK
<1>1. IInv => TypeOK
  BY DEF IInv
<1>. QED
  BY <1>1, Invariance, PTL

\* `delete this` (HttpServer.cpp:100, 129, 211, 245) runs only when no
\* callback is left that could reach the object.
THEOREM DeleteIsSafe == Spec => []DeleteSafe
<1>1. IInv => DeleteSafe
  BY DEF IInv, TypeOK, FinishFitsMain, WatchFitsState, DeleteSafe
<1>. QED
  BY <1>1, Invariance, PTL

\* handle_async never reads the request while the watch reads null_buffers.
THEOREM ReadsAreExclusive == Spec => []OneReader
<1>1. IInv => OneReader
  BY DEF IInv, TypeOK, MainFitsState, WatchFitsState, OneReader
<1>. QED
  BY <1>1, Invariance, PTL

\* on_finish is called once for every start.
THEOREM FinishIsCalledOnce == Spec => []OneFinishPerStart
<1>1. IInv => OneFinishPerStart
  BY DEF IInv, FinishFitsMain, OneFinishPerStart
<1>. QED
  BY <1>1, Invariance, PTL

\* No assertion of handle_async, set_source or set_sink fails.
THEOREM NoAssertFails == Spec => []AssertsHold
<1>1. IInv => AssertsHold
  BY DEF IInv, MainFitsState, LayersFitState, AssertsHold
<1>. QED
  BY <1>1, Invariance, PTL

\* However a request ends, on_finish is called once for it and no assert fails
\* on the way: the two theorems above together (EndsCleanly).
THEOREM EndsAreClean == Spec => []EndsCleanly
<1>1. OneFinishPerStart /\ AssertsHold => EndsCleanly
  BY DEF EndsCleanly
<1>. QED
  BY <1>1, FinishIsCalledOnce, NoAssertFails, PTL

\* A connection is used for another request only after an answer that said
\* where it ends, was no error, and to a client that asked to keep it.
THEOREM KeepAliveIsFramed == Spec => KeepAliveOnlyFramed
<1> DEFINE Kept ==
      /\ state = "transferring_response_data"
      /\ state' \in {"stopped", "receiving_request_head"}
      => length /\ outcome = "ok" /\ reqConn = "keep_alive"
<1>1. IInv /\ [Next]_vars => [Kept]_vars
  <2> SUFFICES ASSUME IInv, Next, state = "transferring_response_data",
                      state' \in {"stopped", "receiving_request_head"}
               PROVE  length /\ outcome = "ok" /\ reqConn = "keep_alive"
    OBVIOUS
  <2>1. Restart \/ Stop
    BY DEF Next, HandleAsync, HandleWatch, Socket, Environment, Accept, Start,
       HandleBroken, ReceivedRequestHead, Prepared, ReceivedRequestData,
       LocalProcessed, SentResponseHead, Exit, IoFailed, HookFailed, Completed,
       WatchExits, WatchRestarts, WatchAborted, WatchReady, WatchRuns,
       PeekReturns, WatchFires, ReadHead, ReadBody, Write, PeerFailsIo,
       HookReplies, HookCancels, PeerSends, PeerCloses
  <2>. QED
    BY <2>1 DEF IInv, AnswerFitsState, Restart, Stop, KeepAlive
<1>. QED
  BY <1>1, Invariance, PTL DEF Spec, KeepAliveOnlyFramed
==============================================================================
