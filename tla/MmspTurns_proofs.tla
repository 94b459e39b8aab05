--------------------------- MODULE MmspTurns_proofs ---------------------------
(***************************************************************************)
(* The clients of mmsp, proved to serve their requests in turn for every      *)
(* number of messages, connections and replies, and the lemmas on queues of    *)
(* messages that the proofs of mmsp and of rtmp rest on.                       *)
(***************************************************************************)
EXTENDS Sessions, SequenceTheorems, FiniteSetTheorems, FunctionTheorems, TLAPS

-----------------------------------------------------------------------------
(* Queues of messages of which one is told apart from the rest.              *)

\* One message of q is of T, the others are of S.
OneOf(q, S, T) ==
    /\ q \in Seq(S \cup T)
    /\ \E i \in 1..Len(q) : q[i] \in T /\ \A j \in 1..Len(q) : j # i => q[j] \in S

\* The message told apart is put behind the rest.
LEMMA OneIsPut ==
  ASSUME NEW S, NEW T, NEW q \in Seq(S), NEW t \in T
  PROVE  OneOf(Append(q, t), S, T)
  <1> DEFINE r == Append(q, t)
  <1>1. q \in Seq(S \cup T)
    BY SeqMonotonic
  <1>2. /\ r \in Seq(S \cup T) /\ Len(r) = Len(q) + 1 /\ Len(q) \in Nat
        /\ \A i \in 1..Len(q) : r[i] = q[i]
        /\ r[Len(q) + 1] = t
    BY <1>1, AppendProperties, LenProperties
  <1>3. \A i \in 1..Len(q) : q[i] \in S
    BY ElementOfSeq
  <1> HIDE DEF r
  <1>4. Len(q) + 1 \in 1..Len(r) /\ \A j \in 1..Len(r) : j # Len(q) + 1 => j \in 1..Len(q)
    BY <1>2
  <1> QED BY <1>2, <1>3, <1>4 DEF OneOf, r

\* Another message is put behind it.
LEMMA OneIsFollowed ==
  ASSUME NEW S, NEW T, NEW q, OneOf(q, S, T), NEW x \in S
  PROVE  OneOf(Append(q, x), S, T)
  <1> DEFINE r == Append(q, x)
  <1>1. PICK i \in 1..Len(q) : q[i] \in T /\ \A j \in 1..Len(q) : j # i => q[j] \in S
    BY DEF OneOf
  <1>2. q \in Seq(S \cup T)
    BY DEF OneOf
  <1>3. /\ r \in Seq(S \cup T) /\ Len(r) = Len(q) + 1 /\ Len(q) \in Nat
        /\ \A k \in 1..Len(q) : r[k] = q[k]
        /\ r[Len(q) + 1] = x
    BY <1>2, AppendProperties, LenProperties
  <1> HIDE DEF r
  <1>4. i \in 1..Len(r) /\ \A j \in 1..Len(r) : j \in 1..Len(q) \/ j = Len(q) + 1
    BY <1>1, <1>3
  <1>5. i \in 1..Len(q) /\ r[i] \in T
    BY <1>1, <1>3
  <1>6. ASSUME NEW j \in 1..Len(r), j # i PROVE r[j] \in S
    BY <1>1, <1>3, <1>4, <1>6
  <1> QED BY <1>3, <1>4, <1>5, <1>6 DEF OneOf, r

\* The first message is taken: it is the one, or the one is still to come.
LEMMA OneIsTaken ==
  ASSUME NEW S, NEW T, NEW q, OneOf(q, S, T)
  PROVE  /\ q # << >> /\ Head(q) = q[1]
         /\ \/ Head(q) \in S /\ OneOf(Tail(q), S, T)
            \/ Head(q) \in T /\ Tail(q) \in Seq(S)
  <1>1. PICK i \in 1..Len(q) : q[i] \in T /\ \A j \in 1..Len(q) : j # i => q[j] \in S
    BY DEF OneOf
  <1>2. q \in Seq(S \cup T)
    BY DEF OneOf
  <1>3. Len(q) \in Nat /\ Len(q) # 0
    BY <1>1, <1>2, LenProperties
  <1>4. q # << >>
    BY <1>3
  <1> DEFINE t == Tail(q)
  <1>5. /\ t \in Seq(S \cup T) /\ Len(t) = Len(q) - 1 /\ \A k \in 1..Len(t) : t[k] = q[k + 1]
    BY <1>2, <1>4, HeadTailProperties
  <1>6. Head(q) = q[1]
    BY <1>2, <1>4
  <1> HIDE DEF t
  <1>7. CASE i = 1
    <2>1. \A k \in 1..Len(t) : k + 1 \in 1..Len(q) /\ k + 1 # 1
      BY <1>3, <1>5
    <2>2. \A k \in 1..Len(t) : t[k] \in S
      BY <1>1, <1>5, <1>7, <2>1
    <2>3. Len(t) \in Nat /\ t \in [1..Len(t) -> S \cup T]
      BY <1>5, LenProperties
    <2>4. t \in [1..Len(t) -> S]
      BY <2>2, <2>3
    <2>5. t \in Seq(S)
      BY <2>3, <2>4, SeqDef
    <2> QED BY <1>1, <1>4, <1>6, <1>7, <2>5 DEF t
  <1>8. CASE i # 1
    <2>1. i - 1 \in 1..Len(t) /\ 1 \in 1..Len(q) /\ (i - 1) + 1 = i
      BY <1>3, <1>5, <1>8
    <2>2. t[i - 1] = q[i] /\ q[1] \in S
      BY <1>1, <1>5, <1>8, <2>1
    <2>3. ASSUME NEW k \in 1..Len(t), k # i - 1 PROVE t[k] \in S
      <3>1. k + 1 \in 1..Len(q) /\ k + 1 # i
        BY <1>3, <1>5, <2>3
      <3> QED BY <1>1, <1>5, <3>1
    <2>4. OneOf(t, S, T)
      BY <1>1, <1>5, <2>1, <2>2, <2>3 DEF OneOf
    <2> QED BY <1>4, <1>6, <2>2, <2>4 DEF t
  <1> QED BY <1>7, <1>8

\* A message is put behind messages of its kind, and the first of them taken.
LEMMA RestIsPut ==
  ASSUME NEW S, NEW q \in Seq(S), NEW x \in S
  PROVE  Append(q, x) \in Seq(S)
  BY AppendProperties

LEMMA RestIsTaken ==
  ASSUME NEW S, NEW q \in Seq(S), q # << >>
  PROVE  Head(q) \in S /\ Head(q) = q[1] /\ Tail(q) \in Seq(S)
  BY HeadTailProperties, EmptySeq, ElementOfSeq
-----------------------------------------------------------------------------
(* MmspClient and MmspServer: an inductive invariant of a session s, in named *)
(* parts.                                                                    *)

\* The client does not go on with what a failed call has left, nor calls tick
\* before its calls are over; of its writes that of a request may block.
MmspInUse ==
    /\ MmspModes \subseteq {"async", "sync"} /\ MmspStrays \subseteq {"ping", "stream"}
    /\ Blocks \subseteq {"request"} /\ Again = FALSE /\ TickWhen = {}

MmspAsked == {"connect", "connect_funnel", "open_file", "read_block", "start_playing"}
MmspPlan == <<"connect", "connect_funnel", "open_file", "read_block", "start_playing">>
MmspChat == {"ping", "stream"} \X {"none"}
MmspHolds == MmspAsked \cup {"none"}
MmspAnswers == {"answer", "error"} \X MmspAsked

\* The states of the parts, which those of RtmpClient and RtmpServer have too.
Modes == {"async", "sync"}
Statuses == {"closed", "connectting", "net_connectting", "established", "broken"}
Progress == {"finished", "send_pending", "sending_req", "recving_resp"}
Operations == {"none", "connect", "write", "read"}
UserCalls == {"none", "failed", "connect", "play", "publish"}
Busies == {"none", "read", "local", "write", "deleted"}

MmspSessions ==
    [mode : Modes, status : Statuses, request : Progress,
     requests : Seq(MmspAsked), proto : BOOLEAN, op : Operations,
     pending : Seq(MmspAsked), call : UserCalls,
     made : Seq(MmspAsked), served : Seq(MmspAsked \X MmspAsked), good : BOOLEAN,
     reading : BOOLEAN, dirty : BOOLEAN, asked : Nat, replied : Nat, link : BOOLEAN,
     up : Seq({"pong"} \cup MmspAsked), down : Seq(MmspChat \cup MmspAnswers),
     busy : Busies, current : MmspHolds,
     got : Seq(MmspAsked), finished : Nat, strays : Nat, tries : Nat, failed : BOOLEAN]

MmspCalling(s) == s.call # "none" /\ s.call # "failed"
MmspSent(s) ==
    IF s.mode = "async" THEN s.op \in {"write", "read"}
    ELSE s.request = "recving_resp" /\ MmspCalling(s)

\* What is called, and what for it is under way.
MmspCalls(s) ==
    /\ s.mode = "sync" => s.op = "none"
    /\ s.mode = "async" => s.pending = << >> /\ (MmspCalling(s) <=> s.op # "none")
    /\ s.op = "connect" => s.status = "connectting" /\ s.call = "connect"
    /\ s.op \in {"write", "read"} => s.requests # << >> /\ s.status # "connectting"
    /\ s.mode = "sync" /\ MmspCalling(s) => s.status # "closed" /\ s.requests # << >>
    /\ s.status = "connectting" /\ MmspCalling(s) =>
          s.requests = Mmsp!ConnectRequests /\ ~s.dirty
    /\ s.status \in {"closed", "connectting"} => ~s.link

\* A client that connects has nothing left of the connection before.
MmspFresh(s) ==
    /\ s.mode = "sync" /\ s.status \in {"closed", "connectting"} /\ ~s.dirty =>
          /\ s.pending = << >>
          /\ s.requests = << >> \/ (s.requests = Mmsp!ConnectRequests /\ s.request = "send_pending")
    /\ s.dirty => s.call = "failed" \/ (s.call = "none" /\ s.status = "closed")
    /\ ~s.good => s.dirty
    /\ s.reading => s.dirty \/ s.status \notin {"closed", "connectting"}
    /\ s.mode = "async" /\ s.reading => s.op = "none" /\ (s.link => Len(s.made) = 5)

\* The server has the first of the requests, one more than are answered at most.
MmspPast(s) ==
    /\ Len(s.got) <= Len(s.made) /\ \A i \in 1..Len(s.got) : s.got[i] = s.made[i]
    /\ Len(s.got) <= Len(s.served) + 1
    /\ \A i \in 1..Len(s.served) : s.served[i][1] = s.served[i][2]
    /\ s.replied >= s.asked

\* The server holds the last request it has got until it has answered it.
MmspServes(s) ==
    s.link => /\ s.busy \in {"read", "local", "write"} /\ (s.busy = "read" <=> s.current = "none")
              /\ s.finished + (IF s.current = "none" THEN 0 ELSE 1) = Len(s.got)

\* The requests that are left are those made that are not answered yet.
MmspTurn(s) ==
    s.link /\ s.call # "failed" =>
        /\ s.made = Mmsp!ConnectRequests \/ (s.made = MmspPlan /\ Len(s.served) >= 2)
        /\ Len(s.made) = Len(s.served) + Len(s.requests)
        /\ \A i \in 1..Len(s.requests) : s.requests[i] = s.made[Len(s.served) + i]
        /\ (s.requests = << >>) <=> (s.call = "none")
        /\ s.call = "none" <=> s.request = "finished"
        /\ s.pending # << >> =>
              s.requests # << >> /\ s.pending[1] = s.requests[1] /\ s.request = "sending_req"

\* The server streams once it has got the last request.
MmspStreams(s) ==
    s.link /\ s.call # "failed" /\ Len(s.got) # 5 =>
        s.down \in Seq({<<"ping", "none">>} \cup MmspAnswers)

\* Where the first of them is: with the client, on its way, with the server, or answered.
MmspUnsent(s) ==
    /\ ~MmspSent(s) /\ s.up \in Seq({"pong"}) /\ s.down \in Seq(MmspChat)
    /\ Len(s.got) = Len(s.served) /\ s.busy # "local"
MmspOnItsWay(s) ==
    /\ MmspSent(s) /\ OneOf(s.up, {"pong"}, {s.requests[1]}) /\ s.down \in Seq(MmspChat)
    /\ Len(s.got) = Len(s.served) /\ s.busy # "local"
MmspHeld(s) ==
    /\ MmspSent(s) /\ s.up \in Seq({"pong"}) /\ s.down \in Seq(MmspChat)
    /\ Len(s.got) = Len(s.served) + 1 /\ s.busy = "local" /\ s.current = s.requests[1]
MmspAnswered(s) ==
    /\ MmspSent(s) /\ s.up \in Seq({"pong"})
    /\ OneOf(s.down, MmspChat, {"answer", "error"} \X {s.requests[1]})
    /\ Len(s.got) = Len(s.served) + 1 /\ s.busy # "local"

MmspStage(s) ==
    /\ s.link /\ s.call # "failed" =>
          MmspUnsent(s) \/ MmspOnItsWay(s) \/ MmspHeld(s) \/ MmspAnswered(s)
    /\ s.link /\ s.call = "failed" => s.dirty /\ s.up \in Seq({"pong"}) /\ s.busy # "local"

MmspGood(s) ==
    /\ s \in MmspSessions /\ ~s.failed
    /\ MmspCalls(s) /\ MmspFresh(s) /\ MmspPast(s) /\ MmspServes(s)
    /\ MmspTurn(s) /\ MmspStreams(s) /\ MmspStage(s)

\* Two states of a session with the same client, the same wire, the same server.
MmspClientAs(q, s) ==
    /\ q.mode = s.mode /\ q.status = s.status /\ q.request = s.request
    /\ q.requests = s.requests /\ q.op = s.op /\ q.pending = s.pending /\ q.call = s.call
    /\ q.made = s.made /\ q.served = s.served /\ q.good = s.good /\ q.reading = s.reading
    /\ q.dirty = s.dirty /\ q.asked = s.asked /\ q.replied = s.replied
MmspServerAs(q, s) ==
    q.busy = s.busy /\ q.current = s.current /\ q.got = s.got /\ q.finished = s.finished

LEMMA StatesAre ==
  /\ "async" \in Modes /\ "sync" \in Modes
  /\ "closed" \in Statuses /\ "connectting" \in Statuses /\ "net_connectting" \in Statuses
  /\ "established" \in Statuses /\ "broken" \in Statuses
  /\ "finished" \in Progress /\ "send_pending" \in Progress
  /\ "sending_req" \in Progress /\ "recving_resp" \in Progress
  /\ "none" \in Operations /\ "connect" \in Operations
  /\ "write" \in Operations /\ "read" \in Operations
  /\ "none" \in UserCalls /\ "failed" \in UserCalls /\ "connect" \in UserCalls
  /\ "play" \in UserCalls /\ "publish" \in UserCalls
  /\ "none" \in Busies /\ "read" \in Busies /\ "local" \in Busies
  /\ "write" \in Busies /\ "deleted" \in Busies
  BY DEF Modes, Statuses, Progress, Operations, UserCalls, Busies

LEMMA MmspPlanIs ==
  /\ Mmsp!ConnectRequests \in Seq(MmspAsked) /\ Mmsp!PlayRequests \in Seq(MmspAsked)
  /\ Len(Mmsp!ConnectRequests) = 2 /\ Len(Mmsp!PlayRequests) = 3
  /\ MmspPlan \in Seq(MmspAsked) /\ Len(MmspPlan) = 5
  /\ Mmsp!ConnectRequests[1] = "connect" /\ Mmsp!ConnectRequests[2] = "connect_funnel"
  /\ Mmsp!PlayRequests[1] = "open_file" /\ Mmsp!PlayRequests[2] = "read_block"
  /\ Mmsp!PlayRequests[3] = "start_playing"
  /\ MmspPlan[1] = "connect" /\ MmspPlan[2] = "connect_funnel" /\ MmspPlan[3] = "open_file"
  /\ MmspPlan[4] = "read_block" /\ MmspPlan[5] = "start_playing"
  BY DEF Mmsp!ConnectRequests, Mmsp!PlayRequests, MmspPlan, MmspAsked

LEMMA MmspPlanJoins == Mmsp!ConnectRequests \o Mmsp!PlayRequests = MmspPlan
  <1>1. PICK a, b \in Seq(MmspAsked) : a = Mmsp!ConnectRequests /\ b = Mmsp!PlayRequests
    BY MmspPlanIs
  <1> DEFINE c == a \o b
  <1>2. /\ c \in Seq(MmspAsked) /\ Len(c) = Len(a) + Len(b)
        /\ \A i \in 1..Len(a) + Len(b) : c[i] = IF i <= Len(a) THEN a[i] ELSE b[i - Len(a)]
    BY ConcatProperties
  <1> HIDE DEF c
  <1>3. Len(a) = 2 /\ Len(b) = 3
    BY <1>1, MmspPlanIs
  <1>4. \A i \in 1..5 : c[i] = MmspPlan[i]
    <2>1. c[1] = MmspPlan[1] /\ c[2] = MmspPlan[2]
      BY <1>1, <1>2, <1>3, MmspPlanIs
    <2>2. c[3] = MmspPlan[3] /\ c[4] = MmspPlan[4] /\ c[5] = MmspPlan[5]
      BY <1>1, <1>2, <1>3, MmspPlanIs
    <2>3. \A i \in 1..5 : i = 1 \/ i = 2 \/ i = 3 \/ i = 4 \/ i = 5
      OBVIOUS
    <2> QED BY <2>1, <2>2, <2>3
  <1>5. c = MmspPlan
    <2>1. Len(c) = 5 /\ c \in Seq(MmspAsked) /\ MmspPlan \in Seq(MmspAsked) /\ Len(MmspPlan) = 5
      BY <1>2, <1>3, MmspPlanIs
    <2>2. \A i \in 1..Len(c) : c[i] = MmspPlan[i]
      BY <1>4, <2>1
    <2> QED BY <2>1, <2>2, SeqEqual
  <1> QED BY <1>1, <1>5 DEF c

LEMMA MmspStart ==
  ASSUME MmspInUse, Mmsp!MmspInit
  PROVE  MmspGood(mmsp)
  <1>1. PICK mode \in Modes :
          mmsp = [mode |-> mode, status |-> "closed", request |-> "finished", requests |-> << >>,
                  proto |-> FALSE, op |-> "none", pending |-> << >>, call |-> "none", made |-> << >>,
                  served |-> << >>, good |-> TRUE, reading |-> FALSE, dirty |-> FALSE, asked |-> 0,
                  replied |-> 0, link |-> FALSE, up |-> << >>, down |-> << >>, busy |-> "none",
                  current |-> "none", got |-> << >>, finished |-> 0, strays |-> 0, tries |-> 0,
                  failed |-> FALSE]
    BY DEF MmspInUse, Mmsp!MmspInit, Mmsp!None, Modes
  <1>2. /\ << >> \in Seq(MmspAsked) /\ << >> \in Seq(MmspAsked \X MmspAsked)
        /\ << >> \in Seq({"pong"} \cup MmspAsked) /\ << >> \in Seq(MmspChat \cup MmspAnswers)
    BY EmptySeq
  <1>8. "none" \in MmspHolds
    BY DEF MmspHolds
  <1>3. mmsp \in MmspSessions
    BY <1>1, <1>2, <1>8, StatesAre DEF MmspSessions
  <1>4. /\ mmsp.status = "closed" /\ mmsp.requests = << >> /\ mmsp.op = "none"
        /\ mmsp.pending = << >> /\ mmsp.call = "none" /\ mmsp.made = << >> /\ mmsp.served = << >>
        /\ mmsp.good = TRUE /\ mmsp.reading = FALSE /\ mmsp.dirty = FALSE /\ mmsp.asked = 0
        /\ mmsp.replied = 0 /\ mmsp.link = FALSE /\ mmsp.got = << >> /\ mmsp.failed = FALSE
    BY <1>1
  <1>5. Len(mmsp.got) = 0 /\ Len(mmsp.served) = 0 /\ Len(mmsp.made) = 0
    BY <1>4
  <1>6. MmspPast(mmsp)
    BY <1>4, <1>5 DEF MmspPast
  <1>7. MmspCalls(mmsp) /\ MmspFresh(mmsp)
    BY <1>4 DEF MmspCalls, MmspFresh, MmspCalling
  <1> QED BY <1>3, <1>4, <1>6, <1>7 DEF MmspGood, MmspServes, MmspTurn, MmspStreams, MmspStage

\* What a session without its connection is to keep.
LEMMA MmspUnlinked ==
  ASSUME NEW q \in MmspSessions, ~q.link, ~q.failed, MmspCalls(q), MmspFresh(q), MmspPast(q)
  PROVE  MmspGood(q)
  BY DEF MmspGood, MmspServes, MmspTurn, MmspStreams, MmspStage

\* What a step of the server or of the network leaves alone.
LEMMA MmspKept ==
  ASSUME NEW s, NEW q \in MmspSessions, MmspGood(s), MmspClientAs(q, s), q.link => s.link
  PROVE  /\ MmspCalls(q) /\ MmspFresh(q) /\ MmspTurn(q)
         /\ MmspSent(q) <=> MmspSent(s)
  <1>1. MmspCalls(s) /\ MmspFresh(s) /\ MmspTurn(s)
    BY DEF MmspGood
  <1>2. MmspCalls(q)
    BY <1>1 DEF MmspCalls, MmspCalling, MmspClientAs
  <1>3. MmspFresh(q)
    BY <1>1 DEF MmspFresh, MmspClientAs
  <1>4. MmspTurn(q)
    BY <1>1, ZenonT(40) DEF MmspTurn, MmspClientAs
  <1> QED BY <1>2, <1>3, <1>4 DEF MmspSent, MmspCalling, MmspClientAs

LEMMA MmspPastKept ==
  ASSUME NEW s, NEW q, MmspPast(s), MmspClientAs(q, s), q.got = s.got
  PROVE  MmspPast(q)
  BY DEF MmspPast, MmspClientAs

\* The request whose turn it is.
LEMMA MmspFront ==
  ASSUME NEW s \in MmspSessions, MmspCalls(s), MmspTurn(s), s.link, s.call # "failed", MmspSent(s)
  PROVE  /\ s.requests # << >> /\ Len(s.requests) \in Nat \ {0}
         /\ s.requests[1] \in MmspAsked /\ s.requests[1] # "pong" /\ Head(s.requests) = s.requests[1]
         /\ s.requests[1] = s.made[Len(s.served) + 1] /\ Len(s.served) \in Nat
         /\ Len(s.made) = Len(s.served) + Len(s.requests) /\ Len(s.made) <= 5 /\ Len(s.made) \in Nat
  <1>1. s.requests \in Seq(MmspAsked) /\ s.served \in Seq(MmspAsked \X MmspAsked)
    BY DEF MmspSessions
  <1>2. s.call # "none"
    BY DEF MmspSent, MmspCalls, MmspCalling, MmspSessions, Modes
  <1>3. /\ s.requests # << >> /\ Len(s.made) = Len(s.served) + Len(s.requests)
        /\ s.made = Mmsp!ConnectRequests \/ s.made = MmspPlan
    BY <1>2 DEF MmspTurn
  <1>4. Len(s.requests) \in Nat \ {0} /\ Len(s.served) \in Nat
    BY <1>1, <1>3, EmptySeq, LenProperties
  <1>5. s.requests[1] \in MmspAsked /\ Head(s.requests) = s.requests[1]
    BY <1>1, <1>3, RestIsTaken
  <1>6. s.requests[1] = s.made[Len(s.served) + 1]
    <2>1. \A i \in 1..Len(s.requests) : s.requests[i] = s.made[Len(s.served) + i]
      BY DEF MmspTurn
    <2>2. 1 \in 1..Len(s.requests)
      BY <1>4
    <2> QED BY <2>1, <2>2
  <1>7. s.requests[1] # "pong"
    BY <1>5 DEF MmspAsked
  <1>8. Len(s.made) = 2 \/ Len(s.made) = 5
    BY <1>3, MmspPlanIs
  <1>9. Len(s.made) \in Nat /\ Len(s.made) <= 5
    <2>1. CASE Len(s.made) = 2
      BY <2>1
    <2>2. CASE Len(s.made) = 5
      BY <2>2
    <2> QED BY <1>8, <2>1, <2>2
  <1> QED BY <1>3, <1>4, <1>5, <1>6, <1>7, <1>9

LEMMA MmspLose ==
  ASSUME MmspGood(mmsp), Mmsp!Lose
  PROVE  MmspGood(mmsp')
  <1> DEFINE q == [mmsp EXCEPT !.link = FALSE]
  <1>1. mmsp \in MmspSessions /\ ~mmsp.failed /\ MmspPast(mmsp)
    BY DEF MmspGood
  <1>2. mmsp' = q /\ mmsp.link
    BY DEF Mmsp!Lose
  <1>5. q \in MmspSessions
    BY <1>1, StatesAre DEF MmspSessions
  <1>3. /\ q.mode = mmsp.mode /\ q.status = mmsp.status /\ q.request = mmsp.request
        /\ q.requests = mmsp.requests /\ q.proto = mmsp.proto /\ q.op = mmsp.op
        /\ q.pending = mmsp.pending /\ q.call = mmsp.call /\ q.made = mmsp.made
        /\ q.served = mmsp.served /\ q.good = mmsp.good /\ q.reading = mmsp.reading
        /\ q.dirty = mmsp.dirty /\ q.asked = mmsp.asked /\ q.replied = mmsp.replied
        /\ q.link = FALSE /\ q.up = mmsp.up /\ q.down = mmsp.down /\ q.busy = mmsp.busy
        /\ q.current = mmsp.current /\ q.got = mmsp.got /\ q.finished = mmsp.finished
        /\ q.strays = mmsp.strays /\ q.tries = mmsp.tries /\ q.failed = mmsp.failed
    BY <1>1 DEF MmspSessions
  <1> HIDE DEF q
  <1>4. MmspClientAs(q, mmsp)
    BY <1>3 DEF MmspClientAs
  <1> QED BY <1>1, <1>2, <1>3, <1>4, <1>5, MmspKept, MmspPastKept, MmspUnlinked

LEMMA MmspServerError ==
  ASSUME MmspGood(mmsp), Mmsp!handle_error
  PROVE  MmspGood(mmsp')
  <1> DEFINE q == [mmsp EXCEPT !.busy = "deleted", !.current = "none"]
  <1>1. mmsp \in MmspSessions /\ ~mmsp.failed /\ MmspPast(mmsp)
    BY DEF MmspGood
  <1>2. mmsp' = q /\ ~mmsp.link
    BY DEF Mmsp!handle_error, Mmsp!None
  <1>6. "none" \in MmspHolds
    BY DEF MmspHolds
  <1>5. q \in MmspSessions
    BY <1>1, <1>6, StatesAre DEF MmspSessions
  <1>3. /\ q.mode = mmsp.mode /\ q.status = mmsp.status /\ q.request = mmsp.request
        /\ q.requests = mmsp.requests /\ q.proto = mmsp.proto /\ q.op = mmsp.op
        /\ q.pending = mmsp.pending /\ q.call = mmsp.call /\ q.made = mmsp.made
        /\ q.served = mmsp.served /\ q.good = mmsp.good /\ q.reading = mmsp.reading
        /\ q.dirty = mmsp.dirty /\ q.asked = mmsp.asked /\ q.replied = mmsp.replied
        /\ q.link = mmsp.link /\ q.up = mmsp.up /\ q.down = mmsp.down /\ q.busy = "deleted"
        /\ q.current = "none" /\ q.got = mmsp.got /\ q.finished = mmsp.finished
        /\ q.strays = mmsp.strays /\ q.tries = mmsp.tries /\ q.failed = mmsp.failed
    BY <1>1 DEF MmspSessions
  <1> HIDE DEF q
  <1>4. MmspClientAs(q, mmsp)
    BY <1>3 DEF MmspClientAs
  <1> QED BY <1>1, <1>2, <1>3, <1>4, <1>5, MmspKept, MmspPastKept, MmspUnlinked

LEMMA MmspStray ==
  ASSUME MmspInUse, MmspGood(mmsp), Mmsp!Stray
  PROVE  MmspGood(mmsp')
  <1>1. PICK kind \in {"ping", "stream"} :
          /\ kind = "stream" =>
               /\ Mmsp!Last(mmsp.made) = Mmsp!Last(Mmsp!PlayRequests)
               /\ Mmsp!Last(mmsp.got) = Mmsp!Last(Mmsp!PlayRequests)
          /\ mmsp' = [mmsp EXCEPT !.down = Append(@, <<kind, "none">>), !.strays = @ + 1]
    BY DEF MmspInUse, Mmsp!Stray, Mmsp!None
  <1>2. mmsp.link /\ mmsp.busy \in {"read", "local"}
    BY DEF Mmsp!Stray
  <1>3. /\ mmsp \in MmspSessions /\ ~mmsp.failed /\ MmspPast(mmsp) /\ MmspServes(mmsp)
        /\ MmspTurn(mmsp) /\ MmspStreams(mmsp) /\ MmspStage(mmsp)
    BY DEF MmspGood
  <1> DEFINE m == <<kind, "none">>
             d == Append(mmsp.down, m)
  <1>4. m \in MmspChat /\ (kind = "ping" => m = <<"ping", "none">>)
    BY DEF MmspChat
  <1> HIDE DEF m
  <1>5. mmsp.down \in Seq(MmspChat \cup MmspAnswers)
    BY <1>3 DEF MmspSessions
  <1>6. d \in Seq(MmspChat \cup MmspAnswers)
    BY <1>4, <1>5, RestIsPut
  <1>7. PICK n \in Nat : n = mmsp.strays + 1
    BY <1>3 DEF MmspSessions
  <1> DEFINE q == [mmsp EXCEPT !.down = d, !.strays = n]
  <1>8. mmsp' = q
    BY <1>1, <1>3, <1>7 DEF MmspSessions, m
  <1> HIDE DEF d
  <1>9. q \in MmspSessions
    BY <1>3, <1>6, StatesAre DEF MmspSessions
  <1>10. /\ q.mode = mmsp.mode /\ q.status = mmsp.status /\ q.request = mmsp.request
         /\ q.requests = mmsp.requests /\ q.proto = mmsp.proto /\ q.op = mmsp.op
         /\ q.pending = mmsp.pending /\ q.call = mmsp.call /\ q.made = mmsp.made
         /\ q.served = mmsp.served /\ q.good = mmsp.good /\ q.reading = mmsp.reading
         /\ q.dirty = mmsp.dirty /\ q.asked = mmsp.asked /\ q.replied = mmsp.replied
         /\ q.link = mmsp.link /\ q.up = mmsp.up /\ q.down = d /\ q.busy = mmsp.busy
         /\ q.current = mmsp.current /\ q.got = mmsp.got /\ q.finished = mmsp.finished
         /\ q.strays = n /\ q.tries = mmsp.tries /\ q.failed = mmsp.failed
    BY <1>3 DEF MmspSessions
  <1> HIDE DEF q
  <1>11. MmspClientAs(q, mmsp)
    BY <1>10 DEF MmspClientAs
  <1>12. /\ MmspCalls(q) /\ MmspFresh(q) /\ MmspTurn(q) /\ MmspPast(q)
         /\ MmspSent(q) <=> MmspSent(mmsp)
    BY <1>2, <1>3, <1>9, <1>10, <1>11, MmspKept, MmspPastKept
  <1>13. MmspServes(q)
    BY <1>3, <1>10 DEF MmspServes
  <1>14. ASSUME mmsp.call # "failed", kind = "stream" PROVE Len(mmsp.got) = 5
    <2>1. mmsp.made[Len(mmsp.made)] = "start_playing" /\ mmsp.got[Len(mmsp.got)] = "start_playing"
      BY <1>1, <1>14, MmspPlanIs DEF Mmsp!Last
    <2>2. mmsp.made = MmspPlan /\ Len(mmsp.served) >= 2
      BY <1>2, <1>3, <1>14, <2>1, MmspPlanIs DEF MmspTurn
    <2>3. /\ Len(mmsp.got) = Len(mmsp.served) \/ Len(mmsp.got) = Len(mmsp.served) + 1
      BY <1>2, <1>3, <1>14 DEF MmspStage, MmspUnsent, MmspOnItsWay, MmspHeld, MmspAnswered
    <2>4. Len(mmsp.got) \in Nat /\ Len(mmsp.served) \in Nat
      BY <1>3, LenProperties DEF MmspSessions
    <2>5. PICK k \in Nat : k = Len(mmsp.got)
      BY <2>4
    <2>6. k <= 5 /\ \A i \in 1..k : mmsp.got[i] = MmspPlan[i]
      BY <1>3, <2>2, <2>5, MmspPlanIs DEF MmspPast
    <2>7. k >= 2
      BY <2>2, <2>3, <2>4, <2>5
    <2>8. MmspPlan[k] = "start_playing"
      BY <2>1, <2>5, <2>6, <2>7
    <2>9. k \in {2, 3, 4, 5}
      BY <2>6, <2>7
    <2> QED BY <2>5, <2>8, <2>9, MmspPlanIs
  <1>15. MmspStreams(q)
    <2> SUFFICES ASSUME mmsp.call # "failed", Len(mmsp.got) # 5
                 PROVE  d \in Seq({<<"ping", "none">>} \cup MmspAnswers)
      BY <1>10 DEF MmspStreams
    <2>1. mmsp.down \in Seq({<<"ping", "none">>} \cup MmspAnswers)
      BY <1>2, <1>3 DEF MmspStreams
    <2>2. m \in {<<"ping", "none">>} \cup MmspAnswers
      BY <1>4, <1>14
    <2> QED BY <2>1, <2>2, RestIsPut DEF d
  <1>16. MmspStage(q)
    <2>1. CASE mmsp.call = "failed"
      BY <1>2, <1>3, <1>10, <2>1 DEF MmspStage
    <2>2. CASE mmsp.call # "failed" /\ mmsp.down \in Seq(MmspChat)
      <3>1. d \in Seq(MmspChat)
        BY <1>4, <2>2, RestIsPut DEF d
      <3>2. MmspUnsent(mmsp) \/ MmspOnItsWay(mmsp) \/ MmspHeld(mmsp) \/ MmspAnswered(mmsp)
        BY <1>2, <1>3, <2>2 DEF MmspStage
      <3>3. CASE MmspUnsent(mmsp)
        <4>1. MmspUnsent(q)
          BY <1>10, <1>12, <3>1, <3>3 DEF MmspUnsent
        <4> QED BY <1>10, <2>2, <4>1 DEF MmspStage
      <3>4. CASE MmspOnItsWay(mmsp)
        <4>1. MmspOnItsWay(q)
          BY <1>10, <1>12, <3>1, <3>4 DEF MmspOnItsWay
        <4> QED BY <1>10, <2>2, <4>1 DEF MmspStage
      <3>5. CASE MmspHeld(mmsp)
        <4>1. MmspHeld(q)
          BY <1>10, <1>12, <3>1, <3>5 DEF MmspHeld
        <4> QED BY <1>10, <2>2, <4>1 DEF MmspStage
      <3>6. CASE MmspAnswered(mmsp)
        <4>1. OneOf(d, MmspChat, {"answer", "error"} \X {mmsp.requests[1]})
          BY <1>4, <3>6, OneIsFollowed DEF MmspAnswered, d
        <4>2. MmspAnswered(q)
          BY <1>10, <1>12, <3>6, <4>1 DEF MmspAnswered
        <4> QED BY <1>10, <2>2, <4>2 DEF MmspStage
      <3> QED BY <3>2, <3>3, <3>4, <3>5, <3>6
    <2>3. CASE mmsp.call # "failed" /\ mmsp.down \notin Seq(MmspChat)
      <3>1. MmspAnswered(mmsp)
        BY <1>2, <1>3, <2>3 DEF MmspStage, MmspUnsent, MmspOnItsWay, MmspHeld
      <3>2. OneOf(d, MmspChat, {"answer", "error"} \X {mmsp.requests[1]})
        BY <1>4, <3>1, OneIsFollowed DEF MmspAnswered, d
      <3>3. MmspAnswered(q)
        BY <1>10, <1>12, <3>1, <3>2 DEF MmspAnswered
      <3> QED BY <1>10, <2>3, <3>3 DEF MmspStage
    <2> QED BY <2>1, <2>2, <2>3
  <1> QED BY <1>3, <1>8, <1>9, <1>10, <1>12, <1>13, <1>15, <1>16 DEF MmspGood

LEMMA MmspReceiveRequest ==
  ASSUME MmspGood(mmsp), Mmsp!handle_receive_request
  PROVE  MmspGood(mmsp')
  <1>1. /\ mmsp.busy = "read" /\ mmsp.link /\ mmsp.up # << >>
        /\ mmsp' = IF Head(mmsp.up) = "pong" THEN Mmsp!start([mmsp EXCEPT !.up = Tail(@)])
                   ELSE [[mmsp EXCEPT !.up = Tail(@)] EXCEPT !.busy = "local",
                            !.current = Head(mmsp.up), !.got = Append(@, Head(mmsp.up))]
    BY DEF Mmsp!handle_receive_request
  <1>2. /\ mmsp \in MmspSessions /\ ~mmsp.failed /\ MmspPast(mmsp) /\ MmspServes(mmsp)
        /\ MmspTurn(mmsp) /\ MmspStreams(mmsp) /\ MmspStage(mmsp) /\ MmspCalls(mmsp)
    BY DEF MmspGood
  <1>3. mmsp.up \in Seq({"pong"} \cup MmspAsked) /\ mmsp.got \in Seq(MmspAsked)
    BY <1>2 DEF MmspSessions
  <1> DEFINE m == Head(mmsp.up)
             u == Tail(mmsp.up)
             g == Append(mmsp.got, m)
  <1>4. m \in {"pong"} \cup MmspAsked /\ u \in Seq({"pong"} \cup MmspAsked)
    BY <1>1, <1>3, RestIsTaken
  <1>5. CASE m = "pong"
    <2> DEFINE q == [mmsp EXCEPT !.up = u, !.busy = "read", !.current = "none"]
    <2>1. mmsp' = q
      BY <1>1, <1>2, <1>5 DEF Mmsp!start, Mmsp!None, MmspSessions
    <2> HIDE DEF m, u, g
    <2> "none" \in MmspHolds
      BY DEF MmspHolds
    <2>2. q \in MmspSessions
      BY <1>2, <1>4, StatesAre DEF MmspSessions
    <2>3. /\ q.mode = mmsp.mode /\ q.status = mmsp.status /\ q.request = mmsp.request
          /\ q.requests = mmsp.requests /\ q.proto = mmsp.proto /\ q.op = mmsp.op
          /\ q.pending = mmsp.pending /\ q.call = mmsp.call /\ q.made = mmsp.made
          /\ q.served = mmsp.served /\ q.good = mmsp.good /\ q.reading = mmsp.reading
          /\ q.dirty = mmsp.dirty /\ q.asked = mmsp.asked /\ q.replied = mmsp.replied
          /\ q.link = mmsp.link /\ q.up = u /\ q.down = mmsp.down /\ q.busy = "read"
          /\ q.current = "none" /\ q.got = mmsp.got /\ q.finished = mmsp.finished
          /\ q.strays = mmsp.strays /\ q.tries = mmsp.tries /\ q.failed = mmsp.failed
      BY <1>2 DEF MmspSessions
    <2> HIDE DEF q
    <2>4. MmspClientAs(q, mmsp)
      BY <2>3 DEF MmspClientAs
    <2>5. /\ MmspCalls(q) /\ MmspFresh(q) /\ MmspTurn(q) /\ MmspPast(q)
          /\ MmspSent(q) <=> MmspSent(mmsp)
      BY <1>1, <1>2, <2>2, <2>3, <2>4, MmspKept, MmspPastKept
    <2>6. MmspServes(q) /\ MmspStreams(q)
      BY <1>1, <1>2, <2>3 DEF MmspServes, MmspStreams
    <2>7. MmspStage(q)
      <3>1. CASE mmsp.call = "failed"
        <4>1. u \in Seq({"pong"})
          BY <1>1, <1>2, <3>1, RestIsTaken DEF MmspStage, u
        <4> QED BY <1>1, <1>2, <2>3, <3>1, <4>1 DEF MmspStage
      <3>2. CASE mmsp.call # "failed" /\ mmsp.up \in Seq({"pong"})
        <4>1. u \in Seq({"pong"})
          BY <1>1, <3>2, RestIsTaken DEF u
        <4>2. MmspUnsent(mmsp) \/ MmspOnItsWay(mmsp) \/ MmspAnswered(mmsp)
          BY <1>1, <1>2, <3>2 DEF MmspStage, MmspHeld
        <4>3. CASE MmspUnsent(mmsp)
          <5>1. MmspUnsent(q)
            BY <2>3, <2>5, <4>1, <4>3 DEF MmspUnsent
          <5> QED BY <2>3, <3>2, <5>1 DEF MmspStage
        <4>4. CASE MmspAnswered(mmsp)
          <5>1. MmspAnswered(q)
            BY <2>3, <2>5, <4>1, <4>4 DEF MmspAnswered
          <5> QED BY <2>3, <3>2, <5>1 DEF MmspStage
        <4>5. CASE MmspOnItsWay(mmsp)
          <5>1. \/ m = mmsp.requests[1] \/ OneOf(u, {"pong"}, {mmsp.requests[1]})
            BY <4>5, OneIsTaken DEF MmspOnItsWay, m, u
          <5>2. mmsp.requests[1] # "pong"
            BY <1>1, <1>2, <3>2, <4>5, MmspFront DEF MmspOnItsWay
          <5>3. MmspOnItsWay(q)
            BY <1>5, <2>3, <2>5, <4>5, <5>1, <5>2 DEF MmspOnItsWay
          <5> QED BY <2>3, <3>2, <5>3 DEF MmspStage
        <4> QED BY <4>2, <4>3, <4>4, <4>5
      <3>3. CASE mmsp.call # "failed" /\ mmsp.up \notin Seq({"pong"})
        <4>1. MmspOnItsWay(mmsp)
          BY <1>1, <1>2, <3>3 DEF MmspStage, MmspUnsent, MmspHeld, MmspAnswered
        <4>2. \/ m = mmsp.requests[1] \/ OneOf(u, {"pong"}, {mmsp.requests[1]})
          BY <4>1, OneIsTaken DEF MmspOnItsWay, m, u
        <4>3. mmsp.requests[1] # "pong"
          BY <1>1, <1>2, <3>3, <4>1, MmspFront DEF MmspOnItsWay
        <4>4. MmspOnItsWay(q)
          BY <1>5, <2>3, <2>5, <4>1, <4>2, <4>3 DEF MmspOnItsWay
        <4> QED BY <2>3, <3>3, <4>4 DEF MmspStage
      <3> QED BY <3>1, <3>2, <3>3
    <2> QED BY <1>2, <2>1, <2>2, <2>3, <2>5, <2>6, <2>7 DEF MmspGood
  <1>6. CASE m # "pong"
    <2>1. mmsp.up \notin Seq({"pong"})
      BY <1>1, <1>6, RestIsTaken
    <2>2. mmsp.call # "failed" /\ MmspOnItsWay(mmsp)
      BY <1>1, <1>2, <2>1 DEF MmspStage, MmspUnsent, MmspHeld, MmspAnswered
    <2>3. m = mmsp.requests[1] /\ u \in Seq({"pong"})
      <3>1. \/ m \in {"pong"}
            \/ m \in {mmsp.requests[1]} /\ u \in Seq({"pong"})
        BY <2>2, OneIsTaken DEF MmspOnItsWay
      <3> QED BY <1>6, <3>1
    <2> DEFINE q == [mmsp EXCEPT !.up = u, !.busy = "local", !.current = m, !.got = g]
    <2>4. mmsp' = q
      BY <1>1, <1>2, <1>6 DEF MmspSessions
    <2>5. m \in MmspAsked
      BY <1>4, <1>6
    <2> HIDE DEF m, u
    <2>6. /\ g \in Seq(MmspAsked) /\ Len(g) = Len(mmsp.got) + 1 /\ g[Len(mmsp.got) + 1] = m
          /\ \A i \in 1..Len(mmsp.got) : g[i] = mmsp.got[i]
          /\ Len(mmsp.got) \in Nat
      BY <1>3, <2>5, AppendProperties, LenProperties
    <2> HIDE DEF g
    <2> m \in MmspHolds
      BY <2>5 DEF MmspHolds
    <2>7. q \in MmspSessions
      BY <1>2, <1>4, <2>6, StatesAre DEF MmspSessions
    <2>8. /\ q.mode = mmsp.mode /\ q.status = mmsp.status /\ q.request = mmsp.request
          /\ q.requests = mmsp.requests /\ q.proto = mmsp.proto /\ q.op = mmsp.op
          /\ q.pending = mmsp.pending /\ q.call = mmsp.call /\ q.made = mmsp.made
          /\ q.served = mmsp.served /\ q.good = mmsp.good /\ q.reading = mmsp.reading
          /\ q.dirty = mmsp.dirty /\ q.asked = mmsp.asked /\ q.replied = mmsp.replied
          /\ q.link = mmsp.link /\ q.up = u /\ q.down = mmsp.down /\ q.busy = "local"
          /\ q.current = m /\ q.got = g /\ q.finished = mmsp.finished /\ q.strays = mmsp.strays
          /\ q.tries = mmsp.tries /\ q.failed = mmsp.failed
      BY <1>2 DEF MmspSessions
    <2> HIDE DEF q
    <2>9. MmspClientAs(q, mmsp)
      BY <2>8 DEF MmspClientAs
    <2>10. /\ MmspCalls(q) /\ MmspFresh(q) /\ MmspTurn(q)
           /\ MmspSent(q) <=> MmspSent(mmsp)
      BY <1>1, <2>7, <2>8, <2>9, MmspKept
    <2>11. /\ mmsp.requests # << >> /\ Len(mmsp.made) = Len(mmsp.served) + Len(mmsp.requests)
           /\ mmsp.requests[1] = mmsp.made[Len(mmsp.served) + 1] /\ Len(mmsp.requests) \in Nat \ {0}
           /\ Len(mmsp.served) \in Nat /\ Len(mmsp.made) <= 5 /\ Len(mmsp.made) \in Nat
      BY <1>1, <1>2, <2>2, MmspFront DEF MmspOnItsWay
    <2>12. Len(mmsp.got) = Len(mmsp.served)
      BY <2>2 DEF MmspOnItsWay
    <2>13. MmspPast(q)
      <3>1. Len(g) <= Len(mmsp.made) /\ Len(g) <= Len(mmsp.served) + 1
        BY <2>6, <2>11, <2>12
      <3>2. \A i \in 1..Len(g) : i \in 1..Len(mmsp.got) \/ i = Len(mmsp.got) + 1
        BY <2>6
      <3>3. \A i \in 1..Len(g) : g[i] = mmsp.made[i]
        BY <1>2, <2>3, <2>6, <2>11, <2>12, <3>2 DEF MmspPast
      <3> QED BY <1>2, <2>8, <3>1, <3>3 DEF MmspPast
    <2>14. MmspServes(q)
      <3>1. mmsp.current = "none" /\ mmsp.finished = Len(mmsp.got)
        BY <1>1, <1>2, <2>6 DEF MmspServes, MmspSessions
      <3>2. m # "none"
        BY <2>5 DEF MmspAsked
      <3> QED BY <1>1, <2>6, <2>8, <3>1, <3>2 DEF MmspServes
    <2>15. MmspStreams(q)
      <3>1. PICK a, b, c \in Nat : /\ a = Len(mmsp.made) /\ b = Len(mmsp.served) /\ c = Len(mmsp.requests)
                                   /\ c # 0 /\ a = b + c /\ a <= 5
        BY <2>11
      <3>4. c # 0 /\ a = b + c /\ a <= 5
        BY <3>1
      <3>2. b # 5
        BY <3>4
      <3>3. Len(mmsp.got) # 5
        BY <2>12, <3>1, <3>2
      <3> QED BY <1>1, <1>2, <2>2, <2>8, <3>3 DEF MmspStreams
    <2>16. MmspHeld(q)
      BY <2>2, <2>3, <2>6, <2>8, <2>10 DEF MmspHeld, MmspOnItsWay
    <2> QED BY <1>2, <2>2, <2>4, <2>7, <2>8, <2>10, <2>13, <2>14, <2>15, <2>16 DEF MmspGood, MmspStage
  <1> QED BY <1>5, <1>6

LEMMA MmspLocalProcess ==
  ASSUME MmspGood(mmsp), Mmsp!handle_local_process
  PROVE  MmspGood(mmsp')
  <1>1. PICK k \in {"answer", "error"} :
          mmsp' = [mmsp EXCEPT !.busy = "write", !.down = Append(@, <<k, mmsp.current>>)]
    BY DEF Mmsp!handle_local_process
  <1>2. /\ mmsp \in MmspSessions /\ ~mmsp.failed /\ MmspPast(mmsp) /\ MmspServes(mmsp)
        /\ MmspTurn(mmsp) /\ MmspStreams(mmsp) /\ MmspStage(mmsp) /\ MmspCalls(mmsp)
        /\ mmsp.busy = "local" /\ mmsp.link
    BY DEF MmspGood, Mmsp!handle_local_process
  <1>3. mmsp.call # "failed" /\ MmspHeld(mmsp)
    BY <1>2 DEF MmspStage, MmspUnsent, MmspOnItsWay, MmspAnswered
  <1>4. mmsp.current = mmsp.requests[1] /\ mmsp.requests[1] \in MmspAsked
    BY <1>2, <1>3, MmspFront DEF MmspHeld
  <1> DEFINE m == <<k, mmsp.current>>
             d == Append(mmsp.down, m)
  <1>5. m \in MmspAnswers /\ m \in {"answer", "error"} \X {mmsp.requests[1]}
    BY <1>4 DEF MmspAnswers
  <1> HIDE DEF m
  <1>6. d \in Seq(MmspChat \cup MmspAnswers)
    BY <1>2, <1>5, RestIsPut DEF MmspSessions
  <1>7. OneOf(d, MmspChat, {"answer", "error"} \X {mmsp.requests[1]})
    BY <1>3, <1>5, OneIsPut DEF MmspHeld
  <1>8. Len(mmsp.got) # 5 => d \in Seq({<<"ping", "none">>} \cup MmspAnswers)
    BY <1>2, <1>3, <1>5, RestIsPut DEF MmspStreams
  <1> DEFINE q == [mmsp EXCEPT !.busy = "write", !.down = d]
  <1>9. mmsp' = q
    BY <1>1, <1>2 DEF MmspSessions, m
  <1> HIDE DEF d
  <1>10. q \in MmspSessions
    BY <1>2, <1>6, StatesAre DEF MmspSessions
  <1>11. /\ q.mode = mmsp.mode /\ q.status = mmsp.status /\ q.request = mmsp.request
         /\ q.requests = mmsp.requests /\ q.proto = mmsp.proto /\ q.op = mmsp.op
         /\ q.pending = mmsp.pending /\ q.call = mmsp.call /\ q.made = mmsp.made
         /\ q.served = mmsp.served /\ q.good = mmsp.good /\ q.reading = mmsp.reading
         /\ q.dirty = mmsp.dirty /\ q.asked = mmsp.asked /\ q.replied = mmsp.replied
         /\ q.link = mmsp.link /\ q.up = mmsp.up /\ q.down = d /\ q.busy = "write"
         /\ q.current = mmsp.current /\ q.got = mmsp.got /\ q.finished = mmsp.finished
         /\ q.strays = mmsp.strays /\ q.tries = mmsp.tries /\ q.failed = mmsp.failed
    BY <1>2 DEF MmspSessions
  <1> HIDE DEF q
  <1>12. MmspClientAs(q, mmsp)
    BY <1>11 DEF MmspClientAs
  <1>13. /\ MmspCalls(q) /\ MmspFresh(q) /\ MmspTurn(q) /\ MmspPast(q)
         /\ MmspSent(q) <=> MmspSent(mmsp)
    BY <1>2, <1>10, <1>11, <1>12, MmspKept, MmspPastKept
  <1>14. mmsp.current # "none"
    BY <1>4 DEF MmspAsked
  <1>15. MmspServes(q) /\ MmspStreams(q)
    BY <1>2, <1>8, <1>11, <1>14 DEF MmspServes, MmspStreams
  <1>16. MmspAnswered(q)
    BY <1>3, <1>7, <1>11, <1>13 DEF MmspHeld, MmspAnswered
  <1> QED BY <1>2, <1>3, <1>9, <1>10, <1>11, <1>13, <1>15, <1>16 DEF MmspGood, MmspStage

LEMMA MmspSendResponse ==
  ASSUME MmspGood(mmsp), Mmsp!handle_send_response
  PROVE  MmspGood(mmsp')
  <1>1. /\ mmsp \in MmspSessions /\ ~mmsp.failed /\ MmspPast(mmsp) /\ MmspServes(mmsp)
        /\ MmspTurn(mmsp) /\ MmspStreams(mmsp) /\ MmspStage(mmsp) /\ MmspCalls(mmsp)
        /\ mmsp.busy = "write" /\ mmsp.link
    BY DEF MmspGood, Mmsp!handle_send_response
  <1>2. PICK f \in Nat : f = mmsp.finished + 1
    BY <1>1 DEF MmspSessions
  <1> DEFINE q == [mmsp EXCEPT !.finished = f, !.busy = "read", !.current = "none"]
  <1>3. mmsp' = q
    BY <1>1, <1>2 DEF Mmsp!handle_send_response, Mmsp!start, Mmsp!None, MmspSessions
  <1> "none" \in MmspHolds
    BY DEF MmspHolds
  <1>4. q \in MmspSessions
    BY <1>1, StatesAre DEF MmspSessions
  <1>5. /\ q.mode = mmsp.mode /\ q.status = mmsp.status /\ q.request = mmsp.request
        /\ q.requests = mmsp.requests /\ q.proto = mmsp.proto /\ q.op = mmsp.op
        /\ q.pending = mmsp.pending /\ q.call = mmsp.call /\ q.made = mmsp.made
        /\ q.served = mmsp.served /\ q.good = mmsp.good /\ q.reading = mmsp.reading
        /\ q.dirty = mmsp.dirty /\ q.asked = mmsp.asked /\ q.replied = mmsp.replied
        /\ q.link = mmsp.link /\ q.up = mmsp.up /\ q.down = mmsp.down /\ q.busy = "read"
        /\ q.current = "none" /\ q.got = mmsp.got /\ q.finished = f /\ q.strays = mmsp.strays
        /\ q.tries = mmsp.tries /\ q.failed = mmsp.failed
    BY <1>1 DEF MmspSessions
  <1> HIDE DEF q
  <1>6. MmspClientAs(q, mmsp)
    BY <1>5 DEF MmspClientAs
  <1>7. /\ MmspCalls(q) /\ MmspFresh(q) /\ MmspTurn(q) /\ MmspPast(q)
        /\ MmspSent(q) <=> MmspSent(mmsp)
    BY <1>1, <1>4, <1>5, <1>6, MmspKept, MmspPastKept
  <1>8. MmspServes(q) /\ MmspStreams(q)
    BY <1>1, <1>2, <1>5 DEF MmspServes, MmspStreams
  <1>9. /\ MmspUnsent(mmsp) => MmspUnsent(q)
        /\ MmspOnItsWay(mmsp) => MmspOnItsWay(q)
        /\ MmspAnswered(mmsp) => MmspAnswered(q)
        /\ ~MmspHeld(mmsp)
    BY <1>1, <1>5, <1>7 DEF MmspUnsent, MmspOnItsWay, MmspAnswered, MmspHeld
  <1>10. MmspStage(q)
    BY <1>1, <1>5, <1>9 DEF MmspStage
  <1> QED BY <1>1, <1>3, <1>4, <1>5, <1>7, <1>8, <1>10 DEF MmspGood

LEMMA MmspServesKept ==
  ASSUME NEW s, NEW q, MmspServes(s), MmspServerAs(q, s), q.link => s.link
  PROVE  MmspServes(q)
  BY DEF MmspServes, MmspServerAs

LEMMA MmspWrites ==
  ASSUME NEW s \in MmspSessions, NEW m \in {"pong"} \cup MmspAsked
  PROVE  \E r \in Nat, u \in Seq({"pong"} \cup MmspAsked) :
           /\ Mmsp!Write(s, m) = [s EXCEPT !.up = u, !.replied = r]
           /\ u = Append(s.up, m) /\ r >= s.replied /\ (m = "pong" => r = s.replied + 1)
  <1>1. s.up \in Seq({"pong"} \cup MmspAsked) /\ s.replied \in Nat
    BY DEF MmspSessions
  <1>2. PICK u \in Seq({"pong"} \cup MmspAsked) : u = Append(s.up, m)
    BY <1>1, RestIsPut
  <1>3. PICK r \in Nat : r = s.replied + (IF m = "pong" THEN 1 ELSE 0)
    BY <1>1
  <1>4. Mmsp!Write(s, m) = [s EXCEPT !.up = u, !.replied = r]
    BY <1>2, <1>3 DEF Mmsp!Write, MmspSessions
  <1>5. r >= s.replied /\ (m = "pong" => r = s.replied + 1)
    BY <1>1, <1>3
  <1> QED BY <1>2, <1>4, <1>5

LEMMA MmspSend ==
  ASSUME NEW s \in MmspSessions, ~s.failed, s.pending = << >>, s.requests # << >>
  PROVE  \E r \in Nat, u \in Seq({"pong"} \cup MmspAsked) :
           /\ Mmsp!Send(s) = [s EXCEPT !.up = u, !.replied = r, !.request = "sending_req",
                                       !.op = "write", !.failed = FALSE]
           /\ u = Append(s.up, s.requests[1]) /\ r >= s.replied
  <1>1. s.requests \in Seq(MmspAsked)
    BY DEF MmspSessions
  <1>2. Head(s.requests) = s.requests[1] /\ s.requests[1] \in {"pong"} \cup MmspAsked
    BY <1>1, RestIsTaken
  <1>3. PICK r \in Nat, u \in Seq({"pong"} \cup MmspAsked) :
           /\ Mmsp!Write(s, s.requests[1]) = [s EXCEPT !.up = u, !.replied = r]
           /\ u = Append(s.up, s.requests[1]) /\ r >= s.replied
    BY <1>2, MmspWrites
  <1>4. Mmsp!Send(s) = [s EXCEPT !.up = u, !.replied = r, !.request = "sending_req",
                                 !.op = "write", !.failed = FALSE]
    BY <1>2, <1>3 DEF Mmsp!Send, MmspSessions
  <1> QED BY <1>3, <1>4

LEMMA MmspFail ==
  ASSUME MmspGood(mmsp), Mmsp!Fail
  PROVE  MmspGood(mmsp')
  <1>1. /\ mmsp \in MmspSessions /\ ~mmsp.failed /\ MmspPast(mmsp) /\ MmspCalls(mmsp)
        /\ MmspFresh(mmsp) /\ ~mmsp.link
    BY DEF MmspGood, Mmsp!Fail
  <1>2. << >> \in Seq(MmspAsked)
    BY EmptySeq
  <1>3. CASE mmsp.mode = "async"
    <2> DEFINE q == [mmsp EXCEPT !.status = "broken", !.requests = << >>, !.op = "none",
                                 !.dirty = TRUE, !.failed = FALSE, !.call = "failed"]
    <2>1. mmsp.op \in {"write", "read"} /\ mmsp.requests # << >>
      BY <1>1, <1>3 DEF Mmsp!Fail, MmspCalls
    <2>2. mmsp' = q
      BY <1>1, <1>3, <2>1 DEF Mmsp!Fail, Mmsp!Broken, Mmsp!response, Mmsp!None, MmspSessions
    <2>3. q \in MmspSessions
      BY <1>1, <1>2, StatesAre DEF MmspSessions
    <2>4. /\ q.mode = mmsp.mode /\ q.status = "broken" /\ q.request = mmsp.request
          /\ q.requests = << >> /\ q.proto = mmsp.proto /\ q.op = "none"
          /\ q.pending = mmsp.pending /\ q.call = "failed" /\ q.made = mmsp.made
          /\ q.served = mmsp.served /\ q.good = mmsp.good /\ q.reading = mmsp.reading
          /\ q.dirty = TRUE /\ q.asked = mmsp.asked /\ q.replied = mmsp.replied
          /\ q.link = mmsp.link /\ q.up = mmsp.up /\ q.down = mmsp.down /\ q.busy = mmsp.busy
          /\ q.current = mmsp.current /\ q.got = mmsp.got /\ q.finished = mmsp.finished
          /\ q.strays = mmsp.strays /\ q.tries = mmsp.tries /\ q.failed = FALSE
      BY <1>1 DEF MmspSessions
    <2> HIDE DEF q
    <2>5. MmspPast(q)
      BY <1>1, <2>4 DEF MmspPast
    <2>6. MmspCalls(q) /\ MmspFresh(q)
      BY <1>1, <1>3, <2>1, <2>4 DEF MmspCalls, MmspFresh, MmspCalling
    <2> QED BY <1>1, <2>2, <2>3, <2>4, <2>5, <2>6, MmspUnlinked
  <1>4. CASE mmsp.mode # "async"
    <2> DEFINE q == [mmsp EXCEPT !.dirty = TRUE, !.call = "failed"]
    <2>1. mmsp.mode = "sync" /\ mmsp.op = "none" /\ mmsp.status # "connectting"
      BY <1>1, <1>4 DEF Mmsp!Fail, MmspCalls, MmspSessions, Modes
    <2>2. mmsp' = q
      BY <1>1, <1>4 DEF Mmsp!Fail, Mmsp!response, Mmsp!None, MmspSessions
    <2>3. q \in MmspSessions
      BY <1>1, StatesAre DEF MmspSessions
    <2>4. /\ q.mode = mmsp.mode /\ q.status = mmsp.status /\ q.request = mmsp.request
          /\ q.requests = mmsp.requests /\ q.proto = mmsp.proto /\ q.op = mmsp.op
          /\ q.pending = mmsp.pending /\ q.call = "failed" /\ q.made = mmsp.made
          /\ q.served = mmsp.served /\ q.good = mmsp.good /\ q.reading = mmsp.reading
          /\ q.dirty = TRUE /\ q.asked = mmsp.asked /\ q.replied = mmsp.replied
          /\ q.link = mmsp.link /\ q.up = mmsp.up /\ q.down = mmsp.down /\ q.busy = mmsp.busy
          /\ q.current = mmsp.current /\ q.got = mmsp.got /\ q.finished = mmsp.finished
          /\ q.strays = mmsp.strays /\ q.tries = mmsp.tries /\ q.failed = mmsp.failed
      BY <1>1 DEF MmspSessions
    <2> HIDE DEF q
    <2>5. MmspPast(q)
      BY <1>1, <2>4 DEF MmspPast
    <2>6. MmspCalls(q) /\ MmspFresh(q)
      BY <1>1, <2>1, <2>4 DEF MmspCalls, MmspFresh, MmspCalling
    <2> QED BY <1>1, <2>2, <2>3, <2>4, <2>5, <2>6, MmspUnlinked
  <1> QED BY <1>3, <1>4

LEMMA MmspClose ==
  ASSUME MmspGood(mmsp), Mmsp!close
  PROVE  MmspGood(mmsp')
  <1>1. /\ mmsp \in MmspSessions /\ ~mmsp.failed /\ MmspPast(mmsp) /\ MmspCalls(mmsp)
        /\ MmspFresh(mmsp)
    BY DEF MmspGood
  <1>2. /\ \/ mmsp.call = "none" /\ mmsp.op = "none"
           \/ mmsp.call = "failed"
           \/ MmspCalling(mmsp) /\ mmsp.status # "connectting"
    BY DEF Mmsp!close, Mmsp!Free, Mmsp!None, MmspCalling
  <1>3. PICK d \in BOOLEAN :
          d = (\/ mmsp.dirty \/ mmsp.reading \/ mmsp.pending # << >>
               \/ mmsp.mode = "sync" /\ mmsp.requests # << >> /\ mmsp.status # "connectting")
    OBVIOUS
  <1>4. PICK c \in UserCalls :
          c = IF mmsp.mode = "sync" /\ mmsp.call # "none" THEN "failed" ELSE mmsp.call
    BY <1>1, StatesAre DEF MmspSessions
  <1> DEFINE q == [mmsp EXCEPT !.status = "closed", !.link = FALSE, !.dirty = d, !.call = c]
  <1>5. mmsp' = q
    BY <1>1, <1>3, <1>4 DEF Mmsp!close, Mmsp!None, MmspSessions
  <1>6. q \in MmspSessions
    BY <1>1, StatesAre DEF MmspSessions
  <1>7. /\ q.mode = mmsp.mode /\ q.status = "closed" /\ q.request = mmsp.request
        /\ q.requests = mmsp.requests /\ q.proto = mmsp.proto /\ q.op = mmsp.op
        /\ q.pending = mmsp.pending /\ q.call = c /\ q.made = mmsp.made /\ q.served = mmsp.served
        /\ q.good = mmsp.good /\ q.reading = mmsp.reading /\ q.dirty = d /\ q.asked = mmsp.asked
        /\ q.replied = mmsp.replied /\ q.link = FALSE /\ q.up = mmsp.up /\ q.down = mmsp.down
        /\ q.busy = mmsp.busy /\ q.current = mmsp.current /\ q.got = mmsp.got
        /\ q.finished = mmsp.finished /\ q.strays = mmsp.strays /\ q.tries = mmsp.tries
        /\ q.failed = mmsp.failed
    BY <1>1 DEF MmspSessions
  <1> HIDE DEF q
  <1>8. MmspPast(q)
    BY <1>1, <1>7 DEF MmspPast
  <1>9. mmsp.mode = "sync" \/ mmsp.mode = "async"
    BY <1>1 DEF MmspSessions, Modes
  <1>10. MmspCalls(q)
    BY <1>1, <1>2, <1>4, <1>7, <1>9 DEF MmspCalls, MmspCalling
  <1>11. mmsp.reading \in BOOLEAN /\ mmsp.dirty \in BOOLEAN /\ mmsp.good \in BOOLEAN
    BY <1>1 DEF MmspSessions
  <1>12. d => c = "failed" \/ c = "none"
    BY <1>1, <1>2, <1>3, <1>4, <1>9, <1>11 DEF MmspCalls, MmspFresh, MmspCalling
  <1>13. MmspFresh(q)
    <2>1. ASSUME mmsp.mode = "sync", ~d
          PROVE  /\ mmsp.pending = << >>
                 /\ \/ mmsp.requests = << >>
                    \/ mmsp.requests = Mmsp!ConnectRequests /\ mmsp.request = "send_pending"
      BY <1>1, <1>3, <2>1 DEF MmspFresh
    <2>2. (~mmsp.good => d) /\ (mmsp.reading => d)
      BY <1>1, <1>3, <1>11 DEF MmspFresh
    <2>3. mmsp.mode = "async" /\ mmsp.reading => mmsp.op = "none"
      BY <1>1 DEF MmspFresh
    <2> QED BY <1>7, <1>12, <2>1, <2>2, <2>3 DEF MmspFresh
  <1> QED BY <1>1, <1>6, <1>5, <1>7, <1>8, <1>10, <1>13, MmspUnlinked

LEMMA MmspConnect ==
  ASSUME MmspInUse, MmspGood(mmsp), Mmsp!connect
  PROVE  MmspGood(mmsp')
  <1>1. /\ mmsp \in MmspSessions /\ ~mmsp.failed /\ MmspPast(mmsp) /\ MmspCalls(mmsp)
        /\ MmspFresh(mmsp)
    BY DEF MmspGood
  <1>2. /\ mmsp.call = "none" \/ mmsp.call = "failed"
        /\ mmsp.op = "none" /\ mmsp.status = "closed" /\ ~mmsp.dirty /\ ~mmsp.link
    BY <1>1 DEF Mmsp!connect, Mmsp!None, MmspInUse, MmspCalls
  <1>3. ~mmsp.reading /\ mmsp.good
    BY <1>1, <1>2 DEF MmspFresh
  <1>4. PICK t \in Nat : t = mmsp.tries + 1
    BY <1>1 DEF MmspSessions
  <1>5. mmsp.made \in Seq(MmspAsked) /\ mmsp.got \in Seq(MmspAsked)
    BY <1>1 DEF MmspSessions
  <1>6. PICK n \in Seq(MmspAsked) :
          /\ n = mmsp.made \o Mmsp!ConnectRequests /\ Len(mmsp.made) <= Len(n)
          /\ \A i \in 1..Len(mmsp.made) : n[i] = mmsp.made[i]
    <2>1. PICK a \in Seq(MmspAsked) : a = Mmsp!ConnectRequests
      BY MmspPlanIs
    <2>2. /\ mmsp.made \o a \in Seq(MmspAsked)
          /\ Len(mmsp.made \o a) = Len(mmsp.made) + Len(a)
          /\ \A i \in 1..Len(mmsp.made) + Len(a) : (mmsp.made \o a)[i] =
                IF i <= Len(mmsp.made) THEN mmsp.made[i] ELSE a[i - Len(mmsp.made)]
      BY <1>5, ConcatProperties
    <2> DEFINE c == mmsp.made \o a
    <2>3. PICK i, j \in Nat : i = Len(mmsp.made) /\ j = Len(a)
      BY <1>5, LenProperties
    <2> HIDE DEF c
    <2>4. c \in Seq(MmspAsked) /\ i <= Len(c) /\ \A k \in 1..i : c[k] = mmsp.made[k]
      BY <2>2, <2>3 DEF c
    <2> QED BY <2>1, <2>3, <2>4 DEF c
  <1>7. \A i \in 1..Len(mmsp.got) : i \in 1..Len(mmsp.made) /\ mmsp.got[i] = mmsp.made[i]
    <2>1. Len(mmsp.got) \in Nat /\ Len(mmsp.made) \in Nat /\ Len(mmsp.got) <= Len(mmsp.made)
      BY <1>1, <1>5, LenProperties DEF MmspPast
    <2> QED BY <1>1, <2>1 DEF MmspPast
  <1>8. Len(mmsp.got) <= Len(n)
    BY <1>1, <1>5, <1>6, LenProperties DEF MmspPast
  <1>9. ASSUME NEW q \in MmspSessions, ~q.failed, ~q.link, q.call = "connect", q.status = "connectting",
               q.requests = Mmsp!ConnectRequests, q.pending = << >>, ~q.dirty, ~q.reading, q.good,
               q.made = n \/ q.made = mmsp.made,
               q.got = mmsp.got, q.served = mmsp.served, q.asked = mmsp.asked,
               q.replied = mmsp.replied,
               (q.mode = "async" /\ q.op = "connect")
                  \/ (q.mode = "sync" /\ q.op = "none" /\ q.request = "send_pending")
        PROVE  MmspGood(q)
    <2>1. MmspPast(q)
      BY <1>1, <1>6, <1>7, <1>8, <1>9 DEF MmspPast
    <2>2. q.requests # << >>
      BY <1>9, MmspPlanIs
    <2>3. MmspCalls(q)
      BY <1>9, <2>2 DEF MmspCalls, MmspCalling
    <2>4. MmspFresh(q)
      BY <1>9 DEF MmspFresh
    <2> QED BY <1>9, <2>1, <2>3, <2>4, MmspUnlinked
  <1>10. Mmsp!ConnectRequests \in Seq(MmspAsked)
    BY MmspPlanIs
  <1>11. CASE mmsp.mode = "async"
    <2> DEFINE q == [mmsp EXCEPT !.call = "connect", !.tries = t, !.requests = Mmsp!ConnectRequests,
                                 !.made = n, !.status = "connectting", !.op = "connect"]
    <2>1. mmsp' = q
      BY <1>1, <1>2, <1>4, <1>6, <1>11
         DEF Mmsp!connect, Mmsp!make_connect_requests, Mmsp!handle_async_connect, MmspSessions
    <2>2. q \in MmspSessions
      BY <1>1, <1>10, StatesAre DEF MmspSessions
    <2>3. /\ q.mode = mmsp.mode /\ q.status = "connectting" /\ q.request = mmsp.request
          /\ q.requests = Mmsp!ConnectRequests /\ q.proto = mmsp.proto /\ q.op = "connect"
          /\ q.pending = mmsp.pending /\ q.call = "connect" /\ q.made = n
          /\ q.served = mmsp.served /\ q.good = mmsp.good /\ q.reading = mmsp.reading
          /\ q.dirty = mmsp.dirty /\ q.asked = mmsp.asked /\ q.replied = mmsp.replied
          /\ q.link = mmsp.link /\ q.up = mmsp.up /\ q.down = mmsp.down /\ q.busy = mmsp.busy
          /\ q.current = mmsp.current /\ q.got = mmsp.got /\ q.finished = mmsp.finished
          /\ q.strays = mmsp.strays /\ q.tries = t /\ q.failed = mmsp.failed
      BY <1>1 DEF MmspSessions
    <2>4. mmsp.pending = << >>
      BY <1>1, <1>11 DEF MmspCalls
    <2> HIDE DEF q
    <2> QED BY <1>1, <1>2, <1>3, <1>9, <1>11, <2>1, <2>2, <2>3, <2>4
  <1>12. CASE mmsp.mode # "async"
    <2>1. mmsp.mode = "sync"
      BY <1>1, <1>12 DEF MmspSessions, Modes
    <2>2. /\ mmsp.pending = << >>
          /\ \/ mmsp.requests = << >>
             \/ mmsp.requests = Mmsp!ConnectRequests /\ mmsp.request = "send_pending"
      BY <1>1, <1>2, <2>1 DEF MmspFresh
    <2>3. CASE mmsp.requests = << >>
      <3> DEFINE q == [mmsp EXCEPT !.call = "connect", !.tries = t, !.requests = Mmsp!ConnectRequests,
                                   !.made = n, !.request = "send_pending", !.status = "connectting"]
      <3>1. mmsp' = q
        BY <1>1, <1>4, <1>6, <2>1, <2>3 DEF Mmsp!connect, Mmsp!make_connect_requests, MmspSessions
      <3>2. q \in MmspSessions
        BY <1>1, <1>10, StatesAre DEF MmspSessions
      <3>3. /\ q.mode = mmsp.mode /\ q.status = "connectting" /\ q.request = "send_pending"
            /\ q.requests = Mmsp!ConnectRequests /\ q.proto = mmsp.proto /\ q.op = mmsp.op
            /\ q.pending = mmsp.pending /\ q.call = "connect" /\ q.made = n
            /\ q.served = mmsp.served /\ q.good = mmsp.good /\ q.reading = mmsp.reading
            /\ q.dirty = mmsp.dirty /\ q.asked = mmsp.asked /\ q.replied = mmsp.replied
            /\ q.link = mmsp.link /\ q.up = mmsp.up /\ q.down = mmsp.down /\ q.busy = mmsp.busy
            /\ q.current = mmsp.current /\ q.got = mmsp.got /\ q.finished = mmsp.finished
            /\ q.strays = mmsp.strays /\ q.tries = t /\ q.failed = mmsp.failed
        BY <1>1 DEF MmspSessions
      <3> HIDE DEF q
      <3> QED BY <1>1, <1>2, <1>3, <1>9, <2>1, <2>2, <3>1, <3>2, <3>3
    <2>4. CASE mmsp.requests # << >>
      <3> DEFINE q == [mmsp EXCEPT !.call = "connect", !.tries = t, !.status = "connectting"]
      <3>1. mmsp' = q
        BY <1>1, <1>4, <2>1, <2>4 DEF Mmsp!connect, MmspSessions
      <3>2. q \in MmspSessions
        BY <1>1, StatesAre DEF MmspSessions
      <3>3. /\ q.mode = mmsp.mode /\ q.status = "connectting" /\ q.request = mmsp.request
            /\ q.requests = mmsp.requests /\ q.proto = mmsp.proto /\ q.op = mmsp.op
            /\ q.pending = mmsp.pending /\ q.call = "connect" /\ q.made = mmsp.made
            /\ q.served = mmsp.served /\ q.good = mmsp.good /\ q.reading = mmsp.reading
            /\ q.dirty = mmsp.dirty /\ q.asked = mmsp.asked /\ q.replied = mmsp.replied
            /\ q.link = mmsp.link /\ q.up = mmsp.up /\ q.down = mmsp.down /\ q.busy = mmsp.busy
            /\ q.current = mmsp.current /\ q.got = mmsp.got /\ q.finished = mmsp.finished
            /\ q.strays = mmsp.strays /\ q.tries = t /\ q.failed = mmsp.failed
        BY <1>1 DEF MmspSessions
      <3> HIDE DEF q
      <3>4. mmsp.requests = Mmsp!ConnectRequests /\ mmsp.request = "send_pending"
        BY <2>2, <2>4
      <3>5. MmspGood(q)
        BY <1>1, <1>2, <1>3, <1>9, <2>1, <2>2, <3>2, <3>3, <3>4
      <3> QED BY <3>1, <3>5
    <2> QED BY <2>3, <2>4
  <1> QED BY <1>11, <1>12

LEMMA MmspConnected ==
  ASSUME MmspGood(mmsp), Mmsp!Connected
  PROVE  MmspGood(mmsp')
  <1>1. /\ mmsp \in MmspSessions /\ ~mmsp.failed /\ MmspPast(mmsp) /\ MmspCalls(mmsp)
        /\ MmspFresh(mmsp)
    BY DEF MmspGood
  <1>2. mmsp.mode = "async" \/ mmsp.mode = "sync"
    BY <1>1 DEF MmspSessions, Modes
  <1>3. /\ mmsp.status = "connectting" /\ mmsp.call = "connect" /\ ~mmsp.link
        /\ mmsp.mode = "async" => mmsp.op = "connect"
        /\ mmsp.mode = "sync" => mmsp.op = "none"
    BY <1>1, <1>2 DEF Mmsp!Connected, MmspCalls
  <1>4. /\ mmsp.requests = Mmsp!ConnectRequests /\ mmsp.requests # << >> /\ ~mmsp.dirty
        /\ ~mmsp.reading /\ mmsp.good /\ mmsp.pending = << >>
        /\ mmsp.mode = "sync" => mmsp.request = "send_pending"
    <2>1. mmsp.requests = Mmsp!ConnectRequests /\ ~mmsp.dirty
      BY <1>1, <1>3 DEF MmspCalls, MmspCalling
    <2>2. mmsp.requests # << >>
      BY <2>1, MmspPlanIs
    <2>3. mmsp.reading \in BOOLEAN /\ mmsp.good \in BOOLEAN /\ mmsp.dirty \in BOOLEAN
      BY <1>1 DEF MmspSessions
    <2>4. ~mmsp.reading /\ mmsp.good
      BY <1>1, <1>3, <2>1, <2>3 DEF MmspFresh
    <2>5. mmsp.pending = << >> /\ (mmsp.mode = "sync" => mmsp.request = "send_pending")
      BY <1>1, <1>2, <1>3, <2>1, <2>2 DEF MmspFresh, MmspCalls
    <2> QED BY <2>1, <2>2, <2>4, <2>5
  <1> DEFINE s == [mmsp EXCEPT !.link = TRUE, !.busy = "read", !.up = << >>, !.down = << >>,
                               !.got = << >>, !.finished = 0, !.current = "none",
                               !.made = Mmsp!ConnectRequests, !.served = << >>, !.asked = 0,
                               !.replied = 0, !.failed = FALSE, !.status = "net_connectting"]
  <1>5. /\ << >> \in Seq(MmspAsked) /\ << >> \in Seq(MmspAsked \X MmspAsked)
        /\ << >> \in Seq({"pong"} \cup MmspAsked) /\ << >> \in Seq(MmspChat \cup MmspAnswers)
        /\ << >> \in Seq({"pong"}) /\ << >> \in Seq(MmspChat)
        /\ << >> \in Seq({<<"ping", "none">>} \cup MmspAnswers)
    BY EmptySeq
  <1>6. "none" \in MmspHolds /\ Mmsp!ConnectRequests \in Seq(MmspAsked)
    BY MmspPlanIs DEF MmspHolds
  <1>7. s \in MmspSessions
    BY <1>1, <1>5, <1>6, StatesAre, ZenonT(40) DEF MmspSessions
  <1>8. /\ s.mode = mmsp.mode /\ s.status = "net_connectting" /\ s.request = mmsp.request
        /\ s.requests = mmsp.requests /\ s.proto = mmsp.proto /\ s.op = mmsp.op
        /\ s.pending = mmsp.pending /\ s.call = mmsp.call /\ s.made = Mmsp!ConnectRequests
        /\ s.served = << >> /\ s.good = mmsp.good /\ s.reading = mmsp.reading
        /\ s.dirty = mmsp.dirty /\ s.asked = 0 /\ s.replied = 0 /\ s.link = TRUE /\ s.up = << >>
        /\ s.down = << >> /\ s.busy = "read" /\ s.current = "none" /\ s.got = << >>
        /\ s.finished = 0 /\ s.strays = mmsp.strays /\ s.tries = mmsp.tries /\ s.failed = FALSE
    BY <1>1 DEF MmspSessions
  <1>9. \/ mmsp' = IF mmsp.mode = "async" THEN Mmsp!Send(s) ELSE s
        \/ mmsp' = IF mmsp.mode = "async"
                   THEN [mmsp EXCEPT !.status = "broken", !.op = "none", !.call = "failed"]
                   ELSE [mmsp EXCEPT !.status = "connectting", !.call = "failed"]
    <2>1. PICK ok \in BOOLEAN :
            LET x == IF ok THEN [mmsp EXCEPT !.link = TRUE, !.busy = "read", !.up = << >>, !.down = << >>,
                                               !.got = << >>, !.finished = 0, !.current = "none",
                                               !.made = mmsp.requests, !.served = << >>,
                                               !.asked = 0, !.replied = 0, !.failed = mmsp.dirty]
                    ELSE mmsp
            IN  mmsp' = IF x.mode = "async" THEN Mmsp!handle_async_connect(x, ok) ELSE Mmsp!resume_connect(x, ok)
      BY DEF Mmsp!Connected, Mmsp!None
    <2>2. CASE ok
      <3> DEFINE x == [mmsp EXCEPT !.link = TRUE, !.busy = "read", !.up = << >>, !.down = << >>,
                                   !.got = << >>, !.finished = 0, !.current = "none",
                                   !.made = mmsp.requests, !.served = << >>,
                                   !.asked = 0, !.replied = 0, !.failed = mmsp.dirty]
      <3>1. mmsp' = IF x.mode = "async" THEN Mmsp!handle_async_connect(x, TRUE) ELSE Mmsp!resume_connect(x, TRUE)
        BY <2>1, <2>2
      <3>2. mmsp.dirty = FALSE
        BY <1>1, <1>4 DEF MmspSessions
      <3>3. x.mode = mmsp.mode /\ x.status = "connectting"
        BY <1>1, <1>3 DEF MmspSessions
      <3>4. [x EXCEPT !.status = "net_connectting"] = s
        BY <1>1, <1>4, <3>2 DEF MmspSessions
      <3> HIDE DEF x, s
      <3> QED BY <3>1, <3>3, <3>4 DEF Mmsp!handle_async_connect, Mmsp!async_reqeust, Mmsp!resume_connect
    <2>3. CASE ~ok
      <3>1. mmsp' = IF mmsp.mode = "async" THEN Mmsp!handle_async_connect(mmsp, FALSE)
                    ELSE Mmsp!resume_connect(mmsp, FALSE)
        BY <2>1, <2>3
      <3> HIDE DEF s
      <3> QED BY <1>1, <1>3, <3>1
            DEF Mmsp!handle_async_connect, Mmsp!resume_connect, Mmsp!response, Mmsp!None, MmspSessions
    <2> QED BY <2>2, <2>3
  <1> HIDE DEF s
  <1>10. Len(Mmsp!ConnectRequests) = 2 /\ Len(<< >>) = 0 /\ Mmsp!ConnectRequests # << >>
    BY MmspPlanIs
  <1>11. ASSUME NEW q \in MmspSessions, ~q.failed, q.link, q.status = "net_connectting", q.call = "connect",
                q.requests = Mmsp!ConnectRequests, q.made = Mmsp!ConnectRequests, q.served = << >>,
                q.got = << >>, q.down = << >>, q.pending = << >>, q.asked = 0, q.replied \in Nat,
                q.busy = "read", q.current = "none", q.finished = 0, ~q.dirty, ~q.reading, q.good,
                q.request # "finished", MmspUnsent(q) \/ MmspOnItsWay(q),
                (q.mode = "async" /\ q.op = "write") \/ (q.mode = "sync" /\ q.op = "none")
         PROVE  MmspGood(q)
    <2>1. MmspCalls(q) /\ MmspFresh(q)
      BY <1>10, <1>11 DEF MmspCalls, MmspFresh, MmspCalling
    <2>2. MmspPast(q) /\ MmspServes(q)
      BY <1>10, <1>11 DEF MmspPast, MmspServes
    <2>3. MmspTurn(q)
      <3>3. Len(q.made) = 2 /\ Len(q.served) = 0 /\ Len(q.requests) = 2
        BY <1>10, <1>11
      <3>1. Len(q.made) = Len(q.served) + Len(q.requests)
        BY <3>3
      <3>2. \A i \in 1..Len(q.requests) : q.requests[i] = q.made[Len(q.served) + i]
        BY <1>11, <3>3
      <3> QED BY <1>10, <1>11, <3>1, <3>2 DEF MmspTurn
    <2>4. MmspStreams(q) /\ MmspStage(q)
      BY <1>5, <1>11 DEF MmspStreams, MmspStage
    <2> QED BY <1>11, <2>1, <2>2, <2>3, <2>4 DEF MmspGood
  <1>16. s.pending = << >> /\ s.requests # << >> /\ ~s.failed
    BY <1>4, <1>8
  <1>12. CASE mmsp.mode = "async" /\ mmsp' = Mmsp!Send(s)
    <2>1. PICK r \in Nat, u \in Seq({"pong"} \cup MmspAsked) :
             /\ Mmsp!Send(s) = [s EXCEPT !.up = u, !.replied = r, !.request = "sending_req",
                                         !.op = "write", !.failed = FALSE]
             /\ u = Append(s.up, s.requests[1]) /\ r >= s.replied
      BY <1>7, <1>16, MmspSend
    <2> DEFINE q == [s EXCEPT !.up = u, !.replied = r, !.request = "sending_req",
                              !.op = "write", !.failed = FALSE]
    <2>2. q \in MmspSessions
      BY <1>7, StatesAre DEF MmspSessions
    <2>3. /\ q.mode = s.mode /\ q.status = s.status /\ q.request = "sending_req"
          /\ q.requests = s.requests /\ q.proto = s.proto /\ q.op = "write"
          /\ q.pending = s.pending /\ q.call = s.call /\ q.made = s.made /\ q.served = s.served
          /\ q.good = s.good /\ q.reading = s.reading /\ q.dirty = s.dirty /\ q.asked = s.asked
          /\ q.replied = r /\ q.link = s.link /\ q.up = u /\ q.down = s.down /\ q.busy = s.busy
          /\ q.current = s.current /\ q.got = s.got /\ q.finished = s.finished
          /\ q.strays = s.strays /\ q.tries = s.tries /\ q.failed = FALSE
      BY <1>7 DEF MmspSessions
    <2> HIDE DEF q
    <2>6. s.up \in Seq({"pong"}) /\ s.requests[1] \in {s.requests[1]} /\ q.requests = s.requests
      BY <1>5, <1>8, <2>3
    <2>4. OneOf(u, {"pong"}, {q.requests[1]})
      BY <2>1, <2>6, OneIsPut
    <2>7. /\ q.mode = "async" /\ q.op = "write" /\ q.got = << >> /\ q.served = << >> /\ q.down = << >>
          /\ q.busy = "read" /\ q.up = u
      BY <1>8, <1>12, <2>3
    <2>5. MmspOnItsWay(q)
      BY <1>5, <2>4, <2>7 DEF MmspOnItsWay, MmspSent
    <2>8. MmspGood(q)
      BY <1>3, <1>4, <1>8, <1>11, <2>2, <2>3, <2>5, <2>7, ZenonT(40)
    <2> QED BY <1>12, <2>1, <2>8 DEF q
  <1>13. CASE mmsp.mode = "sync" /\ mmsp' = s
    <2>2. /\ s.mode = "sync" /\ s.request = "send_pending" /\ s.got = << >> /\ s.served = << >>
          /\ s.down = << >> /\ s.up = << >> /\ s.busy = "read"
      BY <1>4, <1>8, <1>13
    <2>1. MmspUnsent(s)
      BY <1>5, <2>2 DEF MmspUnsent, MmspSent
    <2>3. /\ ~s.failed /\ s.link /\ s.status = "net_connectting" /\ s.call = "connect"
          /\ s.requests = Mmsp!ConnectRequests /\ s.made = Mmsp!ConnectRequests /\ s.pending = << >>
          /\ s.asked = 0 /\ s.replied \in Nat /\ s.current = "none" /\ s.finished = 0
          /\ ~s.dirty /\ ~s.reading /\ s.good /\ s.request # "finished" /\ s.op = "none"
      BY <1>3, <1>4, <1>8, <1>13
    <2>4. MmspGood(s)
      BY <1>7, <1>11, <2>1, <2>2, <2>3
    <2> QED BY <1>13, <2>4
  <1>14. CASE mmsp.mode = "async" /\ mmsp' = [mmsp EXCEPT !.status = "broken", !.op = "none", !.call = "failed"]
    <2> DEFINE q == [mmsp EXCEPT !.status = "broken", !.op = "none", !.call = "failed"]
    <2>1. q \in MmspSessions
      BY <1>1, StatesAre DEF MmspSessions
    <2>2. /\ q.mode = mmsp.mode /\ q.status = "broken" /\ q.request = mmsp.request
          /\ q.requests = mmsp.requests /\ q.proto = mmsp.proto /\ q.op = "none"
          /\ q.pending = mmsp.pending /\ q.call = "failed" /\ q.made = mmsp.made
          /\ q.served = mmsp.served /\ q.good = mmsp.good /\ q.reading = mmsp.reading
          /\ q.dirty = mmsp.dirty /\ q.asked = mmsp.asked /\ q.replied = mmsp.replied
          /\ q.link = mmsp.link /\ q.up = mmsp.up /\ q.down = mmsp.down /\ q.busy = mmsp.busy
          /\ q.current = mmsp.current /\ q.got = mmsp.got /\ q.finished = mmsp.finished
          /\ q.strays = mmsp.strays /\ q.tries = mmsp.tries /\ q.failed = mmsp.failed
      BY <1>1 DEF MmspSessions
    <2> HIDE DEF q
    <2>3. MmspPast(q)
      BY <1>1, <2>2 DEF MmspPast
    <2>4. MmspCalls(q) /\ MmspFresh(q)
      BY <1>3, <1>4, <1>14, <2>2 DEF MmspCalls, MmspFresh, MmspCalling
    <2> QED BY <1>1, <1>3, <1>14, <2>1, <2>2, <2>3, <2>4, MmspUnlinked DEF q
  <1>15. CASE mmsp.mode = "sync" /\ mmsp' = [mmsp EXCEPT !.status = "connectting", !.call = "failed"]
    <2> DEFINE q == [mmsp EXCEPT !.status = "connectting", !.call = "failed"]
    <2>1. q \in MmspSessions
      BY <1>1, StatesAre DEF MmspSessions
    <2>2. /\ q.mode = mmsp.mode /\ q.status = "connectting" /\ q.request = mmsp.request
          /\ q.requests = mmsp.requests /\ q.proto = mmsp.proto /\ q.op = mmsp.op
          /\ q.pending = mmsp.pending /\ q.call = "failed" /\ q.made = mmsp.made
          /\ q.served = mmsp.served /\ q.good = mmsp.good /\ q.reading = mmsp.reading
          /\ q.dirty = mmsp.dirty /\ q.asked = mmsp.asked /\ q.replied = mmsp.replied
          /\ q.link = mmsp.link /\ q.up = mmsp.up /\ q.down = mmsp.down /\ q.busy = mmsp.busy
          /\ q.current = mmsp.current /\ q.got = mmsp.got /\ q.finished = mmsp.finished
          /\ q.strays = mmsp.strays /\ q.tries = mmsp.tries /\ q.failed = mmsp.failed
      BY <1>1 DEF MmspSessions
    <2> HIDE DEF q
    <2>3. MmspPast(q)
      BY <1>1, <2>2 DEF MmspPast
    <2>4. MmspCalls(q) /\ MmspFresh(q)
      BY <1>3, <1>4, <1>15, <2>2 DEF MmspCalls, MmspFresh, MmspCalling
    <2> QED BY <1>1, <1>3, <1>15, <2>1, <2>2, <2>3, <2>4, MmspUnlinked DEF q
  <1> QED BY <1>2, <1>9, <1>12, <1>13, <1>14, <1>15

\* What holds while the user waits for nothing.
LEMMA MmspIdle ==
  ASSUME NEW s, MmspGood(s), s.link, s.call = "none"
  PROVE  /\ s \in MmspSessions /\ s.requests = << >> /\ s.request = "finished" /\ s.pending = << >>
         /\ s.op = "none" /\ ~s.dirty /\ s.good /\ s.status \notin {"closed", "connectting"}
         /\ Len(s.made) = Len(s.served)
         /\ s.made = Mmsp!ConnectRequests \/ s.made = MmspPlan
         /\ s.up \in Seq({"pong"}) /\ s.down \in Seq(MmspChat) /\ Len(s.got) = Len(s.served)
         /\ s.busy # "local"
  <1>1. s \in MmspSessions /\ MmspCalls(s) /\ MmspFresh(s) /\ MmspTurn(s) /\ MmspStage(s)
    BY DEF MmspGood
  <1>2. s.mode = "async" \/ s.mode = "sync"
    BY <1>1 DEF MmspSessions, Modes
  <1>3. /\ s.requests = << >> /\ s.request = "finished" /\ s.pending = << >>
        /\ Len(s.made) = Len(s.served) + Len(s.requests)
        /\ s.made = Mmsp!ConnectRequests \/ s.made = MmspPlan
    BY <1>1 DEF MmspTurn
  <1>4. s.op = "none" /\ ~MmspSent(s) /\ s.status \notin {"closed", "connectting"}
    BY <1>1, <1>2 DEF MmspCalls, MmspCalling, MmspSent
  <1>5. ~s.dirty
    BY <1>1, <1>4 DEF MmspFresh
  <1>6. s.good
    BY <1>1, <1>5 DEF MmspFresh
  <1>7. MmspUnsent(s)
    BY <1>1, <1>4 DEF MmspStage, MmspOnItsWay, MmspHeld, MmspAnswered
  <1>8. Len(s.made) = Len(s.served)
    <2>1. Len(s.served) \in Nat
      BY <1>1, LenProperties DEF MmspSessions
    <2>2. Len(s.requests) = 0
      BY <1>3
    <2> QED BY <1>3, <2>1, <2>2
  <1> QED BY <1>1, <1>3, <1>4, <1>5, <1>6, <1>7, <1>8 DEF MmspUnsent

LEMMA MmspPlay ==
  ASSUME MmspGood(mmsp), Mmsp!play
  PROVE  MmspGood(mmsp')
  <1>1. /\ mmsp \in MmspSessions /\ ~mmsp.failed /\ MmspPast(mmsp) /\ MmspCalls(mmsp)
        /\ MmspFresh(mmsp) /\ MmspServes(mmsp) /\ MmspStreams(mmsp)
    BY DEF MmspGood
  <1>2. /\ mmsp.call = "none" /\ mmsp.op = "none" /\ mmsp.link /\ Len(mmsp.made) = 2
    BY MmspPlanIs DEF Mmsp!play, Mmsp!Free, Mmsp!None
  <1>3. mmsp.mode = "async" \/ mmsp.mode = "sync"
    BY <1>1 DEF MmspSessions, Modes
  <1>4. /\ mmsp.requests = << >> /\ mmsp.request = "finished" /\ mmsp.pending = << >>
        /\ ~mmsp.dirty /\ mmsp.good /\ mmsp.status \notin {"closed", "connectting"}
        /\ Len(mmsp.made) = Len(mmsp.served)
        /\ mmsp.made = Mmsp!ConnectRequests \/ mmsp.made = MmspPlan
        /\ mmsp.up \in Seq({"pong"}) /\ mmsp.down \in Seq(MmspChat)
        /\ Len(mmsp.got) = Len(mmsp.served) /\ mmsp.busy # "local"
    BY <1>2, MmspIdle
  <1>5. mmsp.made = Mmsp!ConnectRequests /\ Len(mmsp.served) = 2
    BY <1>2, <1>4, MmspPlanIs
  <1>6. mmsp.mode = "async" => ~mmsp.reading
    BY <1>1, <1>2 DEF MmspFresh
  <1> DEFINE s == [mmsp EXCEPT !.call = "play", !.request = "send_pending",
                               !.requests = Mmsp!PlayRequests, !.made = MmspPlan]
  <1>7. mmsp' = IF mmsp.mode = "async" THEN Mmsp!Send(s) ELSE s
    <2> DEFINE x == Mmsp!make_play_requests([mmsp EXCEPT !.call = "play", !.request = "send_pending"])
    <2>1. mmsp' = IF x.mode = "async" THEN Mmsp!Send(x) ELSE x
      BY DEF Mmsp!play, Mmsp!async_reqeust
    <2>2. x = s
      BY <1>1, <1>5, MmspPlanJoins DEF Mmsp!make_play_requests, MmspSessions
    <2>3. s.mode = mmsp.mode
      BY <1>1 DEF MmspSessions
    <2> HIDE DEF x, s
    <2> QED BY <2>1, <2>2, <2>3
  <1>8. MmspPlan \in Seq(MmspAsked) /\ Mmsp!PlayRequests \in Seq(MmspAsked)
    BY MmspPlanIs
  <1>9. s \in MmspSessions
    BY <1>1, <1>8, StatesAre DEF MmspSessions
  <1>10. /\ s.mode = mmsp.mode /\ s.status = mmsp.status /\ s.request = "send_pending"
         /\ s.requests = Mmsp!PlayRequests /\ s.proto = mmsp.proto /\ s.op = mmsp.op
         /\ s.pending = mmsp.pending /\ s.call = "play" /\ s.made = MmspPlan
         /\ s.served = mmsp.served /\ s.good = mmsp.good /\ s.reading = mmsp.reading
         /\ s.dirty = mmsp.dirty /\ s.asked = mmsp.asked /\ s.replied = mmsp.replied
         /\ s.link = mmsp.link /\ s.up = mmsp.up /\ s.down = mmsp.down /\ s.busy = mmsp.busy
         /\ s.current = mmsp.current /\ s.got = mmsp.got /\ s.finished = mmsp.finished
         /\ s.strays = mmsp.strays /\ s.tries = mmsp.tries /\ s.failed = mmsp.failed
    BY <1>1 DEF MmspSessions
  <1> HIDE DEF s
  <1>11. Len(MmspPlan) = 5 /\ Len(Mmsp!PlayRequests) = 3 /\ Mmsp!PlayRequests # << >>
    BY MmspPlanIs
  <1>12. ASSUME NEW q \in MmspSessions, ~q.failed, q.link, q.status = mmsp.status, q.call = "play",
                q.requests = Mmsp!PlayRequests, q.made = MmspPlan, q.served = mmsp.served,
                q.got = mmsp.got, q.down = mmsp.down, q.pending = << >>, q.asked = mmsp.asked,
                q.replied >= q.asked, q.busy = mmsp.busy, q.current = mmsp.current,
                q.finished = mmsp.finished, ~q.dirty, q.reading = mmsp.reading, q.good,
                q.request # "finished", MmspUnsent(q) \/ MmspOnItsWay(q), q.mode = mmsp.mode,
                (q.mode = "async" /\ q.op = "write") \/ (q.mode = "sync" /\ q.op = "none")
         PROVE  MmspGood(q)
    <2>1. MmspCalls(q) /\ MmspFresh(q)
      BY <1>4, <1>6, <1>11, <1>12 DEF MmspCalls, MmspFresh, MmspCalling
    <2>2. Len(mmsp.got) = 2
      BY <1>4, <1>5
    <2>3. MmspPlan[1] = Mmsp!ConnectRequests[1] /\ MmspPlan[2] = Mmsp!ConnectRequests[2]
      BY MmspPlanIs
    <2>4. \A i \in 1..2 : mmsp.got[i] = MmspPlan[i]
      <3>1. mmsp.got[1] = MmspPlan[1] /\ mmsp.got[2] = MmspPlan[2]
        BY <1>1, <1>5, <2>2, <2>3 DEF MmspPast
      <3>2. \A i \in 1..2 : i = 1 \/ i = 2
        OBVIOUS
      <3> QED BY <3>1, <3>2
    <2>5. MmspPast(q)
      <3>3. Len(q.got) = 2 /\ Len(q.made) = 5 /\ Len(q.served) = 2
        BY <1>5, <1>11, <1>12, <2>2
      <3>1. Len(q.got) <= Len(q.made) /\ Len(q.got) <= Len(q.served) + 1
        BY <3>3
      <3>2. \A i \in 1..Len(q.got) : q.got[i] = q.made[i]
        BY <1>12, <2>2, <2>4
      <3> QED BY <1>1, <1>12, <3>1, <3>2 DEF MmspPast
    <2>6. MmspServes(q)
      BY <1>1, <1>2, <1>12 DEF MmspServes
    <2>7. MmspTurn(q)
      <3>4. Len(q.made) = 5 /\ Len(q.served) = 2 /\ Len(q.requests) = 3
        BY <1>5, <1>11, <1>12
      <3>1. Len(q.made) = Len(q.served) + Len(q.requests) /\ Len(q.served) >= 2
        BY <3>4
      <3>2. \A i \in 1..3 : Mmsp!PlayRequests[i] = MmspPlan[2 + i]
        <4>1. \A i \in 1..3 : i = 1 \/ i = 2 \/ i = 3
          OBVIOUS
        <4>2. MmspPlan[2 + 1] = "open_file" /\ MmspPlan[2 + 2] = "read_block" /\ MmspPlan[2 + 3] = "start_playing"
          BY MmspPlanIs
        <4> QED BY <4>1, <4>2, MmspPlanIs
      <3>3. \A i \in 1..Len(q.requests) : q.requests[i] = q.made[Len(q.served) + i]
        BY <1>12, <3>2, <3>4
      <3> QED BY <1>11, <1>12, <3>1, <3>3 DEF MmspTurn
    <2>8. MmspStreams(q) /\ MmspStage(q)
      BY <1>1, <1>2, <1>12 DEF MmspStreams, MmspStage
    <2> QED BY <1>12, <2>1, <2>5, <2>6, <2>7, <2>8 DEF MmspGood
  <1>13. mmsp.replied >= mmsp.asked /\ mmsp.replied \in Nat /\ mmsp.asked \in Nat
    BY <1>1 DEF MmspPast, MmspSessions
  <1>14. CASE mmsp.mode = "async"
    <2>1. PICK r \in Nat, u \in Seq({"pong"} \cup MmspAsked) :
             /\ Mmsp!Send(s) = [s EXCEPT !.up = u, !.replied = r, !.request = "sending_req",
                                         !.op = "write", !.failed = FALSE]
             /\ u = Append(s.up, s.requests[1]) /\ r >= s.replied
      BY <1>1, <1>4, <1>9, <1>10, <1>11, MmspSend
    <2> DEFINE q == [s EXCEPT !.up = u, !.replied = r, !.request = "sending_req",
                              !.op = "write", !.failed = FALSE]
    <2>2. q \in MmspSessions
      BY <1>9, StatesAre DEF MmspSessions
    <2>3. /\ q.mode = s.mode /\ q.status = s.status /\ q.request = "sending_req"
          /\ q.requests = s.requests /\ q.proto = s.proto /\ q.op = "write"
          /\ q.pending = s.pending /\ q.call = s.call /\ q.made = s.made /\ q.served = s.served
          /\ q.good = s.good /\ q.reading = s.reading /\ q.dirty = s.dirty /\ q.asked = s.asked
          /\ q.replied = r /\ q.link = s.link /\ q.up = u /\ q.down = s.down /\ q.busy = s.busy
          /\ q.current = s.current /\ q.got = s.got /\ q.finished = s.finished
          /\ q.strays = s.strays /\ q.tries = s.tries /\ q.failed = FALSE
      BY <1>9 DEF MmspSessions
    <2> HIDE DEF q
    <2>4. OneOf(u, {"pong"}, {q.requests[1]})
      BY <1>4, <1>10, <2>1, <2>3, OneIsPut
    <2>5. MmspOnItsWay(q)
      BY <1>4, <1>10, <1>14, <2>3, <2>4 DEF MmspOnItsWay, MmspSent
    <2>6. q.replied >= q.asked
      BY <1>10, <1>13, <2>1, <2>3
    <2>8. /\ ~q.failed /\ q.link /\ q.status = mmsp.status /\ q.call = "play"
          /\ q.requests = Mmsp!PlayRequests /\ q.made = MmspPlan /\ q.served = mmsp.served
          /\ q.got = mmsp.got /\ q.down = mmsp.down /\ q.pending = << >> /\ q.asked = mmsp.asked
          /\ q.busy = mmsp.busy /\ q.current = mmsp.current /\ q.finished = mmsp.finished
          /\ ~q.dirty /\ q.reading = mmsp.reading /\ q.good /\ q.request # "finished"
          /\ q.mode = mmsp.mode /\ q.mode = "async" /\ q.op = "write"
      BY <1>2, <1>4, <1>10, <1>14, <2>3
    <2>7. MmspGood(q)
      BY <1>12, <2>2, <2>5, <2>6, <2>8
    <2> QED BY <1>7, <1>14, <2>1, <2>7 DEF q
  <1>15. CASE mmsp.mode = "sync"
    <2>1. MmspUnsent(s)
      BY <1>4, <1>10, <1>15 DEF MmspUnsent, MmspSent
    <2>2. MmspGood(s)
      BY <1>1, <1>2, <1>4, <1>9, <1>10, <1>12, <1>13, <1>15, <2>1, ZenonT(40)
    <2> QED BY <1>7, <1>15, <2>2
  <1> QED BY <1>3, <1>14, <1>15

\* Where the first request is once a message that does not answer it has left down as t.
MmspAfter(s, t) ==
    \/ t \in Seq(MmspChat) /\ (MmspOnItsWay(s) \/ MmspHeld(s))
    \/ OneOf(t, MmspChat, {"answer", "error"} \X {s.requests[1]}) /\ MmspAnswered(s)

\* The first message that comes while a request is answered is a ping, one of the
\* stream if the request is start_playing, or the answer to the request.
LEMMA MmspHead ==
  ASSUME NEW s, MmspGood(s), s.link, s.call # "failed", MmspSent(s), s.down # << >>,
         NEW m, m = Head(s.down), NEW t, t = Tail(s.down)
  PROVE  /\ t \in Seq(MmspChat \cup MmspAnswers)
         /\ Len(s.got) # 5 => t \in Seq({<<"ping", "none">>} \cup MmspAnswers)
         /\ \/ m[1] = "ping" /\ MmspAfter(s, t)
            \/ m = <<"stream", "none">> /\ s.requests[1] = "start_playing" /\ MmspAfter(s, t)
            \/ /\ m \in {"answer", "error"} \X {s.requests[1]} /\ MmspAnswered(s)
               /\ t \in Seq(MmspChat)
  <1>1. /\ s \in MmspSessions /\ MmspCalls(s) /\ MmspTurn(s) /\ MmspStage(s) /\ MmspStreams(s)
        /\ MmspPast(s)
    BY DEF MmspGood
  <1>2. MmspOnItsWay(s) \/ MmspHeld(s) \/ MmspAnswered(s)
    BY <1>1 DEF MmspStage, MmspUnsent
  <1>3. s.down \in Seq(MmspChat \cup MmspAnswers)
    BY <1>1 DEF MmspSessions
  <1>4. t \in Seq(MmspChat \cup MmspAnswers)
    BY <1>3, RestIsTaken
  <1>5. ASSUME Len(s.got) # 5
        PROVE  /\ t \in Seq({<<"ping", "none">>} \cup MmspAnswers)
               /\ m \in {<<"ping", "none">>} \cup MmspAnswers
    <2>1. s.down \in Seq({<<"ping", "none">>} \cup MmspAnswers)
      BY <1>1, <1>5 DEF MmspStreams
    <2> QED BY <2>1, RestIsTaken
  <1>6. m \in MmspChat => m = <<"ping", "none">> \/ m = <<"stream", "none">>
    BY DEF MmspChat
  <1>7. <<"ping", "none">>[1] = "ping" /\ <<"stream", "none">>[1] = "stream"
    OBVIOUS
  <1>8. ASSUME m = <<"stream", "none">> PROVE s.requests[1] = "start_playing"
    <2>1. m \notin {<<"ping", "none">>} \cup MmspAnswers
      BY <1>8 DEF MmspAnswers
    <2>2. Len(s.got) = 5
      BY <1>5, <2>1
    <2>3. /\ s.requests[1] = s.made[Len(s.served) + 1] /\ Len(s.served) \in Nat
          /\ Len(s.made) = Len(s.served) + Len(s.requests) /\ Len(s.made) <= 5
          /\ Len(s.requests) \in Nat \ {0}
      BY <1>1, MmspFront
    <2>4. 5 <= Len(s.served) + 1 /\ 5 <= Len(s.made)
      BY <1>1, <2>2 DEF MmspPast
    <2>5. PICK a, b, c \in Nat : a = Len(s.made) /\ b = Len(s.served) /\ c = Len(s.requests)
      BY <2>3, LenProperties, <1>1 DEF MmspSessions
    <2>6. a = b + c /\ a <= 5 /\ c # 0 /\ 5 <= b + 1 /\ 5 <= a
      BY <2>3, <2>4, <2>5
    <2>7. b = 4 /\ a = 5
      BY <2>6
    <2>8. s.made = MmspPlan
      <3>1. s.made = Mmsp!ConnectRequests \/ s.made = MmspPlan
        BY <1>1, <2>3 DEF MmspTurn
      <3>2. Len(s.made) = 5
        BY <2>5, <2>7
      <3> QED BY <3>1, <3>2, MmspPlanIs
    <2>9. s.requests[1] = MmspPlan[5]
      BY <2>3, <2>5, <2>7, <2>8
    <2> QED BY <2>9, MmspPlanIs
  <1>9. CASE s.down \in Seq(MmspChat) /\ (MmspOnItsWay(s) \/ MmspHeld(s))
    <2>1. m \in MmspChat /\ t \in Seq(MmspChat)
      BY <1>9, RestIsTaken
    <2>2. MmspAfter(s, t)
      BY <1>9, <2>1 DEF MmspAfter
    <2> QED BY <1>4, <1>5, <1>6, <1>7, <1>8, <2>1, <2>2
  <1>10. CASE MmspAnswered(s)
    <2>1. \/ m \in MmspChat /\ OneOf(t, MmspChat, {"answer", "error"} \X {s.requests[1]})
          \/ m \in {"answer", "error"} \X {s.requests[1]} /\ t \in Seq(MmspChat)
      BY <1>10, OneIsTaken DEF MmspAnswered
    <2>2. CASE m \in MmspChat /\ OneOf(t, MmspChat, {"answer", "error"} \X {s.requests[1]})
      <3>1. MmspAfter(s, t)
        BY <1>10, <2>2 DEF MmspAfter
      <3> QED BY <1>4, <1>5, <1>6, <1>7, <1>8, <2>2, <3>1
    <2>3. CASE m \in {"answer", "error"} \X {s.requests[1]} /\ t \in Seq(MmspChat)
      BY <1>4, <1>5, <1>10, <2>3
    <2> QED BY <2>1, <2>2, <2>3
  <1> QED BY <1>2, <1>9, <1>10 DEF MmspOnItsWay, MmspHeld

\* A message that does not answer the request is taken, and a ping replied to.
LEMMA MmspGoesOn ==
  ASSUME NEW s, MmspGood(s), s.link, s.call # "failed", MmspSent(s),
         NEW q \in MmspSessions, ~q.failed, NEW t, q.down = t, MmspAfter(s, t),
         Len(s.got) # 5 => t \in Seq({<<"ping", "none">>} \cup MmspAnswers),
         q.up = s.up \/ q.up = Append(s.up, "pong"),
         q.mode = s.mode, q.status = s.status, q.requests = s.requests,
         q.pending = s.pending, q.call = s.call, q.made = s.made, q.served = s.served,
         q.good = s.good, q.reading = s.reading, q.dirty = s.dirty, q.replied >= q.asked,
         q.link = s.link, MmspServerAs(q, s),
         \/ q.request = s.request /\ q.op = s.op
         \/ q.mode = "async" /\ q.request = "sending_req" /\ q.op = "write" /\ s.op = "read"
  PROVE  MmspGood(q)
  <1>1. /\ s \in MmspSessions /\ MmspCalls(s) /\ MmspTurn(s) /\ MmspStage(s) /\ MmspStreams(s)
        /\ MmspPast(s) /\ MmspFresh(s) /\ MmspServes(s)
    BY DEF MmspGood
  <1>2. MmspCalls(q)
    BY <1>1 DEF MmspCalls, MmspCalling
  <1>3. MmspFresh(q)
    <2>1. s.status \notin {"closed", "connectting"}
      BY <1>1 DEF MmspCalls
    <2> QED BY <1>1, <2>1 DEF MmspFresh
  <1>4. MmspSent(q)
    BY DEF MmspSent, MmspCalling
  <1>5. MmspPast(q)
    BY <1>1 DEF MmspPast, MmspServerAs
  <1>6. MmspServes(q)
    BY <1>1, MmspServesKept
  <1>7. MmspTurn(q)
    <2>1. s.call # "none" /\ s.pending # << >> => s.mode = "sync"
      BY <1>1 DEF MmspCalls, MmspSessions, Modes
    <2>2. s.call # "none"
      BY <1>1 DEF MmspSent, MmspCalls, MmspCalling, MmspSessions, Modes
    <2> QED BY <1>1, <2>1, <2>2 DEF MmspTurn
  <1>8. MmspStreams(q)
    BY DEF MmspStreams, MmspServerAs
  <1>9. "pong" \in {"pong"}
    OBVIOUS
  <1>10. MmspOnItsWay(q) \/ MmspHeld(q) \/ MmspAnswered(q)
    <2>1. CASE t \in Seq(MmspChat) /\ MmspOnItsWay(s)
      <3>1. OneOf(q.up, {"pong"}, {s.requests[1]})
        BY <1>9, <2>1, OneIsFollowed DEF MmspOnItsWay
      <3> QED BY <1>4, <2>1, <3>1 DEF MmspOnItsWay, MmspServerAs
    <2>2. CASE t \in Seq(MmspChat) /\ MmspHeld(s)
      <3>1. q.up \in Seq({"pong"})
        BY <1>9, <2>2, RestIsPut DEF MmspHeld
      <3> QED BY <1>4, <2>2, <3>1 DEF MmspHeld, MmspServerAs
    <2>3. CASE OneOf(t, MmspChat, {"answer", "error"} \X {s.requests[1]}) /\ MmspAnswered(s)
      <3>1. q.up \in Seq({"pong"})
        BY <1>9, <2>3, RestIsPut DEF MmspAnswered
      <3> QED BY <1>4, <2>3, <3>1 DEF MmspAnswered, MmspServerAs
    <2> QED BY <2>1, <2>2, <2>3 DEF MmspAfter
  <1> QED BY <1>2, <1>3, <1>5, <1>6, <1>7, <1>8, <1>10 DEF MmspGood, MmspStage

\* With one request more served, rest is what is left of those made.
MmspOneMore(s, rest, served) ==
    /\ Len(served) = Len(s.served) + 1 /\ Len(s.made) = Len(served) + Len(rest)
    /\ \A i \in 1..Len(rest) : rest[i] = s.made[Len(served) + i]
    /\ \A i \in 1..Len(served) : served[i][1] = served[i][2]
    /\ s.made = Mmsp!ConnectRequests \/ (s.made = MmspPlan /\ Len(served) >= 2)

MmspPopsTo(s, m, rest, served) ==
    Head(s.down) = m => Mmsp!Popped(s) =
        [s EXCEPT !.request = IF rest = << >> THEN "finished" ELSE "send_pending",
                  !.requests = rest, !.served = served]

\* What is left once the first request is answered.
LEMMA MmspPops ==
  ASSUME NEW s, MmspGood(s), s.link, s.call # "failed", MmspSent(s),
         NEW f, f = s.requests[1], NEW k, NEW m, m = <<k, f>>
  PROVE  \E rest \in Seq(MmspAsked), served \in Seq(MmspAsked \X MmspAsked) :
           MmspPopsTo(s, m, rest, served) /\ MmspOneMore(s, rest, served)
  <1>1. /\ s \in MmspSessions /\ MmspCalls(s) /\ MmspTurn(s) /\ MmspPast(s)
    BY DEF MmspGood
  <1>2. /\ s.requests # << >> /\ Len(s.requests) \in Nat \ {0}
        /\ f \in MmspAsked /\ Head(s.requests) = f /\ Len(s.served) \in Nat
        /\ Len(s.made) = Len(s.served) + Len(s.requests) /\ Len(s.made) \in Nat
    BY <1>1, MmspFront
  <1>3. /\ \A i \in 1..Len(s.requests) : s.requests[i] = s.made[Len(s.served) + i]
        /\ s.made = Mmsp!ConnectRequests \/ (s.made = MmspPlan /\ Len(s.served) >= 2)
    BY <1>1, <1>2 DEF MmspTurn
  <1>4. s.requests \in Seq(MmspAsked) /\ s.served \in Seq(MmspAsked \X MmspAsked)
    BY <1>1 DEF MmspSessions
  <1>5. PICK rest \in Seq(MmspAsked) :
          /\ rest = Tail(s.requests) /\ Len(rest) = Len(s.requests) - 1
          /\ \A i \in 1..Len(rest) : rest[i] = s.requests[i + 1]
    BY <1>2, <1>4, HeadTailProperties
  <1> DEFINE p == <<f, f>>
         P == MmspAsked \X MmspAsked
  <1>6. p \in P /\ p[1] = p[2]
    BY <1>2
  <1>17. s.served \in Seq(P)
    BY <1>4
  <1> HIDE DEF p, P
  <1>7. PICK served \in Seq(P) :
          /\ served = Append(s.served, p) /\ Len(served) = Len(s.served) + 1
          /\ \A i \in 1..Len(s.served) : served[i] = s.served[i]
          /\ served[Len(s.served) + 1] = p
    <2> DEFINE v == Append(s.served, p)
    <2>1. v \in Seq(P) /\ Len(v) = Len(s.served) + 1
      BY <1>6, <1>17, AppendProperties
    <2>2. \A i \in 1..Len(s.served) : v[i] = s.served[i]
      BY <1>6, <1>17, AppendProperties
    <2>3. v[Len(s.served) + 1] = p
      BY <1>6, <1>17, AppendProperties
    <2> HIDE DEF v
    <2>4. v = Append(s.served, p)
      BY DEF v
    <2> QED BY <2>1, <2>2, <2>3, <2>4
  <1>8. PICK a, b, c \in Nat : /\ a = Len(s.made) /\ b = Len(s.served) /\ c = Len(s.requests)
                               /\ c # 0 /\ a = b + c
    BY <1>2
  <1>9. Len(rest) = c - 1 /\ Len(served) = b + 1
    BY <1>5, <1>7, <1>8
  <1>18. a = b + c /\ c # 0
    BY <1>8
  <1>19. a = (b + 1) + (c - 1)
    BY <1>18
  <1>10. Len(s.made) = Len(served) + Len(rest)
    BY <1>8, <1>9, <1>19
  <1>11. \A i \in 1..Len(rest) : rest[i] = s.made[Len(served) + i]
    <2> SUFFICES ASSUME NEW i \in 1..(c - 1) PROVE rest[i] = s.made[(b + 1) + i]
      BY <1>9
    <2>1. i + 1 \in 1..c /\ b + (i + 1) = (b + 1) + i
      BY <1>18
    <2>2. rest[i] = s.requests[i + 1]
      BY <1>5, <1>9
    <2>3. s.requests[i + 1] = s.made[b + (i + 1)]
      BY <1>3, <1>8, <2>1
    <2> QED BY <2>1, <2>2, <2>3
  <1>12. \A i \in 1..Len(served) : served[i][1] = served[i][2]
    <2> SUFFICES ASSUME NEW i \in 1..(b + 1) PROVE served[i][1] = served[i][2]
      BY <1>9
    <2>1. CASE i = b + 1
      BY <1>6, <1>7, <1>8, <2>1
    <2>2. CASE i # b + 1
      <3>1. i \in 1..b
        BY <2>2
      <3>2. s.served[i][1] = s.served[i][2]
        BY <1>1, <1>8, <3>1 DEF MmspPast
      <3> QED BY <1>7, <1>8, <3>1, <3>2
    <2> QED BY <2>1, <2>2
  <1>13. s.made = Mmsp!ConnectRequests \/ (s.made = MmspPlan /\ Len(served) >= 2)
    <2>1. b >= 2 => b + 1 >= 2
      OBVIOUS
    <2> QED BY <1>3, <1>8, <1>9, <2>1
  <1>14. Len(s.requests) = 1 <=> rest = << >>
    <2>1. rest = << >> <=> Len(rest) = 0
      BY EmptySeq
    <2>2. c = 1 <=> c - 1 = 0
      BY <1>18
    <2> QED BY <1>8, <1>9, <2>1, <2>2
  <1>15. Head(s.down) = m => <<Head(s.requests), Head(s.down)[2]>> = p
    BY <1>2 DEF p
  <1>16. Head(s.down) = m => Mmsp!Popped(s) =
                [s EXCEPT !.request = IF rest = << >> THEN "finished" ELSE "send_pending",
                          !.requests = rest, !.served = served]
    BY <1>1, <1>5, <1>7, <1>14, <1>15 DEF Mmsp!Popped, MmspSessions
  <1>20. MmspPopsTo(s, m, rest, served)
    BY <1>16 DEF MmspPopsTo
  <1>21. MmspOneMore(s, rest, served)
    BY <1>7, <1>10, <1>11, <1>12, <1>13 DEF MmspOneMore
  <1> QED BY <1>5, <1>7, <1>20, <1>21 DEF P

\* The first request is answered well: the client is done, or goes on to the next.
LEMMA MmspGoesTo ==
  ASSUME NEW s, MmspGood(s), s.link, s.call # "failed", MmspSent(s), MmspAnswered(s),
         NEW t \in Seq(MmspChat), NEW rest \in Seq(MmspAsked), NEW served,
         Len(s.got) # 5 => t \in Seq({<<"ping", "none">>} \cup MmspAnswers),
         MmspOneMore(s, rest, served), NEW q \in MmspSessions, ~q.failed, q.down = t, q.requests = rest, q.served = served,
         q.mode = s.mode, q.status = s.status \/ q.status = "established",
         q.pending = s.pending, q.made = s.made, q.good = s.good, q.reading = s.reading,
         q.dirty = s.dirty, q.replied >= q.asked, q.link = s.link, MmspServerAs(q, s),
         \/ rest = << >> /\ q.call = "none" /\ q.request = "finished" /\ q.op = "none" /\ q.up = s.up
         \/ /\ rest # << >> /\ q.call = s.call /\ q.mode = "async" /\ q.request = "sending_req"
            /\ q.op = "write" /\ q.up = Append(s.up, rest[1])
         \/ /\ rest # << >> /\ q.call = s.call /\ q.mode = "sync" /\ q.request = "send_pending"
            /\ q.op = "none" /\ q.up = s.up
  PROVE  MmspGood(q)
  <1> /\ Len(served) = Len(s.served) + 1 /\ Len(s.made) = Len(served) + Len(rest)
      /\ \A i \in 1..Len(rest) : rest[i] = s.made[Len(served) + i]
      /\ \A i \in 1..Len(served) : served[i][1] = served[i][2]
      /\ s.made = Mmsp!ConnectRequests \/ (s.made = MmspPlan /\ Len(served) >= 2)
    BY DEF MmspOneMore
  <1>1. /\ s \in MmspSessions /\ MmspCalls(s) /\ MmspTurn(s) /\ MmspPast(s) /\ MmspFresh(s)
        /\ MmspServes(s)
    BY DEF MmspGood
  <1>2. s.mode = "async" \/ s.mode = "sync"
    BY <1>1 DEF MmspSessions, Modes
  <1>3. MmspCalling(s) /\ s.call # "none" /\ s.status \notin {"closed", "connectting"}
    BY <1>1, <1>2 DEF MmspSent, MmspCalls, MmspCalling
  <1>4. s.pending = << >>
    <2>1. CASE s.mode = "async"
      BY <1>1, <2>1 DEF MmspCalls
    <2>2. CASE s.mode = "sync"
      BY <1>1, <2>2 DEF MmspTurn, MmspSent
    <2> QED BY <1>2, <2>1, <2>2
  <1>5. ~s.dirty /\ s.good
    <2>1. ~s.dirty
      BY <1>1, <1>3 DEF MmspFresh
    <2> QED BY <1>1, <2>1 DEF MmspFresh
  <1>6. s.mode = "async" => ~s.reading
    BY <1>1 DEF MmspFresh, MmspSent
  <1>7. MmspCalls(q)
    BY <1>1, <1>2, <1>3, <1>4 DEF MmspCalls, MmspCalling
  <1>8. MmspFresh(q)
    BY <1>3, <1>5, <1>6 DEF MmspFresh
  <1>9. Len(s.got) = Len(served)
    BY DEF MmspAnswered
  <1>10. Len(s.served) \in Nat /\ Len(served) \in Nat
    <2>1. Len(s.served) \in Nat
      BY <1>1, LenProperties DEF MmspSessions
    <2> QED BY <2>1
  <1>11. MmspPast(q)
    <2>1. Len(q.got) <= Len(q.served) + 1
      BY <1>9, <1>10 DEF MmspServerAs
    <2> QED BY <1>1, <2>1 DEF MmspPast, MmspServerAs
  <1>12. MmspServes(q)
    BY <1>1, MmspServesKept
  <1>13. MmspTurn(q)
    <2>1. q.pending = << >>
      BY <1>4
    <2>2. (q.requests = << >>) <=> (q.call = "none")
      BY <1>3
    <2>3. (q.call = "none") <=> (q.request = "finished")
      BY <1>3
    <2>4. q.made = Mmsp!ConnectRequests \/ (q.made = MmspPlan /\ Len(q.served) >= 2)
      OBVIOUS
    <2> QED BY <2>1, <2>2, <2>3, <2>4 DEF MmspTurn
  <1>14. MmspStreams(q)
    BY DEF MmspStreams, MmspServerAs
  <1>15. /\ s.up \in Seq({"pong"}) /\ q.busy # "local" /\ Len(q.got) = Len(q.served)
         /\ q.down \in Seq(MmspChat)
    BY <1>9 DEF MmspAnswered, MmspServerAs
  <1>16. MmspUnsent(q) \/ MmspOnItsWay(q)
    <2>1. CASE q.up = s.up /\ q.op = "none" /\ q.request # "recving_resp"
      BY <1>15, <2>1 DEF MmspUnsent, MmspSent
    <2>2. CASE q.mode = "async" /\ q.op = "write" /\ q.up = Append(s.up, rest[1])
      <3>1. rest[1] \in {rest[1]}
        OBVIOUS
      <3>2. OneOf(q.up, {"pong"}, {rest[1]})
        BY <1>15, <2>2, <3>1, OneIsPut
      <3> QED BY <1>15, <2>2, <3>2 DEF MmspOnItsWay, MmspSent
    <2> QED BY <2>1, <2>2
  <1>17. q.call # "failed"
    OBVIOUS
  <1> QED BY <1>7, <1>8, <1>11, <1>12, <1>13, <1>14, <1>16, <1>17 DEF MmspGood, MmspStage

\* The first request is answered with an error: the call fails.
LEMMA MmspErrs ==
  ASSUME NEW s, MmspGood(s), s.link, s.call # "failed", MmspSent(s), MmspAnswered(s),
         NEW q \in MmspSessions, ~q.failed, q.served = s.served, q.mode = s.mode, q.op = "none",
         q.status = s.status \/ q.status = "broken", q.call = "failed", q.dirty,
         q.pending = s.pending, q.made = s.made, q.reading = s.reading,
         q.replied >= q.asked, q.link = s.link, q.up = s.up, MmspServerAs(q, s)
  PROVE  MmspGood(q)
  <1>1. /\ s \in MmspSessions /\ MmspCalls(s) /\ MmspPast(s) /\ MmspFresh(s) /\ MmspServes(s)
    BY DEF MmspGood
  <1>2. s.mode = "async" \/ s.mode = "sync"
    BY <1>1 DEF MmspSessions, Modes
  <1>3. MmspCalls(q)
    BY <1>1, <1>2 DEF MmspCalls, MmspCalling
  <1>4. MmspFresh(q)
    BY <1>1 DEF MmspFresh
  <1>5. MmspPast(q)
    BY <1>1 DEF MmspPast, MmspServerAs
  <1>6. MmspServes(q)
    BY <1>1, MmspServesKept
  <1>7. q.up \in Seq({"pong"}) /\ q.busy # "local"
    BY DEF MmspAnswered, MmspServerAs
  <1> QED BY <1>3, <1>4, <1>5, <1>6, <1>7 DEF MmspGood, MmspTurn, MmspStreams, MmspStage

LEMMA MmspReads ==
  ASSUME NEW s \in MmspSessions, NEW m, m = Head(s.down), NEW t, t = Tail(s.down)
  PROVE  \E a \in Nat : /\ Mmsp!Read(s) = [s EXCEPT !.down = t, !.asked = a]
                        /\ a = s.asked + (IF m[1] = "ping" THEN 1 ELSE 0)
  <1>3. s.asked \in Nat
    BY DEF MmspSessions
  <1>4. s.asked + (IF m[1] = "ping" THEN 1 ELSE 0) \in Nat
    <2>1. CASE m[1] = "ping"
      BY <1>3, <2>1
    <2>2. CASE m[1] # "ping"
      BY <1>3, <2>2
    <2> QED BY <2>1, <2>2
  <1>1. PICK a \in Nat : a = s.asked + (IF m[1] = "ping" THEN 1 ELSE 0)
    BY <1>4
  <1>2. Mmsp!Read(s) = [s EXCEPT !.down = t, !.asked = a]
    BY <1>1 DEF Mmsp!Read, MmspSessions
  <1> QED BY <1>1, <1>2

\* What the client makes of a message, by what it is.
LEMMA MmspPost ==
  ASSUME NEW f, NEW m
  PROVE  /\ Mmsp!process_protocol_message(m) <=> m[1] = "ping"
         /\ m = <<"stream", "none">> /\ f = "start_playing" =>
              /\ m[1] # "ping" /\ ~Mmsp!post_response(f, m).asserted
              /\ Mmsp!post_response(f, m).skipped
         /\ \A k \in {"answer", "error"} : m = <<k, f>> =>
              /\ m[1] # "ping" /\ ~Mmsp!post_response(f, m).asserted
              /\ ~Mmsp!post_response(f, m).skipped
              /\ (Mmsp!post_response(f, m).ok <=> k # "error")
  <1>1. Mmsp!process_protocol_message(m) <=> m[1] = "ping"
    BY DEF Mmsp!process_protocol_message
  <1>2. ASSUME m = <<"stream", "none">>, f = "start_playing"
        PROVE  /\ m[1] # "ping" /\ ~Mmsp!post_response(f, m).asserted
               /\ Mmsp!post_response(f, m).skipped
    <2>1. m[1] = "stream" /\ m[2] = "none"
      BY <1>2
    <2> QED BY <1>2, <2>1 DEF Mmsp!post_response
  <1>3. ASSUME NEW k \in {"answer", "error"}, m = <<k, f>>
        PROVE  /\ m[1] # "ping" /\ ~Mmsp!post_response(f, m).asserted
               /\ ~Mmsp!post_response(f, m).skipped
               /\ (Mmsp!post_response(f, m).ok <=> k # "error")
    <2>1. m[1] = k /\ m[2] = f
      BY <1>3
    <2> QED BY <2>1 DEF Mmsp!post_response
  <1> QED BY <1>1, <1>2, <1>3

\* A ping is answered: what is left of the session but for its request.
LEMMA MmspReplies ==
  ASSUME NEW s \in MmspSessions, s.replied >= s.asked, NEW m, m = Head(s.down), m[1] = "ping",
         NEW t \in Seq(MmspChat \cup MmspAnswers), t = Tail(s.down)
  PROVE  \E a \in Nat, r \in Nat, u \in Seq({"pong"} \cup MmspAsked) :
           /\ Mmsp!Write(Mmsp!Read(s), "pong") =
                [s EXCEPT !.down = t, !.asked = a, !.up = u, !.replied = r]
           /\ u = Append(s.up, "pong") /\ r >= a
  <1>1. PICK a \in Nat : /\ Mmsp!Read(s) = [s EXCEPT !.down = t, !.asked = a]
                         /\ a = s.asked + 1
    BY MmspReads
  <1> DEFINE x == [s EXCEPT !.down = t, !.asked = a]
  <1>2. x \in MmspSessions
    BY DEF MmspSessions
  <1>3. x.up = s.up /\ x.replied = s.replied
    BY DEF MmspSessions
  <1>4. Mmsp!Read(s) = x
    BY <1>1
  <1> HIDE DEF x
  <1>5. PICK r \in Nat, u \in Seq({"pong"} \cup MmspAsked) :
           /\ Mmsp!Write(x, "pong") = [x EXCEPT !.up = u, !.replied = r]
           /\ u = Append(x.up, "pong") /\ r = x.replied + 1
    BY <1>2, MmspWrites
  <1>6. [x EXCEPT !.up = u, !.replied = r] = [s EXCEPT !.down = t, !.asked = a, !.up = u, !.replied = r]
    BY DEF x, MmspSessions
  <1>7. s.asked \in Nat /\ s.replied \in Nat
    BY DEF MmspSessions
  <1>8. r >= a
    BY <1>1, <1>3, <1>5, <1>7
  <1> QED BY <1>3, <1>4, <1>5, <1>6, <1>8

\* A message that is neither a ping nor of the answers is dropped.
LEMMA MmspDrops ==
  ASSUME NEW s \in MmspSessions, NEW m, m = Head(s.down), m[1] # "ping",
         NEW t \in Seq(MmspChat \cup MmspAnswers), t = Tail(s.down)
  PROVE  Mmsp!Read(s) = [s EXCEPT !.down = t]
  <1>1. PICK a \in Nat : /\ Mmsp!Read(s) = [s EXCEPT !.down = t, !.asked = a]
                         /\ a = s.asked + 0
    BY MmspReads
  <1>2. s.asked \in Nat
    BY DEF MmspSessions
  <1>3. a = s.asked
    BY <1>1, <1>2
  <1>4. [s EXCEPT !.down = t, !.asked = s.asked] = [s EXCEPT !.down = t]
    BY DEF MmspSessions
  <1> QED BY <1>1, <1>3, <1>4

\* The asynchronous client reads a message while its first request is answered.
LEMMA MmspReceived ==
  ASSUME NEW s, MmspGood(s), s.link, s.mode = "async", s.op = "read", s.down # << >>
  PROVE  MmspGood(Mmsp!Received(s))
  <1>1. /\ s \in MmspSessions /\ s.failed = FALSE /\ MmspCalls(s) /\ MmspTurn(s)
        /\ s.replied >= s.asked /\ MmspSent(s)
    BY DEF MmspGood, MmspSent, MmspPast, MmspSessions
  <1>2. s.call # "failed" /\ s.pending = << >>
    BY <1>1 DEF MmspCalls, MmspCalling
  <1>3. PICK m, t, f : m = Head(s.down) /\ t = Tail(s.down) /\ f = s.requests[1]
    OBVIOUS
  <1>4. s.requests # << >> /\ Head(s.requests) = f
    BY <1>1, <1>2, <1>3, MmspFront
  <1>5. /\ t \in Seq(MmspChat \cup MmspAnswers)
        /\ Len(s.got) # 5 => t \in Seq({<<"ping", "none">>} \cup MmspAnswers)
        /\ \/ m[1] = "ping" /\ MmspAfter(s, t)
           \/ m = <<"stream", "none">> /\ f = "start_playing" /\ MmspAfter(s, t)
           \/ m \in {"answer", "error"} \X {f} /\ MmspAnswered(s) /\ t \in Seq(MmspChat)
    BY <1>1, <1>2, <1>3, MmspHead
  <1>6. CASE m[1] = "ping" /\ MmspAfter(s, t)
    <2>1. PICK a \in Nat, r \in Nat, u \in Seq({"pong"} \cup MmspAsked) :
             /\ Mmsp!Write(Mmsp!Read(s), "pong") =
                  [s EXCEPT !.down = t, !.asked = a, !.up = u, !.replied = r]
             /\ u = Append(s.up, "pong") /\ r >= a
      BY <1>1, <1>3, <1>5, <1>6, MmspReplies
    <2> DEFINE q == [s EXCEPT !.down = t, !.asked = a, !.up = u, !.replied = r,
                              !.proto = TRUE, !.request = "sending_req", !.op = "write"]
    <2>2. Mmsp!Received(s) =
            [Mmsp!Write(Mmsp!Read(s), "pong") EXCEPT !.proto = TRUE, !.request = "sending_req", !.op = "write"]
      BY <1>3, <1>6 DEF Mmsp!Received, Mmsp!process_protocol_message
    <2>3. Mmsp!Received(s) = q
      BY <1>1, <2>1, <2>2 DEF MmspSessions
    <2>4. q \in MmspSessions
      BY <1>1, <1>5, StatesAre DEF MmspSessions
    <2>5. /\ q.mode = s.mode /\ q.status = s.status /\ q.request = "sending_req"
          /\ q.requests = s.requests /\ q.proto = TRUE /\ q.op = "write" /\ q.pending = s.pending
          /\ q.call = s.call /\ q.made = s.made /\ q.served = s.served /\ q.good = s.good
          /\ q.reading = s.reading /\ q.dirty = s.dirty /\ q.asked = a /\ q.replied = r
          /\ q.link = s.link /\ q.up = u /\ q.down = t /\ q.busy = s.busy /\ q.current = s.current
          /\ q.got = s.got /\ q.finished = s.finished /\ q.strays = s.strays /\ q.tries = s.tries
          /\ q.failed = s.failed
      BY <1>1 DEF MmspSessions
    <2> HIDE DEF q
    <2>6. MmspServerAs(q, s)
      BY <2>5 DEF MmspServerAs
    <2>7. MmspGood(q)
      BY <1>1, <1>2, <1>5, <1>6, <2>1, <2>4, <2>5, <2>6, MmspGoesOn, ZenonT(40)
    <2> QED BY <2>3, <2>7
  <1>7. CASE m = <<"stream", "none">> /\ f = "start_playing" /\ MmspAfter(s, t)
    <2> DEFINE q == [s EXCEPT !.down = t]
    <2>1. /\ m[1] # "ping" /\ ~Mmsp!post_response(f, m).asserted
          /\ Mmsp!post_response(f, m).skipped
      BY <1>7, MmspPost
    <2>2. Mmsp!Received(s) = Mmsp!Read(s)
      BY <1>3, <1>4, <2>1 DEF Mmsp!Received, Mmsp!process_protocol_message
    <2>3. Mmsp!Received(s) = q
      BY <1>1, <1>3, <1>5, <2>1, <2>2, MmspDrops
    <2>4. q \in MmspSessions
      BY <1>1, <1>5, StatesAre DEF MmspSessions
    <2>5. /\ q.mode = s.mode /\ q.status = s.status /\ q.request = s.request
          /\ q.requests = s.requests /\ q.proto = s.proto /\ q.op = s.op /\ q.pending = s.pending
          /\ q.call = s.call /\ q.made = s.made /\ q.served = s.served /\ q.good = s.good
          /\ q.reading = s.reading /\ q.dirty = s.dirty /\ q.asked = s.asked
          /\ q.replied = s.replied /\ q.link = s.link /\ q.up = s.up /\ q.down = t
          /\ q.busy = s.busy /\ q.current = s.current /\ q.got = s.got /\ q.finished = s.finished
          /\ q.strays = s.strays /\ q.tries = s.tries /\ q.failed = s.failed
      BY <1>1 DEF MmspSessions
    <2> HIDE DEF q
    <2>6. MmspServerAs(q, s)
      BY <2>5 DEF MmspServerAs
    <2>7. MmspGood(q)
      BY <1>1, <1>2, <1>5, <1>7, <2>4, <2>5, <2>6, MmspGoesOn
    <2> QED BY <2>3, <2>7
  <1>8. CASE m \in {"answer", "error"} \X {f} /\ MmspAnswered(s) /\ t \in Seq(MmspChat)
    <2>1. PICK k \in {"answer", "error"} : m = <<k, f>>
      BY <1>8
    <2>2. /\ m[1] # "ping" /\ ~Mmsp!post_response(f, m).asserted
          /\ ~Mmsp!post_response(f, m).skipped /\ (Mmsp!post_response(f, m).ok <=> k # "error")
      BY <2>1, MmspPost
    <2>3. Mmsp!Read(s) = [s EXCEPT !.down = t]
      BY <1>1, <1>3, <1>5, <2>2, MmspDrops
    <2>4. CASE k = "error"
      <3> DEFINE q == [s EXCEPT !.down = t, !.good = FALSE, !.status = "broken", !.requests = << >>,
                                !.op = "none", !.dirty = TRUE, !.failed = FALSE, !.call = "failed"]
      <3>1. Mmsp!Received(s) = Mmsp!Broken([Mmsp!Read(s) EXCEPT !.good = FALSE])
        BY <1>3, <1>4, <2>2, <2>4 DEF Mmsp!Received, Mmsp!process_protocol_message
      <3>2. Mmsp!Received(s) = q
        BY <1>1, <1>4, <2>3, <3>1 DEF Mmsp!Broken, Mmsp!response, Mmsp!None, MmspSessions
      <3>3. << >> \in Seq(MmspAsked)
        BY EmptySeq
      <3>4. q \in MmspSessions
        BY <1>1, <1>5, <3>3, StatesAre DEF MmspSessions
      <3>5. /\ q.mode = s.mode /\ q.status = "broken" /\ q.request = s.request
            /\ q.requests = << >> /\ q.proto = s.proto /\ q.op = "none" /\ q.pending = s.pending
            /\ q.call = "failed" /\ q.made = s.made /\ q.served = s.served /\ q.good = FALSE
            /\ q.reading = s.reading /\ q.dirty = TRUE /\ q.asked = s.asked
            /\ q.replied = s.replied /\ q.link = s.link /\ q.up = s.up /\ q.down = t
            /\ q.busy = s.busy /\ q.current = s.current /\ q.got = s.got
            /\ q.finished = s.finished /\ q.strays = s.strays /\ q.tries = s.tries
            /\ q.failed = FALSE
        BY <1>1 DEF MmspSessions
      <3> HIDE DEF q
      <3>6. MmspServerAs(q, s)
        BY <3>5 DEF MmspServerAs
      <3>7. MmspGood(q)
        BY <1>1, <1>2, <1>8, <3>4, <3>5, <3>6, MmspErrs
      <3> QED BY <3>2, <3>7
    <2>0. /\ s.call # "failed" /\ MmspSent(s) /\ MmspAnswered(s) /\ m = Head(s.down)
          /\ t \in Seq(MmspChat) /\ f = s.requests[1]
          /\ Len(s.got) # 5 => t \in Seq({<<"ping", "none">>} \cup MmspAnswers)
      BY <1>1, <1>2, <1>3, <1>5, <1>8
    <2>5. CASE k # "error"
      <3>1. PICK rest \in Seq(MmspAsked), served \in Seq(MmspAsked \X MmspAsked) :
               MmspPopsTo(s, m, rest, served) /\ MmspOneMore(s, rest, served)
        BY <2>0, <2>1, MmspPops
      <3> DEFINE p == [s EXCEPT !.request = IF rest = << >> THEN "finished" ELSE "send_pending",
                                !.requests = rest, !.served = served, !.down = t, !.op = "none"]
      <3>2. [Mmsp!Popped(s) EXCEPT !.down = Mmsp!Read(s).down, !.op = "none"] = p
        <4>1. Mmsp!Popped(s) = [s EXCEPT !.request = IF rest = << >> THEN "finished" ELSE "send_pending",
                                         !.requests = rest, !.served = served]
          BY <1>3, <3>1 DEF MmspPopsTo
        <4>2. Mmsp!Read(s).down = t
          BY <1>1, <2>3 DEF MmspSessions
        <4> QED BY <1>1, <4>1, <4>2 DEF MmspSessions
      <3>3. p \in MmspSessions
        BY <1>1, <1>5, StatesAre DEF MmspSessions
      <3>4. /\ p.mode = s.mode /\ p.status = s.status
            /\ p.request = (IF rest = << >> THEN "finished" ELSE "send_pending")
            /\ p.requests = rest /\ p.proto = s.proto /\ p.op = "none" /\ p.pending = s.pending
            /\ p.call = s.call /\ p.made = s.made /\ p.served = served /\ p.good = s.good
            /\ p.reading = s.reading /\ p.dirty = s.dirty /\ p.asked = s.asked
            /\ p.replied = s.replied /\ p.link = s.link /\ p.up = s.up /\ p.down = t
            /\ p.busy = s.busy /\ p.current = s.current /\ p.got = s.got
            /\ p.finished = s.finished /\ p.strays = s.strays /\ p.tries = s.tries
            /\ p.failed = s.failed
        BY <1>1 DEF MmspSessions
      <3> HIDE DEF p
      <3>5. Mmsp!Received(s) = IF rest = << >> THEN Mmsp!response(p, TRUE) ELSE Mmsp!Send(p)
        BY <1>3, <1>4, <2>2, <2>5, <3>2, <3>4
           DEF Mmsp!Received, Mmsp!process_protocol_message, Mmsp!None
      <3>6. ASSUME NEW q \in MmspSessions, ~q.failed, q.down = t, q.requests = rest,
                   q.served = served, q.mode = s.mode, q.status = s.status, q.pending = s.pending,
                   q.made = s.made, q.good = s.good, q.reading = s.reading, q.dirty = s.dirty,
                   q.replied >= q.asked, q.link = s.link, MmspServerAs(q, s),
                   \/ rest = << >> /\ q.call = "none" /\ q.request = "finished" /\ q.op = "none" /\ q.up = s.up
                   \/ /\ rest # << >> /\ q.call = s.call /\ q.mode = "async" /\ q.request = "sending_req"
                      /\ q.op = "write" /\ q.up = Append(s.up, rest[1])
            PROVE  MmspGood(q)
        BY <2>0, <3>1, <3>6, MmspGoesTo
      <3>7. CASE rest = << >>
        <4> DEFINE q == [p EXCEPT !.call = "none"]
        <4>1. Mmsp!Received(s) = q
          BY <3>5, <3>7 DEF Mmsp!response, Mmsp!None
        <4>2. q \in MmspSessions
          BY <3>3, StatesAre DEF MmspSessions
        <4>3. /\ q.mode = p.mode /\ q.status = p.status /\ q.request = p.request
              /\ q.requests = p.requests /\ q.proto = p.proto /\ q.op = p.op
              /\ q.pending = p.pending /\ q.call = "none" /\ q.made = p.made
              /\ q.served = p.served /\ q.good = p.good /\ q.reading = p.reading
              /\ q.dirty = p.dirty /\ q.asked = p.asked /\ q.replied = p.replied
              /\ q.link = p.link /\ q.up = p.up /\ q.down = p.down /\ q.busy = p.busy
              /\ q.current = p.current /\ q.got = p.got /\ q.finished = p.finished
              /\ q.strays = p.strays /\ q.tries = p.tries /\ q.failed = p.failed
          BY <3>3 DEF MmspSessions
        <4> HIDE DEF q
        <4>4. MmspServerAs(q, s) /\ ~q.failed /\ q.replied >= q.asked
          BY <1>1, <3>4, <4>3 DEF MmspServerAs
        <4>5. MmspGood(q)
          BY <3>4, <3>6, <3>7, <4>2, <4>3, <4>4, ZenonT(40)
        <4> QED BY <4>1, <4>5
      <3>8. CASE rest # << >>
        <4>1. PICK r \in Nat, u \in Seq({"pong"} \cup MmspAsked) :
                 /\ Mmsp!Send(p) = [p EXCEPT !.up = u, !.replied = r, !.request = "sending_req",
                                             !.op = "write", !.failed = FALSE]
                 /\ u = Append(p.up, p.requests[1]) /\ r >= p.replied
          BY <1>1, <1>2, <3>3, <3>4, <3>8, MmspSend
        <4> DEFINE q == [p EXCEPT !.up = u, !.replied = r, !.request = "sending_req",
                                  !.op = "write", !.failed = FALSE]
        <4>2. Mmsp!Received(s) = q
          BY <3>5, <3>8, <4>1
        <4>3. q \in MmspSessions
          BY <3>3, StatesAre DEF MmspSessions
        <4>4. /\ q.mode = p.mode /\ q.status = p.status /\ q.request = "sending_req"
              /\ q.requests = p.requests /\ q.proto = p.proto /\ q.op = "write"
              /\ q.pending = p.pending /\ q.call = p.call /\ q.made = p.made
              /\ q.served = p.served /\ q.good = p.good /\ q.reading = p.reading
              /\ q.dirty = p.dirty /\ q.asked = p.asked /\ q.replied = r /\ q.link = p.link
              /\ q.up = u /\ q.down = p.down /\ q.busy = p.busy /\ q.current = p.current
              /\ q.got = p.got /\ q.finished = p.finished /\ q.strays = p.strays
              /\ q.tries = p.tries /\ q.failed = FALSE
          BY <3>3 DEF MmspSessions
        <4> HIDE DEF q
        <4>5. s.replied \in Nat /\ s.asked \in Nat
          BY <1>1 DEF MmspSessions
        <4>6. MmspServerAs(q, s) /\ ~q.failed /\ q.replied >= q.asked
          BY <1>1, <3>4, <4>1, <4>4, <4>5 DEF MmspServerAs
        <4>7. MmspGood(q)
          <5>1. /\ q.down = t /\ q.requests = rest /\ q.served = served /\ q.mode = s.mode
                /\ q.status = s.status /\ q.pending = s.pending /\ q.made = s.made
                /\ q.good = s.good /\ q.reading = s.reading /\ q.dirty = s.dirty
                /\ q.link = s.link /\ q.call = s.call /\ q.request = "sending_req"
                /\ q.op = "write" /\ q.mode = "async" /\ q.up = Append(s.up, rest[1])
            BY <3>4, <4>1, <4>4
          <5> QED BY <3>6, <3>8, <4>3, <4>6, <5>1
        <4> QED BY <4>2, <4>7
      <3> QED BY <3>7, <3>8
    <2> QED BY <2>4, <2>5
  <1> QED BY <1>5, <1>6, <1>7, <1>8

\* A write completes: the client reads; or a read does.
LEMMA MmspComplete ==
  ASSUME MmspGood(mmsp), Mmsp!Complete
  PROVE  MmspGood(mmsp')
  <1>1. /\ mmsp \in MmspSessions /\ ~mmsp.failed /\ MmspCalls(mmsp) /\ MmspFresh(mmsp)
        /\ MmspPast(mmsp) /\ MmspServes(mmsp) /\ MmspTurn(mmsp) /\ MmspStreams(mmsp)
        /\ MmspStage(mmsp)
    BY DEF MmspGood
  <1>2. mmsp.op = "write" \/ (mmsp.op = "read" /\ mmsp.down # << >>)
    BY DEF Mmsp!Complete
  <1>3. mmsp.link /\ mmsp' = Mmsp!handle_async_reqeust(mmsp)
    BY DEF Mmsp!Complete
  <1>4. mmsp.mode = "async" /\ ~mmsp.reading /\ mmsp.reading \in BOOLEAN
    BY <1>1, <1>2 DEF MmspCalls, MmspFresh, MmspSessions, Modes
  <1>5. CASE mmsp.op = "read" /\ mmsp.down # << >>
    BY <1>3, <1>4, <1>5, MmspReceived DEF Mmsp!handle_async_reqeust
  <1>6. CASE mmsp.op = "write"
    <2> DEFINE q == [mmsp EXCEPT !.request = "recving_resp", !.op = "read", !.failed = FALSE]
    <2>1. mmsp' = q
      BY <1>3, <1>4, <1>6 DEF Mmsp!handle_async_reqeust
    <2>2. q \in MmspSessions
      BY <1>1, StatesAre DEF MmspSessions
    <2>3. /\ q.mode = mmsp.mode /\ q.status = mmsp.status /\ q.request = "recving_resp"
          /\ q.requests = mmsp.requests /\ q.proto = mmsp.proto /\ q.op = "read"
          /\ q.pending = mmsp.pending /\ q.call = mmsp.call /\ q.made = mmsp.made
          /\ q.served = mmsp.served /\ q.good = mmsp.good /\ q.reading = mmsp.reading
          /\ q.dirty = mmsp.dirty /\ q.asked = mmsp.asked /\ q.replied = mmsp.replied
          /\ q.link = mmsp.link /\ q.up = mmsp.up /\ q.down = mmsp.down /\ q.busy = mmsp.busy
          /\ q.current = mmsp.current /\ q.got = mmsp.got /\ q.finished = mmsp.finished
          /\ q.strays = mmsp.strays /\ q.tries = mmsp.tries /\ q.failed = FALSE
      BY <1>1 DEF MmspSessions
    <2> HIDE DEF q
    <2>4. mmsp.call # "none" /\ mmsp.call # "failed" /\ mmsp.pending = << >>
      BY <1>1, <1>4, <1>6 DEF MmspCalls, MmspCalling
    <2>5. MmspCalls(q) /\ MmspFresh(q)
      BY <1>1, <1>4, <1>6, <2>3, <2>4 DEF MmspCalls, MmspFresh, MmspCalling
    <2>6. MmspPast(q) /\ MmspServes(q) /\ MmspStreams(q)
      BY <1>1, <2>3 DEF MmspPast, MmspServes, MmspStreams
    <2>7. MmspTurn(q)
      BY <1>1, <2>3, <2>4 DEF MmspTurn
    <2>8. MmspSent(mmsp) /\ MmspSent(q)
      BY <1>4, <1>6, <2>3 DEF MmspSent
    <2>9. MmspOnItsWay(q) \/ MmspHeld(q) \/ MmspAnswered(q)
      BY <1>1, <1>3, <2>3, <2>4, <2>8 DEF MmspStage, MmspUnsent, MmspOnItsWay, MmspHeld, MmspAnswered
    <2>10. MmspStage(q)
      BY <2>3, <2>4, <2>9 DEF MmspStage
    <2> QED BY <2>1, <2>2, <2>3, <2>5, <2>6, <2>7, <2>10 DEF MmspGood
  <1> QED BY <1>2, <1>5, <1>6

\* The call is made again while its first request is answered.
LEMMA MmspHears ==
  ASSUME NEW s, MmspGood(s), s.link, s.mode = "sync", MmspSent(s), s.down # << >>
  PROVE  MmspGood(Mmsp!resume_request(s, FALSE))
  <1>1. /\ s \in MmspSessions /\ s.failed = FALSE /\ MmspCalls(s) /\ MmspTurn(s)
        /\ s.replied >= s.asked /\ s.request = "recving_resp" /\ s.op = "none"
    BY DEF MmspGood, MmspSent, MmspPast, MmspCalls, MmspSessions
  <1>2. s.call # "failed" /\ s.status \notin {"closed", "connectting"}
    BY <1>1 DEF MmspSent, MmspCalling, MmspCalls
  <1>3. PICK m, t, f : m = Head(s.down) /\ t = Tail(s.down) /\ f = s.requests[1]
    OBVIOUS
  <1>4. s.requests # << >> /\ Head(s.requests) = f
    BY <1>1, <1>2, <1>3, MmspFront
  <1>5. /\ t \in Seq(MmspChat \cup MmspAnswers)
        /\ Len(s.got) # 5 => t \in Seq({<<"ping", "none">>} \cup MmspAnswers)
        /\ \/ m[1] = "ping" /\ MmspAfter(s, t)
           \/ m = <<"stream", "none">> /\ f = "start_playing" /\ MmspAfter(s, t)
           \/ m \in {"answer", "error"} \X {f} /\ MmspAnswered(s) /\ t \in Seq(MmspChat)
    BY <1>1, <1>2, <1>3, MmspHead
  <1>6. CASE m[1] = "ping" /\ MmspAfter(s, t)
    <2>1. PICK a \in Nat, r \in Nat, u \in Seq({"pong"} \cup MmspAsked) :
             /\ Mmsp!Write(Mmsp!Read(s), "pong") =
                  [s EXCEPT !.down = t, !.asked = a, !.up = u, !.replied = r]
             /\ u = Append(s.up, "pong") /\ r >= a
      BY <1>1, <1>3, <1>5, <1>6, MmspReplies
    <2> DEFINE q == [s EXCEPT !.down = t, !.asked = a, !.up = u, !.replied = r, !.proto = TRUE]
    <2>2. Mmsp!resume_request(s, FALSE) = [Mmsp!Write(Mmsp!Read(s), "pong") EXCEPT !.proto = TRUE]
      BY <1>1, <1>3, <1>4, <1>6 DEF Mmsp!resume_request, Mmsp!process_protocol_message
    <2>3. Mmsp!resume_request(s, FALSE) = q
      BY <1>1, <2>1, <2>2 DEF MmspSessions
    <2>4. q \in MmspSessions
      BY <1>1, <1>5, StatesAre DEF MmspSessions
    <2>5. /\ q.mode = s.mode /\ q.status = s.status /\ q.request = s.request
          /\ q.requests = s.requests /\ q.proto = TRUE /\ q.op = s.op /\ q.pending = s.pending
          /\ q.call = s.call /\ q.made = s.made /\ q.served = s.served /\ q.good = s.good
          /\ q.reading = s.reading /\ q.dirty = s.dirty /\ q.asked = a /\ q.replied = r
          /\ q.link = s.link /\ q.up = u /\ q.down = t /\ q.busy = s.busy /\ q.current = s.current
          /\ q.got = s.got /\ q.finished = s.finished /\ q.strays = s.strays /\ q.tries = s.tries
          /\ q.failed = s.failed
      BY <1>1 DEF MmspSessions
    <2> HIDE DEF q
    <2>6. MmspServerAs(q, s)
      BY <2>5 DEF MmspServerAs
    <2>7. MmspGood(q)
      BY <1>1, <1>2, <1>5, <1>6, <2>1, <2>4, <2>5, <2>6, MmspGoesOn
    <2> QED BY <2>3, <2>7
  <1>7. CASE m = <<"stream", "none">> /\ f = "start_playing" /\ MmspAfter(s, t)
    <2> DEFINE q == [s EXCEPT !.down = t]
    <2>1. /\ m[1] # "ping" /\ ~Mmsp!post_response(f, m).asserted
          /\ Mmsp!post_response(f, m).skipped
      BY <1>7, MmspPost
    <2>2. Mmsp!resume_request(s, FALSE) = Mmsp!Read(s)
      BY <1>1, <1>3, <1>4, <2>1 DEF Mmsp!resume_request, Mmsp!process_protocol_message
    <2>3. Mmsp!resume_request(s, FALSE) = q
      BY <1>1, <1>3, <1>5, <2>1, <2>2, MmspDrops
    <2>4. q \in MmspSessions
      BY <1>1, <1>5, StatesAre DEF MmspSessions
    <2>5. /\ q.mode = s.mode /\ q.status = s.status /\ q.request = s.request
          /\ q.requests = s.requests /\ q.proto = s.proto /\ q.op = s.op /\ q.pending = s.pending
          /\ q.call = s.call /\ q.made = s.made /\ q.served = s.served /\ q.good = s.good
          /\ q.reading = s.reading /\ q.dirty = s.dirty /\ q.asked = s.asked
          /\ q.replied = s.replied /\ q.link = s.link /\ q.up = s.up /\ q.down = t
          /\ q.busy = s.busy /\ q.current = s.current /\ q.got = s.got /\ q.finished = s.finished
          /\ q.strays = s.strays /\ q.tries = s.tries /\ q.failed = s.failed
      BY <1>1 DEF MmspSessions
    <2> HIDE DEF q
    <2>6. MmspServerAs(q, s)
      BY <2>5 DEF MmspServerAs
    <2>7. MmspGood(q)
      BY <1>1, <1>2, <1>5, <1>7, <2>4, <2>5, <2>6, MmspGoesOn
    <2> QED BY <2>3, <2>7
  <1>8. CASE m \in {"answer", "error"} \X {f} /\ MmspAnswered(s) /\ t \in Seq(MmspChat)
    <2>1. PICK k \in {"answer", "error"} : m = <<k, f>>
      BY <1>8
    <2>2. /\ m[1] # "ping" /\ ~Mmsp!post_response(f, m).asserted
          /\ ~Mmsp!post_response(f, m).skipped /\ (Mmsp!post_response(f, m).ok <=> k # "error")
      BY <2>1, MmspPost
    <2>3. Mmsp!Read(s) = [s EXCEPT !.down = t]
      BY <1>1, <1>3, <1>5, <2>2, MmspDrops
    <2>4. CASE k = "error"
      <3> DEFINE q == [s EXCEPT !.down = t, !.good = FALSE, !.dirty = TRUE, !.call = "failed"]
      <3>1. Mmsp!resume_request(s, FALSE) =
              Mmsp!response([Mmsp!Read(s) EXCEPT !.good = FALSE, !.dirty = TRUE], FALSE)
        BY <1>1, <1>3, <1>4, <2>2, <2>4 DEF Mmsp!resume_request, Mmsp!process_protocol_message
      <3>2. Mmsp!resume_request(s, FALSE) = q
        BY <1>1, <2>3, <3>1 DEF Mmsp!response, MmspSessions
      <3>4. q \in MmspSessions
        BY <1>1, <1>5, StatesAre DEF MmspSessions
      <3>5. /\ q.mode = s.mode /\ q.status = s.status /\ q.request = s.request
            /\ q.requests = s.requests /\ q.proto = s.proto /\ q.op = s.op
            /\ q.pending = s.pending /\ q.call = "failed" /\ q.made = s.made
            /\ q.served = s.served /\ q.good = FALSE /\ q.reading = s.reading /\ q.dirty = TRUE
            /\ q.asked = s.asked /\ q.replied = s.replied /\ q.link = s.link /\ q.up = s.up
            /\ q.down = t /\ q.busy = s.busy /\ q.current = s.current /\ q.got = s.got
            /\ q.finished = s.finished /\ q.strays = s.strays /\ q.tries = s.tries
            /\ q.failed = s.failed
        BY <1>1 DEF MmspSessions
      <3> HIDE DEF q
      <3>6. MmspServerAs(q, s)
        BY <3>5 DEF MmspServerAs
      <3>7. MmspGood(q)
        BY <1>1, <1>2, <1>8, <3>4, <3>5, <3>6, MmspErrs
      <3> QED BY <3>2, <3>7
    <2>0. /\ s.call # "failed" /\ MmspSent(s) /\ MmspAnswered(s) /\ m = Head(s.down)
          /\ t \in Seq(MmspChat) /\ f = s.requests[1]
          /\ Len(s.got) # 5 => t \in Seq({<<"ping", "none">>} \cup MmspAnswers)
      BY <1>1, <1>2, <1>3, <1>5, <1>8
    <2>5. CASE k # "error"
      <3>1. PICK rest \in Seq(MmspAsked), served \in Seq(MmspAsked \X MmspAsked) :
               MmspPopsTo(s, m, rest, served) /\ MmspOneMore(s, rest, served)
        BY <2>0, <2>1, MmspPops
      <3> DEFINE p == [s EXCEPT !.request = IF rest = << >> THEN "finished" ELSE "send_pending",
                                !.requests = rest, !.served = served, !.down = t]
      <3>2. [Mmsp!Popped(s) EXCEPT !.down = Mmsp!Read(s).down] = p
        <4>1. Mmsp!Popped(s) = [s EXCEPT !.request = IF rest = << >> THEN "finished" ELSE "send_pending",
                                         !.requests = rest, !.served = served]
          BY <1>3, <3>1 DEF MmspPopsTo
        <4>2. Mmsp!Read(s).down = t
          BY <1>1, <2>3 DEF MmspSessions
        <4> QED BY <1>1, <4>1, <4>2 DEF MmspSessions
      <3>3. p \in MmspSessions
        BY <1>1, <1>5, StatesAre DEF MmspSessions
      <3>4. /\ p.mode = s.mode /\ p.status = s.status
            /\ p.request = (IF rest = << >> THEN "finished" ELSE "send_pending")
            /\ p.requests = rest /\ p.proto = s.proto /\ p.op = s.op /\ p.pending = s.pending
            /\ p.call = s.call /\ p.made = s.made /\ p.served = served /\ p.good = s.good
            /\ p.reading = s.reading /\ p.dirty = s.dirty /\ p.asked = s.asked
            /\ p.replied = s.replied /\ p.link = s.link /\ p.up = s.up /\ p.down = t
            /\ p.busy = s.busy /\ p.current = s.current /\ p.got = s.got
            /\ p.finished = s.finished /\ p.strays = s.strays /\ p.tries = s.tries
            /\ p.failed = s.failed
        BY <1>1 DEF MmspSessions
      <3> HIDE DEF p
      <3>5. Mmsp!resume_request(s, FALSE) =
              IF rest # << >> THEN p
              ELSE Mmsp!response(IF s.status = "net_connectting" THEN [p EXCEPT !.status = "established"] ELSE p, TRUE)
        BY <1>1, <1>3, <1>4, <2>2, <2>5, <3>2, <3>4
           DEF Mmsp!resume_request, Mmsp!process_protocol_message
      <3>6. ASSUME NEW q \in MmspSessions, ~q.failed, q.down = t, q.requests = rest,
                   q.served = served, q.mode = s.mode,
                   q.status = s.status \/ q.status = "established", q.pending = s.pending,
                   q.made = s.made, q.good = s.good, q.reading = s.reading, q.dirty = s.dirty,
                   q.replied >= q.asked, q.link = s.link, MmspServerAs(q, s),
                   \/ rest = << >> /\ q.call = "none" /\ q.request = "finished" /\ q.op = "none" /\ q.up = s.up
                   \/ /\ rest # << >> /\ q.call = s.call /\ q.mode = "sync" /\ q.request = "send_pending"
                      /\ q.op = "none" /\ q.up = s.up
            PROVE  MmspGood(q)
        BY <2>0, <3>1, <3>6, MmspGoesTo
      <3>7. CASE rest = << >>
        <4>1. PICK z \in Statuses : z = IF s.status = "net_connectting" THEN "established" ELSE s.status
          BY <1>1, StatesAre DEF MmspSessions
        <4> DEFINE q == [p EXCEPT !.call = "none", !.status = z]
        <4>2. Mmsp!resume_request(s, FALSE) = q
          <5> DEFINE x == IF s.status = "net_connectting" THEN [p EXCEPT !.status = "established"] ELSE p
          <5>1. x = [p EXCEPT !.status = z]
            BY <3>3, <3>4, <4>1 DEF MmspSessions
          <5>2. Mmsp!resume_request(s, FALSE) = [x EXCEPT !.call = "none"]
            BY <3>5, <3>7 DEF Mmsp!response, Mmsp!None
          <5> HIDE DEF x
          <5> QED BY <3>3, <5>1, <5>2 DEF MmspSessions
        <4>3. q \in MmspSessions
          BY <3>3, StatesAre DEF MmspSessions
        <4>4. /\ q.mode = p.mode /\ q.status = z /\ q.request = p.request
              /\ q.requests = p.requests /\ q.proto = p.proto /\ q.op = p.op
              /\ q.pending = p.pending /\ q.call = "none" /\ q.made = p.made
              /\ q.served = p.served /\ q.good = p.good /\ q.reading = p.reading
              /\ q.dirty = p.dirty /\ q.asked = p.asked /\ q.replied = p.replied
              /\ q.link = p.link /\ q.up = p.up /\ q.down = p.down /\ q.busy = p.busy
              /\ q.current = p.current /\ q.got = p.got /\ q.finished = p.finished
              /\ q.strays = p.strays /\ q.tries = p.tries /\ q.failed = p.failed
          BY <3>3 DEF MmspSessions
        <4> HIDE DEF q
        <4>5. MmspServerAs(q, s) /\ ~q.failed /\ q.replied >= q.asked
          BY <1>1, <3>4, <4>4 DEF MmspServerAs
        <4>6. /\ q.down = t /\ q.requests = rest /\ q.served = served /\ q.mode = s.mode
              /\ q.status = s.status \/ q.status = "established"
              /\ q.pending = s.pending /\ q.made = s.made /\ q.good = s.good
              /\ q.reading = s.reading /\ q.dirty = s.dirty /\ q.link = s.link /\ q.up = s.up
              /\ q.call = "none" /\ q.request = "finished" /\ q.op = "none"
          BY <1>1, <3>4, <3>7, <4>1, <4>4
        <4>7. MmspGood(q)
          BY <3>6, <3>7, <4>3, <4>5, <4>6
        <4> QED BY <4>2, <4>7
      <3>8. CASE rest # << >>
        <4>1. MmspServerAs(p, s) /\ ~p.failed /\ p.replied >= p.asked
          BY <1>1, <3>4 DEF MmspServerAs
        <4>2. /\ p.down = t /\ p.requests = rest /\ p.served = served /\ p.mode = s.mode
              /\ p.status = s.status /\ p.pending = s.pending /\ p.made = s.made /\ p.good = s.good
              /\ p.reading = s.reading /\ p.dirty = s.dirty /\ p.link = s.link /\ p.up = s.up
              /\ p.call = s.call /\ p.request = "send_pending" /\ p.op = "none" /\ p.mode = "sync"
          BY <1>1, <3>4, <3>8
        <4>3. MmspGood(p)
          BY <3>3, <3>6, <3>8, <4>1, <4>2
        <4> QED BY <3>5, <3>8, <4>3
      <3> QED BY <3>7, <3>8
    <2> QED BY <2>4, <2>5
  <1> QED BY <1>5, <1>6, <1>7, <1>8

LEMMA MmspResume ==
  ASSUME MmspInUse, MmspGood(mmsp), Mmsp!Resume
  PROVE  MmspGood(mmsp')
  <1>1. /\ mmsp \in MmspSessions /\ ~mmsp.failed /\ MmspCalls(mmsp) /\ MmspFresh(mmsp)
        /\ MmspPast(mmsp) /\ MmspServes(mmsp) /\ MmspTurn(mmsp) /\ MmspStreams(mmsp)
        /\ MmspStage(mmsp)
    BY DEF MmspGood
  <1>2. /\ mmsp.mode = "sync" /\ mmsp.call # "none" /\ mmsp.call # "failed" /\ mmsp.link
        /\ mmsp.request = "recving_resp" => mmsp.down # << >>
    BY DEF Mmsp!Resume, Mmsp!None
  <1>3. PICK block \in BOOLEAN : /\ block => Mmsp!MayBlock(mmsp)
                                 /\ mmsp' = Mmsp!resume_request(mmsp, block)
    BY DEF Mmsp!Resume
  <1>4. /\ mmsp.requests # << >> /\ mmsp.op = "none" /\ mmsp.status \notin {"closed", "connectting"}
        /\ block => mmsp.request # "recving_resp" /\ mmsp.pending = << >>
    BY <1>1, <1>2, <1>3 DEF MmspCalls, MmspCalling, Mmsp!MayBlock, MmspInUse
  <1>5. CASE mmsp.request = "recving_resp"
    <2>1. block = FALSE
      BY <1>3, <1>4, <1>5
    <2>2. MmspSent(mmsp)
      BY <1>2, <1>5 DEF MmspSent, MmspCalling
    <2> QED BY <1>2, <1>3, <1>5, <2>1, <2>2, MmspHears
  <1>6. CASE mmsp.request # "recving_resp"
    <2>1. ~MmspSent(mmsp)
      BY <1>2, <1>6 DEF MmspSent
    <2>2. MmspUnsent(mmsp)
      BY <1>1, <1>2, <2>1 DEF MmspStage, MmspOnItsWay, MmspHeld, MmspAnswered
    <2>3. PICK f \in MmspAsked : f = mmsp.requests[1] /\ f = Head(mmsp.requests)
      BY <1>1, <1>4, RestIsTaken DEF MmspSessions
    <2>4. << >> \in Seq(MmspAsked) /\ <<f>> \in Seq(MmspAsked) /\ <<f>>[1] = f
      OBVIOUS
    <2>5. mmsp.pending # << >> => mmsp.pending[1] = f
      BY <1>1, <1>2, <2>3 DEF MmspTurn
    <2>6. mmsp.replied \in Nat /\ mmsp.asked \in Nat /\ mmsp.replied >= mmsp.asked
      BY <1>1 DEF MmspPast, MmspSessions
    <2>7. ASSUME NEW q \in MmspSessions, ~q.failed, q.mode = "sync", q.op = "none",
                 q.status = mmsp.status, q.requests = mmsp.requests, q.call = mmsp.call,
                 q.made = mmsp.made, q.served = mmsp.served, q.good = mmsp.good,
                 q.reading = mmsp.reading, q.dirty = mmsp.dirty, q.link = mmsp.link,
                 q.replied >= q.asked, q.down = mmsp.down, MmspServerAs(q, mmsp),
                 \/ q.request = "sending_req" /\ q.pending[1] = f /\ q.up = mmsp.up
                 \/ q.request = "recving_resp" /\ q.pending = << >> /\ q.up = Append(mmsp.up, f)
          PROVE  MmspGood(q)
      <3>1. MmspCalls(q) /\ MmspFresh(q)
        BY <1>1, <1>2, <1>4, <2>7 DEF MmspCalls, MmspFresh, MmspCalling
      <3>2. MmspPast(q)
        BY <1>1, <2>7 DEF MmspPast, MmspServerAs
      <3>3. MmspServes(q)
        BY <1>1, <2>7, MmspServesKept
      <3>4. MmspTurn(q)
        BY <1>1, <1>2, <1>4, <2>3, <2>7 DEF MmspTurn
      <3>5. MmspStreams(q)
        BY <1>1, <2>7 DEF MmspStreams, MmspServerAs
      <3>6. CASE q.request = "sending_req" /\ q.up = mmsp.up
        <4>1. MmspUnsent(q)
          BY <2>2, <2>7, <3>6 DEF MmspUnsent, MmspSent, MmspServerAs
        <4> QED BY <1>2, <2>7, <3>1, <3>2, <3>3, <3>4, <3>5, <4>1 DEF MmspGood, MmspStage
      <3>7. CASE q.request = "recving_resp" /\ q.up = Append(mmsp.up, f)
        <4>1. mmsp.up \in Seq({"pong"}) /\ f \in {f}
          BY <2>2 DEF MmspUnsent
        <4>2. OneOf(q.up, {"pong"}, {q.requests[1]})
          BY <2>3, <2>7, <3>7, <4>1, OneIsPut
        <4>3. MmspOnItsWay(q)
          BY <1>2, <2>2, <2>7, <3>7, <4>2 DEF MmspUnsent, MmspOnItsWay, MmspSent, MmspCalling, MmspServerAs
        <4> QED BY <1>2, <2>7, <3>1, <3>2, <3>3, <3>4, <3>5, <4>3 DEF MmspGood, MmspStage
      <3> QED BY <2>7, <3>6, <3>7
    <2>8. CASE block
      <3> DEFINE q == [mmsp EXCEPT !.pending = <<f>>, !.request = "sending_req"]
      <3>1. mmsp' = q
        BY <1>3, <1>4, <1>6, <2>3, <2>8 DEF Mmsp!resume_request
      <3>2. q \in MmspSessions
        BY <1>1, <2>4, StatesAre DEF MmspSessions
      <3>3. /\ q.mode = mmsp.mode /\ q.status = mmsp.status /\ q.request = "sending_req"
            /\ q.requests = mmsp.requests /\ q.proto = mmsp.proto /\ q.op = mmsp.op
            /\ q.pending = <<f>> /\ q.call = mmsp.call /\ q.made = mmsp.made
            /\ q.served = mmsp.served /\ q.good = mmsp.good /\ q.reading = mmsp.reading
            /\ q.dirty = mmsp.dirty /\ q.asked = mmsp.asked /\ q.replied = mmsp.replied
            /\ q.link = mmsp.link /\ q.up = mmsp.up /\ q.down = mmsp.down /\ q.busy = mmsp.busy
            /\ q.current = mmsp.current /\ q.got = mmsp.got /\ q.finished = mmsp.finished
            /\ q.strays = mmsp.strays /\ q.tries = mmsp.tries /\ q.failed = mmsp.failed
        BY <1>1 DEF MmspSessions
      <3> HIDE DEF q
      <3>4. MmspServerAs(q, mmsp) /\ ~q.failed /\ q.replied >= q.asked /\ q.pending[1] = f
        BY <1>1, <2>4, <2>6, <3>3 DEF MmspServerAs
      <3>5. MmspGood(q)
        BY <1>2, <1>4, <2>7, <3>2, <3>3, <3>4
      <3> QED BY <3>1, <3>5
    <2>9. CASE ~block
      <3>1. PICK r \in Nat, u \in Seq({"pong"} \cup MmspAsked) :
               /\ Mmsp!Write(mmsp, f) = [mmsp EXCEPT !.up = u, !.replied = r]
               /\ u = Append(mmsp.up, f) /\ r >= mmsp.replied
        BY <1>1, MmspWrites
      <3> DEFINE q == [mmsp EXCEPT !.up = u, !.replied = r, !.pending = << >>, !.request = "recving_resp"]
      <3>2. mmsp' = [Mmsp!Write(mmsp, f) EXCEPT !.pending = << >>, !.request = "recving_resp"]
        BY <1>3, <1>4, <1>6, <2>3, <2>5, <2>9 DEF Mmsp!resume_request
      <3>3. mmsp' = q
        BY <1>1, <3>1, <3>2 DEF MmspSessions
      <3>4. q \in MmspSessions
        BY <1>1, <2>4, StatesAre DEF MmspSessions
      <3>5. /\ q.mode = mmsp.mode /\ q.status = mmsp.status /\ q.request = "recving_resp"
            /\ q.requests = mmsp.requests /\ q.proto = mmsp.proto /\ q.op = mmsp.op
            /\ q.pending = << >> /\ q.call = mmsp.call /\ q.made = mmsp.made
            /\ q.served = mmsp.served /\ q.good = mmsp.good /\ q.reading = mmsp.reading
            /\ q.dirty = mmsp.dirty /\ q.asked = mmsp.asked /\ q.replied = r /\ q.link = mmsp.link
            /\ q.up = u /\ q.down = mmsp.down /\ q.busy = mmsp.busy /\ q.current = mmsp.current
            /\ q.got = mmsp.got /\ q.finished = mmsp.finished /\ q.strays = mmsp.strays
            /\ q.tries = mmsp.tries /\ q.failed = mmsp.failed
        BY <1>1 DEF MmspSessions
      <3> HIDE DEF q
      <3>6. MmspServerAs(q, mmsp) /\ ~q.failed /\ q.replied >= q.asked
        BY <1>1, <2>6, <3>1, <3>5 DEF MmspServerAs
      <3>7. MmspGood(q)
        BY <1>2, <1>4, <2>7, <3>1, <3>4, <3>5, <3>6
      <3> QED BY <3>3, <3>7
    <2> QED BY <2>8, <2>9
  <1> QED BY <1>5, <1>6

\* Between the calls tick reads a message, or replies to a ping, or waits.
LEMMA MmspTick ==
  ASSUME MmspInUse, MmspGood(mmsp), Mmsp!Tick
  PROVE  MmspGood(mmsp')
  <1>1. /\ mmsp \in MmspSessions /\ ~mmsp.failed /\ MmspCalls(mmsp) /\ MmspFresh(mmsp)
        /\ MmspPast(mmsp) /\ MmspServes(mmsp) /\ MmspTurn(mmsp) /\ MmspStreams(mmsp)
        /\ MmspStage(mmsp)
    BY DEF MmspGood
  <1>2. /\ mmsp.call = "none" /\ mmsp.op = "none" /\ mmsp.link
        /\ mmsp.mode = "sync" \/ Len(mmsp.made) > 2
        /\ mmsp' = Mmsp!tick(mmsp, FALSE)
    BY MmspPlanIs DEF Mmsp!Tick, Mmsp!None, MmspInUse
  <1>3. /\ mmsp.requests = << >> /\ mmsp.request = "finished" /\ mmsp.pending = << >>
        /\ ~mmsp.dirty /\ mmsp.good /\ mmsp.status \notin {"closed", "connectting"}
        /\ mmsp.made = Mmsp!ConnectRequests \/ mmsp.made = MmspPlan
        /\ mmsp.up \in Seq({"pong"}) /\ mmsp.down \in Seq(MmspChat)
        /\ Len(mmsp.got) = Len(mmsp.served) /\ mmsp.busy # "local"
    BY <1>1, <1>2, MmspIdle
  <1>4. mmsp.mode = "async" => Len(mmsp.made) = 5
    <2>1. Len(mmsp.made) > 2 => mmsp.made # Mmsp!ConnectRequests
      <3>1. Len(Mmsp!ConnectRequests) = 2
        BY MmspPlanIs
      <3>2. ~(2 > 2)
        OBVIOUS
      <3> QED BY <3>1, <3>2
    <2>2. mmsp.mode = "async" => mmsp.mode # "sync"
      OBVIOUS
    <2> QED BY <1>2, <1>3, <2>1, <2>2, MmspPlanIs
  <1>5. /\ mmsp.replied \in Nat /\ mmsp.asked \in Nat /\ mmsp.replied >= mmsp.asked
        /\ mmsp.proto \in BOOLEAN /\ mmsp.reading \in BOOLEAN
        /\ mmsp.mode = "async" \/ mmsp.mode = "sync"
    BY <1>1 DEF MmspSessions, MmspPast, Modes
  <1>6. ASSUME NEW q \in MmspSessions, ~q.failed, q.mode = mmsp.mode, q.status = mmsp.status,
               q.request = mmsp.request, q.requests = mmsp.requests, q.op = mmsp.op,
               q.pending = << >>, q.call = mmsp.call, q.made = mmsp.made, q.served = mmsp.served,
               q.good = mmsp.good, q.dirty = mmsp.dirty, q.link = mmsp.link,
               q.replied >= q.asked, MmspServerAs(q, mmsp),
               q.up = mmsp.up \/ q.up = Append(mmsp.up, "pong"),
               q.down = mmsp.down \/ (mmsp.down # << >> /\ q.down = Tail(mmsp.down))
        PROVE  MmspGood(q)
    <2>1. MmspCalls(q) /\ MmspTurn(q)
      BY <1>1, <1>2, <1>3, <1>6 DEF MmspCalls, MmspTurn, MmspCalling
    <2>2. MmspFresh(q)
      BY <1>2, <1>3, <1>4, <1>6 DEF MmspFresh
    <2>3. MmspPast(q)
      BY <1>1, <1>6 DEF MmspPast, MmspServerAs
    <2>4. MmspServes(q)
      BY <1>1, <1>6, MmspServesKept
    <2>5. MmspStreams(q)
      <3> SUFFICES ASSUME Len(mmsp.got) # 5
                   PROVE  q.down \in Seq({<<"ping", "none">>} \cup MmspAnswers)
        BY <1>6 DEF MmspStreams, MmspServerAs
      <3>1. mmsp.down \in Seq({<<"ping", "none">>} \cup MmspAnswers)
        BY <1>1, <1>2 DEF MmspStreams
      <3> QED BY <1>6, <3>1, RestIsTaken
    <2>6. q.down \in Seq(MmspChat)
      BY <1>3, <1>6, RestIsTaken
    <2>7. q.up \in Seq({"pong"})
      <3>1. "pong" \in {"pong"}
        OBVIOUS
      <3> QED BY <1>3, <1>6, <3>1, RestIsPut
    <2>8. ~MmspSent(q)
      BY <1>2, <1>3, <1>6 DEF MmspSent
    <2>9. MmspUnsent(q)
      BY <1>3, <1>6, <2>6, <2>7, <2>8 DEF MmspUnsent, MmspServerAs
    <2> QED BY <1>2, <1>6, <2>1, <2>2, <2>3, <2>4, <2>5, <2>9 DEF MmspGood, MmspStage
  <1>7. << >> \in Seq(MmspAsked)
    BY EmptySeq
  <1>8. CASE mmsp.proto
    <2>1. PICK r \in Nat, u \in Seq({"pong"} \cup MmspAsked) :
             /\ Mmsp!Write(mmsp, "pong") = [mmsp EXCEPT !.up = u, !.replied = r]
             /\ u = Append(mmsp.up, "pong") /\ r >= mmsp.replied
      BY <1>1, MmspWrites
    <2> DEFINE q == [mmsp EXCEPT !.up = u, !.replied = r, !.proto = FALSE, !.pending = << >>]
    <2>2. [mmsp EXCEPT !.reading = @] = mmsp
      BY <1>1 DEF MmspSessions
    <2>3. mmsp' = [Mmsp!Write([mmsp EXCEPT !.reading = @], "pong") EXCEPT !.proto = FALSE, !.pending = << >>]
      BY <1>2, <1>3, <1>8 DEF Mmsp!tick
    <2>4. mmsp' = q
      BY <1>1, <2>1, <2>2, <2>3 DEF MmspSessions
    <2>5. q \in MmspSessions
      BY <1>1, <1>7, StatesAre DEF MmspSessions
    <2>6. /\ q.mode = mmsp.mode /\ q.status = mmsp.status /\ q.request = mmsp.request
          /\ q.requests = mmsp.requests /\ q.proto = FALSE /\ q.op = mmsp.op /\ q.pending = << >>
          /\ q.call = mmsp.call /\ q.made = mmsp.made /\ q.served = mmsp.served
          /\ q.good = mmsp.good /\ q.reading = mmsp.reading /\ q.dirty = mmsp.dirty
          /\ q.asked = mmsp.asked /\ q.replied = r /\ q.link = mmsp.link /\ q.up = u
          /\ q.down = mmsp.down /\ q.busy = mmsp.busy /\ q.current = mmsp.current
          /\ q.got = mmsp.got /\ q.finished = mmsp.finished /\ q.strays = mmsp.strays
          /\ q.tries = mmsp.tries /\ q.failed = mmsp.failed
      BY <1>1 DEF MmspSessions
    <2> HIDE DEF q
    <2>7. MmspServerAs(q, mmsp) /\ q.replied >= q.asked
      BY <1>5, <2>1, <2>6 DEF MmspServerAs
    <2>8. MmspGood(q)
      BY <1>1, <1>6, <2>1, <2>5, <2>6, <2>7
    <2> QED BY <2>4, <2>8
  <1>9. CASE ~mmsp.proto /\ mmsp.down = << >>
    <2> DEFINE q == [mmsp EXCEPT !.reading = TRUE]
    <2>1. mmsp' = q
      BY <1>1, <1>2, <1>3, <1>9 DEF Mmsp!tick
    <2>2. q \in MmspSessions
      BY <1>1, StatesAre DEF MmspSessions
    <2>3. /\ q.mode = mmsp.mode /\ q.status = mmsp.status /\ q.request = mmsp.request
          /\ q.requests = mmsp.requests /\ q.proto = mmsp.proto /\ q.op = mmsp.op
          /\ q.pending = mmsp.pending /\ q.call = mmsp.call /\ q.made = mmsp.made
          /\ q.served = mmsp.served /\ q.good = mmsp.good /\ q.reading = TRUE
          /\ q.dirty = mmsp.dirty /\ q.asked = mmsp.asked /\ q.replied = mmsp.replied
          /\ q.link = mmsp.link /\ q.up = mmsp.up /\ q.down = mmsp.down /\ q.busy = mmsp.busy
          /\ q.current = mmsp.current /\ q.got = mmsp.got /\ q.finished = mmsp.finished
          /\ q.strays = mmsp.strays /\ q.tries = mmsp.tries /\ q.failed = mmsp.failed
      BY <1>1 DEF MmspSessions
    <2> HIDE DEF q
    <2>4. MmspServerAs(q, mmsp)
      BY <2>3 DEF MmspServerAs
    <2>5. MmspGood(q)
      BY <1>1, <1>3, <1>5, <1>6, <2>2, <2>3, <2>4
    <2> QED BY <2>1, <2>5
  <1>10. CASE ~mmsp.proto /\ mmsp.down # << >>
    <2>1. PICK m, t : m = Head(mmsp.down) /\ t = Tail(mmsp.down)
      OBVIOUS
    <2>2. t \in Seq(MmspChat \cup MmspAnswers)
      BY <1>1, <1>10, <2>1, RestIsTaken DEF MmspSessions
    <2>3. mmsp' = LET x == [Mmsp!Read(mmsp) EXCEPT !.reading = FALSE]
                  IN  IF m[1] # "ping" THEN x
                      ELSE [Mmsp!Write(x, "pong") EXCEPT !.proto = FALSE, !.pending = << >>]
      BY <1>2, <1>3, <1>10, <2>1 DEF Mmsp!tick, Mmsp!process_protocol_message
    <2>4. CASE m[1] # "ping"
      <3> DEFINE q == [mmsp EXCEPT !.down = t, !.reading = FALSE]
      <3>1. mmsp' = q
        BY <1>1, <2>1, <2>2, <2>3, <2>4, MmspDrops DEF MmspSessions
      <3>2. q \in MmspSessions
        BY <1>1, <2>2, StatesAre DEF MmspSessions
      <3>3. /\ q.mode = mmsp.mode /\ q.status = mmsp.status /\ q.request = mmsp.request
            /\ q.requests = mmsp.requests /\ q.proto = mmsp.proto /\ q.op = mmsp.op
            /\ q.pending = mmsp.pending /\ q.call = mmsp.call /\ q.made = mmsp.made
            /\ q.served = mmsp.served /\ q.good = mmsp.good /\ q.reading = FALSE
            /\ q.dirty = mmsp.dirty /\ q.asked = mmsp.asked /\ q.replied = mmsp.replied
            /\ q.link = mmsp.link /\ q.up = mmsp.up /\ q.down = t /\ q.busy = mmsp.busy
            /\ q.current = mmsp.current /\ q.got = mmsp.got /\ q.finished = mmsp.finished
            /\ q.strays = mmsp.strays /\ q.tries = mmsp.tries /\ q.failed = mmsp.failed
        BY <1>1 DEF MmspSessions
      <3> HIDE DEF q
      <3>4. MmspServerAs(q, mmsp)
        BY <3>3 DEF MmspServerAs
      <3>5. MmspGood(q)
        BY <1>1, <1>3, <1>5, <1>6, <1>10, <2>1, <3>2, <3>3, <3>4
      <3> QED BY <3>1, <3>5
    <2>5. CASE m[1] = "ping"
      <3>1. PICK a \in Nat : /\ Mmsp!Read(mmsp) = [mmsp EXCEPT !.down = t, !.asked = a]
                             /\ a = mmsp.asked + 1
        BY <1>1, <2>1, <2>5, MmspReads
      <3> DEFINE x == [mmsp EXCEPT !.down = t, !.asked = a, !.reading = FALSE]
      <3>2. [Mmsp!Read(mmsp) EXCEPT !.reading = FALSE] = x
        BY <1>1, <3>1 DEF MmspSessions
      <3>3. x \in MmspSessions
        BY <1>1, <2>2, StatesAre DEF MmspSessions
      <3>4. /\ x.mode = mmsp.mode /\ x.status = mmsp.status /\ x.request = mmsp.request
            /\ x.requests = mmsp.requests /\ x.proto = mmsp.proto /\ x.op = mmsp.op
            /\ x.pending = mmsp.pending /\ x.call = mmsp.call /\ x.made = mmsp.made
            /\ x.served = mmsp.served /\ x.good = mmsp.good /\ x.reading = FALSE
            /\ x.dirty = mmsp.dirty /\ x.asked = a /\ x.replied = mmsp.replied
            /\ x.link = mmsp.link /\ x.up = mmsp.up /\ x.down = t /\ x.busy = mmsp.busy
            /\ x.current = mmsp.current /\ x.got = mmsp.got /\ x.finished = mmsp.finished
            /\ x.strays = mmsp.strays /\ x.tries = mmsp.tries /\ x.failed = mmsp.failed
        BY <1>1 DEF MmspSessions
      <3> HIDE DEF x
      <3>5. PICK r \in Nat, u \in Seq({"pong"} \cup MmspAsked) :
               /\ Mmsp!Write(x, "pong") = [x EXCEPT !.up = u, !.replied = r]
               /\ u = Append(x.up, "pong") /\ r = x.replied + 1
        BY <3>3, MmspWrites
      <3> DEFINE q == [x EXCEPT !.up = u, !.replied = r, !.proto = FALSE, !.pending = << >>]
      <3>6. mmsp' = q
        BY <2>3, <2>5, <3>2, <3>3, <3>5 DEF MmspSessions
      <3>7. q \in MmspSessions
        BY <1>7, <3>3, StatesAre DEF MmspSessions
      <3>8. /\ q.mode = x.mode /\ q.status = x.status /\ q.request = x.request
            /\ q.requests = x.requests /\ q.proto = FALSE /\ q.op = x.op /\ q.pending = << >>
            /\ q.call = x.call /\ q.made = x.made /\ q.served = x.served /\ q.good = x.good
            /\ q.reading = x.reading /\ q.dirty = x.dirty /\ q.asked = x.asked /\ q.replied = r
            /\ q.link = x.link /\ q.up = u /\ q.down = x.down /\ q.busy = x.busy
            /\ q.current = x.current /\ q.got = x.got /\ q.finished = x.finished
            /\ q.strays = x.strays /\ q.tries = x.tries /\ q.failed = x.failed
        BY <3>3 DEF MmspSessions
      <3> HIDE DEF q
      <3>9. MmspServerAs(q, mmsp) /\ q.replied >= q.asked
        BY <1>5, <3>1, <3>4, <3>5, <3>8 DEF MmspServerAs
      <3>10. /\ ~q.failed /\ q.mode = mmsp.mode /\ q.status = mmsp.status
             /\ q.request = mmsp.request /\ q.requests = mmsp.requests /\ q.op = mmsp.op
             /\ q.pending = << >> /\ q.call = mmsp.call /\ q.made = mmsp.made
             /\ q.served = mmsp.served /\ q.good = mmsp.good /\ q.dirty = mmsp.dirty
             /\ q.link = mmsp.link /\ q.up = Append(mmsp.up, "pong")
             /\ mmsp.down # << >> /\ q.down = Tail(mmsp.down)
        BY <1>1, <1>10, <2>1, <3>4, <3>5, <3>8
      <3>11. MmspGood(q)
        BY <1>6, <3>7, <3>9, <3>10
      <3> QED BY <3>6, <3>11
    <2> QED BY <2>4, <2>5
  <1> QED BY <1>5, <1>8, <1>9, <1>10

LEMMA MmspStep ==
  ASSUME MmspInUse, MmspGood(mmsp), Mmsp!MmspNext
  PROVE  MmspGood(mmsp')
  BY MmspConnect, MmspConnected, MmspPlay, MmspComplete, MmspResume, MmspFail, MmspTick,
     MmspClose, MmspReceiveRequest, MmspLocalProcess, MmspSendResponse, MmspServerError,
     MmspStray, MmspLose
     DEF Mmsp!MmspNext, Mmsp!Client, Mmsp!Server

\* A good session serves its requests in turn.
LEMMA MmspInTurn ==
  ASSUME MmspGood(mmsp)
  PROVE  Mmsp!RequestsInTurn
  <1>1. /\ mmsp \in MmspSessions /\ ~mmsp.failed /\ MmspPast(mmsp) /\ MmspServes(mmsp)
    BY DEF MmspGood
  <1>2. /\ mmsp.got \in Seq(MmspAsked) /\ mmsp.made \in Seq(MmspAsked)
        /\ mmsp.served \in Seq(MmspAsked \X MmspAsked)
    BY <1>1 DEF MmspSessions
  <1>3. /\ DOMAIN mmsp.got = 1..Len(mmsp.got) /\ DOMAIN mmsp.made = 1..Len(mmsp.made)
        /\ DOMAIN mmsp.served = 1..Len(mmsp.served)
        /\ Len(mmsp.got) \in Nat /\ Len(mmsp.made) \in Nat
    BY <1>2, LenProperties
  <1>4. Mmsp!IsPrefix(mmsp.got, mmsp.made)
    BY <1>1, <1>3 DEF Mmsp!IsPrefix, MmspPast
  <1>5. ASSUME Mmsp!Free(mmsp), mmsp.link
        PROVE  mmsp.good /\ Len(mmsp.served) = Len(mmsp.made)
    BY <1>5, MmspIdle DEF Mmsp!Free, Mmsp!None
  <1>6. \A i \in DOMAIN mmsp.served : mmsp.served[i][1] = mmsp.served[i][2]
    BY <1>1, <1>3 DEF MmspPast
  <1>7. Len(mmsp.got) <= Len(mmsp.served) + 1 /\ mmsp.replied >= mmsp.asked
    BY <1>1 DEF MmspPast
  <1>8. \/ mmsp.finished + (IF mmsp.current = "none" THEN 0 ELSE 1) = Len(mmsp.got)
        \/ ~mmsp.link
    BY <1>1 DEF MmspServes
  <1> QED BY <1>1, <1>4, <1>5, <1>6, <1>7, <1>8 DEF Mmsp!RequestsInTurn, Mmsp!None
=============================================================================
