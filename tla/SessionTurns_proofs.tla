-------------------------- MODULE SessionTurns_proofs --------------------------
(***************************************************************************)
(* The asynchronous client of rtmp, proved to serve its requests in turn for     *)
(* every number of messages, connections and replies, and with it those of mmsp. *)
(***************************************************************************)
EXTENDS MmspTurns_proofs

-----------------------------------------------------------------------------
(* RtmpClient and RtmpServer: an inductive invariant of a session s, in named *)
(* parts.                                                                    *)

\* The client is asynchronous, does not connect again once it was connected, nor calls
\* tick before its calls are over.
RtmpInUse ==
    /\ RtmpModes \subseteq {"async"} /\ RtmpStrays \subseteq {"asking", "other"}
    /\ "tick" \notin Blocks /\ Again = FALSE /\ TickWhen = {}

RtmpAsked == {"connect", "createStream", "play", "publish"}
RtmpFirst == <<"connect">>
RtmpPlays == <<"createStream", "play">>
RtmpPublishes == <<"createStream", "publish">>
RtmpPlans == {<<"connect", "createStream", "play">>, <<"connect", "createStream", "publish">>}
RtmpAsides == {"reply", "ack"}
RtmpChat == {"quiet", "asking", "other"} \X {"none"}
RtmpHolds == RtmpAsked \cup {"none"}

\* What answers a request.
RtmpWell(f) == IF f = "play" THEN "playing" ELSE IF f = "publish" THEN "publishing" ELSE "answer"
RtmpAnswersTo(f) == {"error", RtmpWell(f)} \X {f}
RtmpAnswers == {"error", "answer", "playing", "publishing"} \X RtmpAsked

RtmpSessions ==
    [mode : {"async"}, status : Statuses, request : Progress,
     requests : Seq(RtmpAsked), proto : Seq({"reply"}), op : Operations,
     pending : Seq(RtmpAsked), call : UserCalls,
     made : Seq(RtmpAsked), served : Seq(RtmpAsked \X RtmpAsked), good : BOOLEAN,
     reading : BOOLEAN, seen : Nat, acked : Nat, asked : Nat, replied : Nat,
     link : BOOLEAN, shaken : BOOLEAN,
     up : Seq(RtmpAsides \cup RtmpAsked), down : Seq(RtmpChat \cup RtmpAnswers),
     busy : Busies, current : RtmpHolds, window : BOOLEAN,
     got : Seq(RtmpAsked), finished : Nat, strays : Nat, tries : Nat, failed : BOOLEAN]

RtmpCalling(s) == s.call # "none" /\ s.call # "failed"
RtmpSent(s) == s.op \in {"write", "read"}

\* What is called, and what for it is under way.
RtmpCallsAs(s) ==
    /\ s.pending = << >> /\ (RtmpCalling(s) <=> s.op # "none")
    /\ s.op = "connect" => s.status = "connectting" /\ s.call = "connect"
    /\ s.op \in {"write", "read"} => s.shaken /\ s.requests # << >>
    /\ s.status = "connectting" => ~s.shaken
    /\ s.link => s.shaken /\ s.status # "closed"
    /\ RtmpCalling(s) /\ ~s.shaken => s.requests = RtmpFirst /\ s.status = "connectting"

\* A client that was not connected yet has nothing to go on with, one that calls nothing
\* nothing to reply.
RtmpFresh(s) ==
    /\ ~s.shaken => /\ s.proto = << >> /\ s.pending = << >> /\ ~s.reading /\ s.good
                    /\ s.got = << >> /\ s.served = << >>
    /\ s.call = "none" => s.proto = << >>
    /\ s.reading => s.op = "none" /\ Len(s.made) = 3

\* The server has the first of the requests, one more than are answered at most; what
\* was asked is answered once.
RtmpPast(s) ==
    /\ Len(s.got) <= Len(s.made) /\ \A i \in 1..Len(s.got) : s.got[i] = s.made[i]
    /\ Len(s.got) <= Len(s.served) + 1
    /\ \A i \in 1..Len(s.served) : s.served[i][1] = s.served[i][2]
    /\ s.replied = s.asked

\* The server holds the last request it has got until it has answered it.
RtmpServes(s) ==
    s.link => /\ s.busy \in {"read", "local", "write"} /\ (s.busy = "read" <=> s.current = "none")
              /\ s.finished + (IF s.current = "none" THEN 0 ELSE 1) = Len(s.got)

\* The requests that are left are those made that are not answered yet.
RtmpTurn(s) ==
    s.shaken /\ s.call # "failed" =>
        /\ s.good
        /\ s.made = RtmpFirst \/ (s.made \in RtmpPlans /\ Len(s.served) >= 1)
        /\ Len(s.made) = Len(s.served) + Len(s.requests)
        /\ \A i \in 1..Len(s.requests) : s.requests[i] = s.made[Len(s.served) + i]
        /\ (s.requests = << >>) <=> (s.call = "none")
        /\ (s.call = "none") <=> (s.request = "finished")

\* Where the first of them is: with the client, on its way, with the server, or answered.
RtmpUnsent(s) ==
    /\ ~RtmpSent(s) /\ s.up \in Seq(RtmpAsides) /\ s.down \in Seq(RtmpChat)
    /\ Len(s.got) = Len(s.served) /\ s.busy # "local"
RtmpOnItsWay(s) ==
    /\ RtmpSent(s) /\ OneOf(s.up, RtmpAsides, {s.requests[1]}) /\ s.down \in Seq(RtmpChat)
    /\ Len(s.got) = Len(s.served) /\ s.busy # "local"
RtmpHeld(s) ==
    /\ RtmpSent(s) /\ s.up \in Seq(RtmpAsides) /\ s.down \in Seq(RtmpChat)
    /\ Len(s.got) = Len(s.served) + 1 /\ s.busy = "local" /\ s.current = s.requests[1]
RtmpAnswered(s) ==
    /\ RtmpSent(s) /\ s.up \in Seq(RtmpAsides)
    /\ OneOf(s.down, RtmpChat, RtmpAnswersTo(s.requests[1]))
    /\ Len(s.got) = Len(s.served) + 1 /\ s.busy # "local"

RtmpStage(s) ==
    /\ s.link /\ s.call # "failed" =>
          RtmpUnsent(s) \/ RtmpOnItsWay(s) \/ RtmpHeld(s) \/ RtmpAnswered(s)
    /\ s.link /\ s.call = "failed" => s.up \in Seq(RtmpAsides) /\ s.busy # "local"

RtmpGood(s) ==
    /\ s \in RtmpSessions /\ ~s.failed
    /\ RtmpCallsAs(s) /\ RtmpFresh(s) /\ RtmpPast(s) /\ RtmpServes(s)
    /\ RtmpTurn(s) /\ RtmpStage(s)

\* Two states of a session with the same client, the same server.
RtmpClientAs(q, s) ==
    /\ q.mode = s.mode /\ q.status = s.status /\ q.request = s.request
    /\ q.requests = s.requests /\ q.proto = s.proto /\ q.op = s.op /\ q.pending = s.pending
    /\ q.call = s.call /\ q.made = s.made /\ q.served = s.served /\ q.good = s.good
    /\ q.reading = s.reading /\ q.asked = s.asked /\ q.replied = s.replied /\ q.shaken = s.shaken
RtmpServerAs(q, s) ==
    /\ q.busy = s.busy /\ q.current = s.current /\ q.got = s.got /\ q.finished = s.finished
    /\ q.window = s.window

LEMMA RtmpPlanIs ==
  /\ RtmpFirst \in Seq(RtmpAsked) /\ RtmpPlays \in Seq(RtmpAsked)
  /\ RtmpPublishes \in Seq(RtmpAsked)
  /\ Len(RtmpFirst) = 1 /\ Len(RtmpPlays) = 2 /\ Len(RtmpPublishes) = 2
  /\ RtmpFirst[1] = "connect" /\ RtmpPlays[1] = "createStream" /\ RtmpPlays[2] = "play"
  /\ RtmpPublishes[1] = "createStream" /\ RtmpPublishes[2] = "publish"
  /\ \A p \in RtmpPlans : p \in Seq(RtmpAsked) /\ Len(p) = 3 /\ p[1] = RtmpFirst[1]
  BY DEF RtmpFirst, RtmpPlays, RtmpPublishes, RtmpPlans, RtmpAsked

\* A plan is the first requests and those of play or publish.
LEMMA RtmpPlanJoins ==
  ASSUME NEW b \in {RtmpPlays, RtmpPublishes}
  PROVE  \E p \in RtmpPlans : RtmpFirst \o b = p /\ \A i \in 1..2 : b[i] = p[1 + i]
  <1>1. PICK a \in Seq(RtmpAsked) : a = RtmpFirst /\ Len(a) = 1 /\ a[1] = "connect"
    BY RtmpPlanIs
  <1>2. /\ b \in Seq(RtmpAsked) /\ Len(b) = 2 /\ b[1] = "createStream"
        /\ b[2] = "play" \/ b[2] = "publish"
    BY RtmpPlanIs
  <1> DEFINE c == a \o b
  <1>3. /\ c \in Seq(RtmpAsked) /\ Len(c) = Len(a) + Len(b)
        /\ \A i \in 1..Len(a) + Len(b) : c[i] = IF i <= Len(a) THEN a[i] ELSE b[i - Len(a)]
    BY <1>2, ConcatProperties
  <1> HIDE DEF c
  <1>4. Len(c) = 3 /\ c[1] = "connect" /\ c[2] = "createStream" /\ c[3] = b[2]
    BY <1>1, <1>2, <1>3
  <1>5. PICK p \in RtmpPlans : p[1] = "connect" /\ p[2] = "createStream" /\ p[3] = b[2] /\ Len(p) = 3
    <2>1. CASE b[2] = "play"
      <3>1. <<"connect", "createStream", "play">> \in RtmpPlans
        BY DEF RtmpPlans
      <3> QED BY <2>1, <3>1
    <2>2. CASE b[2] = "publish"
      <3>1. <<"connect", "createStream", "publish">> \in RtmpPlans
        BY DEF RtmpPlans
      <3> QED BY <2>2, <3>1
    <2> QED BY <1>2, <2>1, <2>2
  <1>6. p \in Seq(RtmpAsked)
    BY RtmpPlanIs
  <1>7. \A i \in 1..Len(c) : c[i] = p[i]
    <2>1. \A i \in 1..3 : i = 1 \/ i = 2 \/ i = 3
      OBVIOUS
    <2> QED BY <1>4, <1>5, <2>1
  <1>8. c = p
    BY <1>3, <1>4, <1>5, <1>6, <1>7, SeqEqual
  <1>9. \A i \in 1..2 : b[i] = p[1 + i]
    <2>1. \A i \in 1..2 : i = 1 \/ i = 2
      OBVIOUS
    <2>2. p[1 + 1] = b[1] /\ p[1 + 2] = b[2]
      BY <1>2, <1>5
    <2> QED BY <2>1, <2>2
  <1> QED BY <1>1, <1>8, <1>9 DEF c

LEMMA RtmpAnswersAre ==
  ASSUME NEW f \in RtmpAsked
  PROVE  /\ RtmpAnswersTo(f) \subseteq RtmpAnswers /\ RtmpWell(f) # "error"
         /\ <<"error", f>> \in RtmpAnswersTo(f) /\ <<RtmpWell(f), f>> \in RtmpAnswersTo(f)
  BY DEF RtmpAnswersTo, RtmpAnswers, RtmpWell, RtmpAsked

LEMMA RtmpStart ==
  ASSUME RtmpInUse, Rtmp!RtmpInit
  PROVE  RtmpGood(rtmp)
  <1>1. PICK mode \in {"async"} :
          rtmp = [mode |-> mode, status |-> "closed", request |-> "finished", requests |-> << >>,
                   proto |-> << >>, op |-> "none", pending |-> << >>, call |-> "none", made |-> << >>,
                   served |-> << >>, good |-> TRUE, reading |-> FALSE, seen |-> 0, acked |-> 0,
                   asked |-> 0, replied |-> 0,
                   link |-> FALSE, shaken |-> FALSE, up |-> << >>, down |-> << >>, busy |-> "none",
                   current |-> "none", window |-> FALSE, got |-> << >>, finished |-> 0,
                   strays |-> 0, tries |-> 0, failed |-> FALSE]
    BY DEF RtmpInUse, Rtmp!RtmpInit, Rtmp!None
  <1>2. /\ << >> \in Seq(RtmpAsked) /\ << >> \in Seq(RtmpAsked \X RtmpAsked)
        /\ << >> \in Seq(RtmpAsides \cup RtmpAsked) /\ << >> \in Seq(RtmpChat \cup RtmpAnswers)
        /\ << >> \in Seq({"reply"})
    BY EmptySeq
  <1>3. "none" \in RtmpHolds
    BY DEF RtmpHolds
  <1>4. rtmp \in RtmpSessions
    BY <1>1, <1>2, <1>3, StatesAre DEF RtmpSessions
  <1>5. /\ rtmp.mode = mode /\ rtmp.status = "closed" /\ rtmp.requests = << >> /\ rtmp.op = "none"
        /\ rtmp.pending = << >> /\ rtmp.call = "none" /\ rtmp.made = << >> /\ rtmp.served = << >>
        /\ rtmp.good = TRUE /\ rtmp.reading = FALSE /\ rtmp.asked = 0 /\ rtmp.proto = << >>
        /\ rtmp.replied = 0 /\ rtmp.link = FALSE /\ rtmp.got = << >> /\ rtmp.failed = FALSE
        /\ rtmp.shaken = FALSE /\ rtmp.down = << >>
    BY <1>1
  <1>6. Len(rtmp.got) = 0 /\ Len(rtmp.served) = 0 /\ Len(rtmp.made) = 0
    BY <1>5
  <1>7. RtmpPast(rtmp)
    BY <1>5, <1>6 DEF RtmpPast
  <1>8. RtmpCallsAs(rtmp) /\ RtmpFresh(rtmp)
    BY <1>1, <1>2, <1>5 DEF RtmpCallsAs, RtmpFresh, RtmpCalling
  <1> QED BY <1>4, <1>5, <1>7, <1>8 DEF RtmpGood, RtmpServes, RtmpTurn, RtmpStage

\* What a session without its connection is to keep.
LEMMA RtmpUnlinked ==
  ASSUME NEW q \in RtmpSessions, ~q.link, ~q.failed, RtmpCallsAs(q), RtmpFresh(q), RtmpPast(q),
         RtmpTurn(q)
  PROVE  RtmpGood(q)
  BY DEF RtmpGood, RtmpServes, RtmpStage

\* What a step of the server or of the network leaves alone.
LEMMA RtmpKept ==
  ASSUME NEW s, NEW q \in RtmpSessions, RtmpGood(s), RtmpClientAs(q, s), q.link => s.link,
         s.shaken \/ q.got = s.got
  PROVE  /\ RtmpCallsAs(q) /\ RtmpFresh(q) /\ RtmpTurn(q)
         /\ RtmpSent(q) <=> RtmpSent(s)
  <1>1. RtmpCallsAs(s) /\ RtmpFresh(s) /\ RtmpTurn(s)
    BY DEF RtmpGood
  <1>2. RtmpCallsAs(q)
    BY <1>1 DEF RtmpCallsAs, RtmpCalling, RtmpClientAs
  <1>3. RtmpFresh(q)
    BY <1>1 DEF RtmpFresh, RtmpClientAs
  <1>4. RtmpTurn(q)
    BY <1>1, ZenonT(40) DEF RtmpTurn, RtmpClientAs
  <1> QED BY <1>2, <1>3, <1>4 DEF RtmpSent, RtmpCalling, RtmpClientAs

LEMMA RtmpPastKept ==
  ASSUME NEW s, NEW q, RtmpPast(s), RtmpClientAs(q, s), q.got = s.got
  PROVE  RtmpPast(q)
  BY DEF RtmpPast, RtmpClientAs

LEMMA RtmpServesKept ==
  ASSUME NEW s, NEW q, RtmpServes(s), RtmpServerAs(q, s), q.link => s.link
  PROVE  RtmpServes(q)
  BY DEF RtmpServes, RtmpServerAs

\* The request whose turn it is.
LEMMA RtmpFront ==
  ASSUME NEW s, RtmpGood(s), s.shaken, s.call # "failed", s.call # "none"
  PROVE  /\ s.requests # << >> /\ Len(s.requests) \in Nat \ {0}
         /\ s.requests[1] \in RtmpAsked /\ s.requests[1] \notin RtmpAsides
         /\ Head(s.requests) = s.requests[1]
         /\ s.requests[1] = s.made[Len(s.served) + 1] /\ Len(s.served) \in Nat
         /\ Len(s.made) = Len(s.served) + Len(s.requests) /\ Len(s.made) \in Nat
  <1>1. /\ s.requests \in Seq(RtmpAsked) /\ s.served \in Seq(RtmpAsked \X RtmpAsked)
        /\ s.made \in Seq(RtmpAsked) /\ RtmpTurn(s)
    BY DEF RtmpSessions, RtmpGood
  <1>3. /\ s.requests # << >> /\ Len(s.made) = Len(s.served) + Len(s.requests)
    BY <1>1 DEF RtmpTurn
  <1>4. Len(s.requests) \in Nat \ {0} /\ Len(s.served) \in Nat /\ Len(s.made) \in Nat
    BY <1>1, <1>3, EmptySeq, LenProperties
  <1>5. s.requests[1] \in RtmpAsked /\ Head(s.requests) = s.requests[1]
    BY <1>1, <1>3, RestIsTaken
  <1>6. s.requests[1] = s.made[Len(s.served) + 1]
    <2>1. \A i \in 1..Len(s.requests) : s.requests[i] = s.made[Len(s.served) + i]
      BY <1>1 DEF RtmpTurn
    <2>2. 1 \in 1..Len(s.requests)
      BY <1>4
    <2> QED BY <2>1, <2>2
  <1>7. s.requests[1] \notin RtmpAsides
    BY <1>5 DEF RtmpAsked, RtmpAsides
  <1> QED BY <1>3, <1>4, <1>5, <1>6, <1>7

\* A request that was sent is one of a call.
LEMMA RtmpSentCalls ==
  ASSUME NEW s, RtmpGood(s), RtmpSent(s)
  PROVE  s.call # "none" /\ s.call # "failed"
  <1>1. RtmpCallsAs(s) /\ s \in RtmpSessions
    BY DEF RtmpGood
  <1> QED BY <1>1 DEF RtmpSent, RtmpCallsAs, RtmpCalling

LEMMA RtmpLose ==
  ASSUME RtmpGood(rtmp), Rtmp!Lose
  PROVE  RtmpGood(rtmp')
  <1> DEFINE q == [rtmp EXCEPT !.link = FALSE]
  <1>1. rtmp \in RtmpSessions /\ ~rtmp.failed /\ RtmpPast(rtmp)
    BY DEF RtmpGood
  <1>2. rtmp' = q /\ rtmp.link
    BY DEF Rtmp!Lose
  <1>3. q \in RtmpSessions
    BY <1>1, StatesAre DEF RtmpSessions
  <1>4. /\ q.mode = rtmp.mode /\ q.status = rtmp.status /\ q.request = rtmp.request
        /\ q.requests = rtmp.requests /\ q.proto = rtmp.proto /\ q.op = rtmp.op
        /\ q.pending = rtmp.pending /\ q.call = rtmp.call /\ q.made = rtmp.made
        /\ q.served = rtmp.served /\ q.good = rtmp.good /\ q.reading = rtmp.reading
        /\ q.seen = rtmp.seen /\ q.acked = rtmp.acked /\ q.asked = rtmp.asked
        /\ q.replied = rtmp.replied /\ q.link = FALSE /\ q.shaken = rtmp.shaken /\ q.up = rtmp.up
        /\ q.down = rtmp.down /\ q.busy = rtmp.busy /\ q.current = rtmp.current
        /\ q.window = rtmp.window /\ q.got = rtmp.got /\ q.finished = rtmp.finished
        /\ q.strays = rtmp.strays /\ q.tries = rtmp.tries /\ q.failed = rtmp.failed
    BY <1>1 DEF RtmpSessions
  <1> HIDE DEF q
  <1>5. RtmpClientAs(q, rtmp)
    BY <1>1, <1>4 DEF RtmpClientAs
  <1> QED BY <1>1, <1>2, <1>3, <1>4, <1>5, RtmpKept, RtmpPastKept, RtmpUnlinked

\* The server ends, and the connection with it.
LEMMA RtmpServerEnds ==
  ASSUME RtmpGood(rtmp),
         rtmp' = [rtmp EXCEPT !.busy = "deleted", !.current = "none", !.link = FALSE]
  PROVE  RtmpGood(rtmp')
  <1> DEFINE q == [rtmp EXCEPT !.busy = "deleted", !.current = "none", !.link = FALSE]
  <1>1. rtmp \in RtmpSessions /\ ~rtmp.failed /\ RtmpPast(rtmp)
    BY DEF RtmpGood
  <1>2. rtmp' = q
    OBVIOUS
  <1>3. "none" \in RtmpHolds
    BY DEF RtmpHolds
  <1>4. q \in RtmpSessions
    BY <1>1, <1>3, StatesAre DEF RtmpSessions
  <1>5. /\ q.mode = rtmp.mode /\ q.status = rtmp.status /\ q.request = rtmp.request
        /\ q.requests = rtmp.requests /\ q.proto = rtmp.proto /\ q.op = rtmp.op
        /\ q.pending = rtmp.pending /\ q.call = rtmp.call /\ q.made = rtmp.made
        /\ q.served = rtmp.served /\ q.good = rtmp.good /\ q.reading = rtmp.reading
        /\ q.seen = rtmp.seen /\ q.acked = rtmp.acked /\ q.asked = rtmp.asked
        /\ q.replied = rtmp.replied /\ q.link = FALSE /\ q.shaken = rtmp.shaken
        /\ q.up = rtmp.up /\ q.down = rtmp.down /\ q.busy = "deleted" /\ q.current = "none"
        /\ q.window = rtmp.window /\ q.got = rtmp.got /\ q.finished = rtmp.finished
        /\ q.strays = rtmp.strays /\ q.tries = rtmp.tries /\ q.failed = rtmp.failed
    BY <1>1 DEF RtmpSessions
  <1> HIDE DEF q
  <1>6. RtmpClientAs(q, rtmp)
    BY <1>1, <1>5 DEF RtmpClientAs
  <1> QED BY <1>1, <1>2, <1>4, <1>5, <1>6, RtmpKept, RtmpPastKept, RtmpUnlinked

LEMMA RtmpServerError ==
  ASSUME RtmpGood(rtmp), Rtmp!handle_error
  PROVE  RtmpGood(rtmp')
  <1>1. rtmp \in RtmpSessions
    BY DEF RtmpGood
  <1>2. rtmp' = [rtmp EXCEPT !.busy = "deleted", !.current = "none"] /\ ~rtmp.link
    BY DEF Rtmp!handle_error, Rtmp!None
  <1>3. rtmp' = [rtmp EXCEPT !.busy = "deleted", !.current = "none", !.link = FALSE]
    BY <1>1, <1>2 DEF RtmpSessions
  <1> QED BY <1>3, RtmpServerEnds

LEMMA RtmpStray ==
  ASSUME RtmpInUse, RtmpGood(rtmp), Rtmp!Stray
  PROVE  RtmpGood(rtmp')
  <1>1. PICK kind \in {"asking", "other"} :
          rtmp' = [rtmp EXCEPT !.down = Append(@, <<kind, "none">>), !.strays = @ + 1]
    BY DEF RtmpInUse, Rtmp!Stray, Rtmp!None
  <1>2. /\ rtmp \in RtmpSessions /\ ~rtmp.failed /\ RtmpPast(rtmp) /\ RtmpServes(rtmp)
        /\ RtmpStage(rtmp) /\ rtmp.link /\ rtmp.shaken
    BY DEF RtmpGood, RtmpCallsAs, Rtmp!Stray
  <1> DEFINE m == <<kind, "none">>
             d == Append(rtmp.down, m)
  <1>3. m \in RtmpChat
    BY DEF RtmpChat
  <1> HIDE DEF m
  <1>4. rtmp.down \in Seq(RtmpChat \cup RtmpAnswers)
    BY <1>2 DEF RtmpSessions
  <1>5. d \in Seq(RtmpChat \cup RtmpAnswers)
    BY <1>3, <1>4, RestIsPut
  <1>7. PICK n \in Nat : n = rtmp.strays + 1
    BY <1>2 DEF RtmpSessions
  <1> DEFINE q == [rtmp EXCEPT !.down = d, !.strays = n]
  <1>8. rtmp' = q
    BY <1>1, <1>2, <1>7 DEF RtmpSessions, m
  <1>9. /\ rtmp.down \in Seq(RtmpChat) => d \in Seq(RtmpChat)
        /\ \A T : OneOf(rtmp.down, RtmpChat, T) => OneOf(d, RtmpChat, T)
    BY <1>3, RestIsPut, OneIsFollowed
  <1> HIDE DEF d
  <1>10. q \in RtmpSessions
    BY <1>2, <1>5, StatesAre, ZenonT(40) DEF RtmpSessions
  <1>11. /\ q.mode = rtmp.mode /\ q.status = rtmp.status /\ q.request = rtmp.request
         /\ q.requests = rtmp.requests /\ q.proto = rtmp.proto /\ q.op = rtmp.op
         /\ q.pending = rtmp.pending /\ q.call = rtmp.call /\ q.made = rtmp.made
         /\ q.served = rtmp.served /\ q.good = rtmp.good /\ q.reading = rtmp.reading
         /\ q.seen = rtmp.seen /\ q.acked = rtmp.acked /\ q.asked = rtmp.asked
         /\ q.replied = rtmp.replied /\ q.link = rtmp.link /\ q.shaken = rtmp.shaken
         /\ q.up = rtmp.up /\ q.down = d /\ q.busy = rtmp.busy /\ q.current = rtmp.current
         /\ q.window = rtmp.window /\ q.got = rtmp.got /\ q.finished = rtmp.finished
         /\ q.strays = n /\ q.tries = rtmp.tries /\ q.failed = rtmp.failed
    BY <1>2 DEF RtmpSessions
  <1> HIDE DEF q
  <1>12. RtmpClientAs(q, rtmp)
    BY <1>11 DEF RtmpClientAs
  <1>13. /\ RtmpCallsAs(q) /\ RtmpFresh(q) /\ RtmpTurn(q) /\ RtmpPast(q)
         /\ RtmpSent(q) <=> RtmpSent(rtmp)
    BY <1>2, <1>10, <1>11, <1>12, RtmpKept, RtmpPastKept
  <1>14. RtmpServes(q)
    BY <1>2, <1>11 DEF RtmpServes
  <1>15. /\ RtmpUnsent(rtmp) => RtmpUnsent(q)
         /\ RtmpOnItsWay(rtmp) => RtmpOnItsWay(q)
         /\ RtmpHeld(rtmp) => RtmpHeld(q)
         /\ RtmpAnswered(rtmp) => RtmpAnswered(q)
    BY <1>9, <1>11, <1>13 DEF RtmpUnsent, RtmpOnItsWay, RtmpHeld, RtmpAnswered
  <1>16. RtmpStage(q)
    BY <1>2, <1>11, <1>15 DEF RtmpStage
  <1> QED BY <1>2, <1>8, <1>10, <1>11, <1>13, <1>14, <1>16 DEF RtmpGood

LEMMA RtmpReceiveRequest ==
  ASSUME RtmpGood(rtmp), Rtmp!handle_receive_request
  PROVE  RtmpGood(rtmp')
  <1>1. /\ rtmp.busy = "read" /\ rtmp.link /\ rtmp.up # << >>
        /\ rtmp' = IF Head(rtmp.up) \in RtmpAsides THEN Rtmp!start([rtmp EXCEPT !.up = Tail(@)])
                   ELSE [[rtmp EXCEPT !.up = Tail(@)] EXCEPT !.busy = "local",
                            !.current = Head(rtmp.up), !.got = Append(@, Head(rtmp.up))]
    BY DEF Rtmp!handle_receive_request, RtmpAsides
  <1>2. /\ rtmp \in RtmpSessions /\ ~rtmp.failed /\ RtmpPast(rtmp) /\ RtmpServes(rtmp)
        /\ RtmpTurn(rtmp) /\ RtmpStage(rtmp) /\ rtmp.shaken
    BY <1>1 DEF RtmpGood, RtmpCallsAs
  <1>3. rtmp.up \in Seq(RtmpAsides \cup RtmpAsked) /\ rtmp.got \in Seq(RtmpAsked)
    BY <1>2 DEF RtmpSessions
  <1> DEFINE m == Head(rtmp.up)
             u == Tail(rtmp.up)
             g == Append(rtmp.got, m)
  <1>4. m \in RtmpAsides \cup RtmpAsked /\ u \in Seq(RtmpAsides \cup RtmpAsked)
    BY <1>1, <1>3, RestIsTaken
  <1>5. CASE m \in RtmpAsides
    <2> DEFINE q == [rtmp EXCEPT !.up = u, !.busy = "read", !.current = "none"]
    <2>1. rtmp' = q
      BY <1>1, <1>2, <1>5 DEF Rtmp!start, Rtmp!None, RtmpSessions
    <2> HIDE DEF m, u, g
    <2> "none" \in RtmpHolds
      BY DEF RtmpHolds
    <2>2. q \in RtmpSessions
      BY <1>2, <1>4, StatesAre DEF RtmpSessions
    <2>3. /\ q.mode = rtmp.mode /\ q.status = rtmp.status /\ q.request = rtmp.request
          /\ q.requests = rtmp.requests /\ q.proto = rtmp.proto /\ q.op = rtmp.op
          /\ q.pending = rtmp.pending /\ q.call = rtmp.call /\ q.made = rtmp.made
          /\ q.served = rtmp.served /\ q.good = rtmp.good /\ q.reading = rtmp.reading
          /\ q.seen = rtmp.seen /\ q.acked = rtmp.acked /\ q.asked = rtmp.asked
          /\ q.replied = rtmp.replied /\ q.link = rtmp.link /\ q.shaken = rtmp.shaken /\ q.up = u
          /\ q.down = rtmp.down /\ q.busy = "read" /\ q.current = "none" /\ q.window = rtmp.window
          /\ q.got = rtmp.got /\ q.finished = rtmp.finished /\ q.strays = rtmp.strays
          /\ q.tries = rtmp.tries /\ q.failed = rtmp.failed
      BY <1>2 DEF RtmpSessions
    <2> HIDE DEF q
    <2>4. RtmpClientAs(q, rtmp)
      BY <2>3 DEF RtmpClientAs
    <2>5. /\ RtmpCallsAs(q) /\ RtmpFresh(q) /\ RtmpTurn(q) /\ RtmpPast(q)
          /\ RtmpSent(q) <=> RtmpSent(rtmp)
      BY <1>1, <1>2, <2>2, <2>3, <2>4, RtmpKept, RtmpPastKept
    <2>6. RtmpServes(q)
      BY <1>1, <1>2, <2>3 DEF RtmpServes
    <2>7. RtmpStage(q)
      <3>1. CASE rtmp.call = "failed"
        <4>1. u \in Seq(RtmpAsides)
          BY <1>1, <1>2, <3>1, RestIsTaken DEF RtmpStage, u
        <4> QED BY <1>1, <1>2, <2>3, <3>1, <4>1 DEF RtmpStage
      <3>2. CASE rtmp.call # "failed" /\ rtmp.up \in Seq(RtmpAsides)
        <4>1. u \in Seq(RtmpAsides)
          BY <1>1, <3>2, RestIsTaken DEF u
        <4>2. RtmpUnsent(rtmp) \/ RtmpOnItsWay(rtmp) \/ RtmpAnswered(rtmp)
          BY <1>1, <1>2, <3>2 DEF RtmpStage, RtmpHeld
        <4>3. CASE RtmpUnsent(rtmp)
          <5>1. RtmpUnsent(q)
            BY <2>3, <2>5, <4>1, <4>3 DEF RtmpUnsent
          <5> QED BY <2>3, <3>2, <5>1 DEF RtmpStage
        <4>4. CASE RtmpAnswered(rtmp)
          <5>1. RtmpAnswered(q)
            BY <2>3, <2>5, <4>1, <4>4 DEF RtmpAnswered
          <5> QED BY <2>3, <3>2, <5>1 DEF RtmpStage
        <4>5. CASE RtmpOnItsWay(rtmp)
          <5>1. \/ m = rtmp.requests[1] \/ OneOf(u, RtmpAsides, {rtmp.requests[1]})
            BY <4>5, OneIsTaken DEF RtmpOnItsWay, m, u
          <5>2. rtmp.requests[1] \notin RtmpAsides
            BY <1>1, <1>2, <3>2, <4>5, RtmpFront, RtmpSentCalls DEF RtmpOnItsWay
          <5>3. RtmpOnItsWay(q)
            BY <1>5, <2>3, <2>5, <4>5, <5>1, <5>2 DEF RtmpOnItsWay
          <5> QED BY <2>3, <3>2, <5>3 DEF RtmpStage
        <4> QED BY <4>2, <4>3, <4>4, <4>5
      <3>3. CASE rtmp.call # "failed" /\ rtmp.up \notin Seq(RtmpAsides)
        <4>1. RtmpOnItsWay(rtmp)
          BY <1>1, <1>2, <3>3 DEF RtmpStage, RtmpUnsent, RtmpHeld, RtmpAnswered
        <4>2. \/ m = rtmp.requests[1] \/ OneOf(u, RtmpAsides, {rtmp.requests[1]})
          BY <4>1, OneIsTaken DEF RtmpOnItsWay, m, u
        <4>3. rtmp.requests[1] \notin RtmpAsides
          BY <1>1, <1>2, <3>3, <4>1, RtmpFront, RtmpSentCalls DEF RtmpOnItsWay
        <4>4. RtmpOnItsWay(q)
          BY <1>5, <2>3, <2>5, <4>1, <4>2, <4>3 DEF RtmpOnItsWay
        <4> QED BY <2>3, <3>3, <4>4 DEF RtmpStage
      <3> QED BY <3>1, <3>2, <3>3
    <2> QED BY <1>2, <2>1, <2>2, <2>3, <2>5, <2>6, <2>7 DEF RtmpGood
  <1>6. CASE m \notin RtmpAsides
    <2>1. rtmp.up \notin Seq(RtmpAsides)
      BY <1>1, <1>6, RestIsTaken
    <2>2. rtmp.call # "failed" /\ RtmpOnItsWay(rtmp)
      BY <1>1, <1>2, <2>1 DEF RtmpStage, RtmpUnsent, RtmpHeld, RtmpAnswered
    <2>3. m = rtmp.requests[1] /\ u \in Seq(RtmpAsides)
      <3>1. \/ m \in RtmpAsides
            \/ m \in {rtmp.requests[1]} /\ u \in Seq(RtmpAsides)
        BY <2>2, OneIsTaken DEF RtmpOnItsWay
      <3> QED BY <1>6, <3>1
    <2> DEFINE q == [rtmp EXCEPT !.up = u, !.busy = "local", !.current = m, !.got = g]
    <2>4. rtmp' = q
      BY <1>1, <1>2, <1>6 DEF RtmpSessions
    <2>5. m \in RtmpAsked
      BY <1>4, <1>6
    <2> HIDE DEF m, u
    <2>6. /\ g \in Seq(RtmpAsked) /\ Len(g) = Len(rtmp.got) + 1 /\ g[Len(rtmp.got) + 1] = m
          /\ \A i \in 1..Len(rtmp.got) : g[i] = rtmp.got[i]
          /\ Len(rtmp.got) \in Nat
      BY <1>3, <2>5, AppendProperties, LenProperties
    <2> HIDE DEF g
    <2> m \in RtmpHolds
      BY <2>5 DEF RtmpHolds
    <2>7. q \in RtmpSessions
      BY <1>2, <1>4, <2>6, StatesAre DEF RtmpSessions
    <2>8. /\ q.mode = rtmp.mode /\ q.status = rtmp.status /\ q.request = rtmp.request
          /\ q.requests = rtmp.requests /\ q.proto = rtmp.proto /\ q.op = rtmp.op
          /\ q.pending = rtmp.pending /\ q.call = rtmp.call /\ q.made = rtmp.made
          /\ q.served = rtmp.served /\ q.good = rtmp.good /\ q.reading = rtmp.reading
          /\ q.seen = rtmp.seen /\ q.acked = rtmp.acked /\ q.asked = rtmp.asked
          /\ q.replied = rtmp.replied /\ q.link = rtmp.link /\ q.shaken = rtmp.shaken /\ q.up = u
          /\ q.down = rtmp.down /\ q.busy = "local" /\ q.current = m /\ q.window = rtmp.window
          /\ q.got = g /\ q.finished = rtmp.finished /\ q.strays = rtmp.strays
          /\ q.tries = rtmp.tries /\ q.failed = rtmp.failed
      BY <1>2 DEF RtmpSessions
    <2> HIDE DEF q
    <2>9. RtmpClientAs(q, rtmp)
      BY <2>8 DEF RtmpClientAs
    <2> rtmp.shaken
      BY <1>1 DEF RtmpGood, RtmpCallsAs
    <2>10. /\ RtmpCallsAs(q) /\ RtmpFresh(q) /\ RtmpTurn(q)
           /\ RtmpSent(q) <=> RtmpSent(rtmp)
      BY <1>1, <2>7, <2>8, <2>9, RtmpKept
    <2>11. /\ rtmp.requests # << >> /\ Len(rtmp.made) = Len(rtmp.served) + Len(rtmp.requests)
           /\ rtmp.requests[1] = rtmp.made[Len(rtmp.served) + 1] /\ Len(rtmp.requests) \in Nat \ {0}
           /\ Len(rtmp.served) \in Nat /\ Len(rtmp.made) \in Nat
      BY <1>1, <1>2, <2>2, RtmpFront, RtmpSentCalls DEF RtmpOnItsWay
    <2>12. Len(rtmp.got) = Len(rtmp.served)
      BY <2>2 DEF RtmpOnItsWay
    <2>13. RtmpPast(q)
      <3>1. Len(g) <= Len(rtmp.made) /\ Len(g) <= Len(rtmp.served) + 1
        BY <2>6, <2>11, <2>12
      <3>2. \A i \in 1..Len(g) : i \in 1..Len(rtmp.got) \/ i = Len(rtmp.got) + 1
        BY <2>6
      <3>3. \A i \in 1..Len(g) : g[i] = rtmp.made[i]
        BY <1>2, <2>3, <2>6, <2>11, <2>12, <3>2 DEF RtmpPast
      <3> QED BY <1>2, <2>8, <3>1, <3>3 DEF RtmpPast
    <2>14. RtmpServes(q)
      <3>1. rtmp.current = "none" /\ rtmp.finished = Len(rtmp.got)
        BY <1>1, <1>2, <2>6 DEF RtmpServes, RtmpSessions
      <3>2. m # "none"
        BY <2>5 DEF RtmpAsked
      <3> QED BY <1>1, <2>6, <2>8, <3>1, <3>2 DEF RtmpServes
    <2>16. RtmpHeld(q)
      BY <2>2, <2>3, <2>6, <2>8, <2>10 DEF RtmpHeld, RtmpOnItsWay
    <2> QED BY <1>2, <2>2, <2>4, <2>7, <2>8, <2>10, <2>13, <2>14, <2>16 DEF RtmpGood, RtmpStage
  <1> QED BY <1>5, <1>6

\* Two messages are the one and then the other.
LEMMA TwoArePut ==
  ASSUME NEW S, NEW x \in S, NEW y \in S
  PROVE  <<x, y>> = <<x>> \o <<y>>
  <1>1. <<x>> \in Seq(S) /\ <<y>> \in Seq(S) /\ <<x, y>> \in Seq(S)
    OBVIOUS
  <1>2. /\ <<x>> \o <<y>> \in Seq(S) /\ Len(<<x>> \o <<y>>) = 2
        /\ (<<x>> \o <<y>>)[1] = x /\ (<<x>> \o <<y>>)[2] = y
    BY <1>1, ConcatProperties
  <1>3. Len(<<x, y>>) = 2 /\ <<x, y>>[1] = x /\ <<x, y>>[2] = y
    OBVIOUS
  <1>4. \A i \in 1..2 : <<x, y>>[i] = (<<x>> \o <<y>>)[i]
    <2>1. \A i \in 1..2 : i = 1 \/ i = 2
      OBVIOUS
    <2> QED BY <1>2, <1>3, <2>1
  <1> QED BY <1>1, <1>2, <1>3, <1>4, SeqEqual

\* Three messages are put one by one.
LEMMA ThreeArePut ==
  ASSUME NEW S, NEW q \in Seq(S), NEW x \in S, NEW y \in S, NEW z \in S
  PROVE  q \o (<<x, y>> \o <<z>>) = Append(Append(Append(q, x), y), z)
  <1>1. <<x>> \in Seq(S) /\ <<y>> \in Seq(S) /\ <<z>> \in Seq(S) /\ <<x, y>> \in Seq(S)
    OBVIOUS
  <1>2. <<x, y>> = <<x>> \o <<y>>
    BY TwoArePut
  <1>3. q \o (<<x, y>> \o <<z>>) = (q \o <<x, y>>) \o <<z>>
    BY <1>1, ConcatAssociative
  <1>4. q \o (<<x>> \o <<y>>) = (q \o <<x>>) \o <<y>>
    BY <1>1, ConcatAssociative
  <1>5. q \o <<x>> = Append(q, x) /\ Append(q, x) \in Seq(S)
    BY AppendIsConcat, RestIsPut
  <1> DEFINE a == Append(q, x)
  <1>6. a \in Seq(S)
    BY <1>5
  <1> HIDE DEF a
  <1>7. a \o <<y>> = Append(a, y) /\ Append(a, y) \in Seq(S)
    BY <1>6, AppendIsConcat, RestIsPut
  <1> DEFINE b == Append(a, y)
  <1>8. b \in Seq(S)
    BY <1>7
  <1> HIDE DEF b
  <1>9. b \o <<z>> = Append(b, z)
    BY <1>8, AppendIsConcat
  <1>10. q \o <<x, y>> = b
    BY <1>2, <1>4, <1>5, <1>7 DEF a, b
  <1> QED BY <1>3, <1>9, <1>10 DEF a, b

LEMMA RtmpLocalAnswers ==
  ASSUME RtmpGood(rtmp), rtmp.busy = "local", rtmp.link, NEW ok \in BOOLEAN,
         rtmp' = [rtmp EXCEPT !.down = @ \o Rtmp!Answers(rtmp, ok), !.window = TRUE, !.busy = "write"]
  PROVE  RtmpGood(rtmp')
  <1>1. /\ rtmp \in RtmpSessions /\ ~rtmp.failed /\ RtmpPast(rtmp) /\ RtmpServes(rtmp)
        /\ RtmpStage(rtmp) /\ rtmp.shaken
    BY DEF RtmpGood, RtmpCallsAs
  <1>2. rtmp.call # "failed" /\ RtmpHeld(rtmp)
    BY <1>1 DEF RtmpStage, RtmpUnsent, RtmpOnItsWay, RtmpAnswered
  <1>3. PICK f \in RtmpAsked : f = rtmp.current /\ f = rtmp.requests[1]
    BY <1>1, <1>2, RtmpFront, RtmpSentCalls DEF RtmpHeld
  <1>4. PICK m \in RtmpAnswersTo(f) :
          rtmp' = [rtmp EXCEPT !.down = @ \o ((IF rtmp.window THEN << >>
                                               ELSE <<<<"quiet", "none">>, <<"asking", "none">>>>) \o <<m>>),
                               !.window = TRUE, !.busy = "write"]
    <2> DEFINE k == IF ~ok THEN "error" ELSE RtmpWell(f)
               m == <<k, f>>
    <2>2. m \in RtmpAnswersTo(f)
      BY RtmpAnswersAre
    <2>3. Rtmp!Answers(rtmp, ok) = (IF rtmp.window THEN << >>
                                    ELSE <<<<"quiet", "none">>, <<"asking", "none">>>>) \o <<m>>
      BY <1>3 DEF Rtmp!Answers, Rtmp!None, RtmpWell
    <2> QED BY <2>2, <2>3
  <1> DEFINE x == <<"quiet", "none">>
             y == <<"asking", "none">>
             d == IF rtmp.window THEN Append(rtmp.down, m) ELSE Append(Append(Append(rtmp.down, x), y), m)
  <1>5. x \in RtmpChat /\ y \in RtmpChat
    BY DEF RtmpChat
  <1> HIDE DEF x, y
  <1>6. m \in RtmpAnswers
    BY RtmpAnswersAre
  <1>7. /\ rtmp.down \in Seq(RtmpChat \cup RtmpAnswers) /\ rtmp.down \in Seq(RtmpChat)
        /\ rtmp.window \in BOOLEAN
    BY <1>1, <1>2 DEF RtmpSessions, RtmpHeld
  <1>8. rtmp.down \o ((IF rtmp.window THEN << >> ELSE <<x, y>>) \o <<m>>) = d
    <2>1. CASE rtmp.window
      <3>1. << >> \o <<m>> = <<m>>
        OBVIOUS
      <3>2. rtmp.down \o <<m>> = Append(rtmp.down, m)
        BY <1>6, <1>7, AppendIsConcat
      <3> QED BY <2>1, <3>1, <3>2
    <2>2. CASE ~rtmp.window
      <3>1. /\ rtmp.down \in Seq(RtmpChat \cup RtmpAnswers) /\ x \in RtmpChat \cup RtmpAnswers
            /\ y \in RtmpChat \cup RtmpAnswers /\ m \in RtmpChat \cup RtmpAnswers
        BY <1>5, <1>6, <1>7
      <3>2. rtmp.down \o (<<x, y>> \o <<m>>) = Append(Append(Append(rtmp.down, x), y), m)
        BY <3>1, ThreeArePut, SMTT(20)
      <3> QED BY <2>2, <3>2
    <2> QED BY <2>1, <2>2
  <1>9. OneOf(d, RtmpChat, RtmpAnswersTo(rtmp.requests[1])) /\ d \in Seq(RtmpChat \cup RtmpAnswers)
    <2>1. CASE rtmp.window
      BY <1>3, <1>6, <1>7, <2>1, OneIsPut, RestIsPut
    <2>2. CASE ~rtmp.window
      <3>1. PICK a : a = Append(rtmp.down, x) /\ a \in Seq(RtmpChat) /\ a \in Seq(RtmpChat \cup RtmpAnswers)
        BY <1>5, <1>7, RestIsPut
      <3>2. PICK b : b = Append(a, y) /\ b \in Seq(RtmpChat) /\ b \in Seq(RtmpChat \cup RtmpAnswers)
        BY <1>5, <3>1, RestIsPut
      <3>3. /\ OneOf(Append(b, m), RtmpChat, RtmpAnswersTo(f))
            /\ Append(b, m) \in Seq(RtmpChat \cup RtmpAnswers)
        BY <1>6, <3>2, OneIsPut, RestIsPut
      <3> QED BY <1>3, <2>2, <3>1, <3>2, <3>3
    <2> QED BY <2>1, <2>2
  <1>11. rtmp' = [rtmp EXCEPT !.busy = "write", !.down = d, !.window = TRUE]
    BY <1>1, <1>4, <1>8 DEF RtmpSessions, x, y
  <1> HIDE DEF d
  <1> DEFINE q == [rtmp EXCEPT !.busy = "write", !.down = d, !.window = TRUE]
  <1>12. q \in RtmpSessions
    BY <1>1, <1>9, StatesAre, ZenonT(40) DEF RtmpSessions
  <1>13. /\ q.mode = rtmp.mode /\ q.status = rtmp.status /\ q.request = rtmp.request
         /\ q.requests = rtmp.requests /\ q.proto = rtmp.proto /\ q.op = rtmp.op
         /\ q.pending = rtmp.pending /\ q.call = rtmp.call /\ q.made = rtmp.made
         /\ q.served = rtmp.served /\ q.good = rtmp.good /\ q.reading = rtmp.reading
         /\ q.seen = rtmp.seen /\ q.acked = rtmp.acked /\ q.asked = rtmp.asked
         /\ q.replied = rtmp.replied /\ q.link = rtmp.link /\ q.shaken = rtmp.shaken
         /\ q.up = rtmp.up /\ q.down = d /\ q.busy = "write" /\ q.current = rtmp.current
         /\ q.window = TRUE /\ q.got = rtmp.got /\ q.finished = rtmp.finished
         /\ q.strays = rtmp.strays /\ q.tries = rtmp.tries /\ q.failed = rtmp.failed
    BY <1>1 DEF RtmpSessions
  <1> HIDE DEF q
  <1>14. RtmpClientAs(q, rtmp)
    BY <1>13 DEF RtmpClientAs
  <1>15. /\ RtmpCallsAs(q) /\ RtmpFresh(q) /\ RtmpTurn(q) /\ RtmpPast(q)
         /\ RtmpSent(q) <=> RtmpSent(rtmp)
    BY <1>1, <1>12, <1>13, <1>14, RtmpKept, RtmpPastKept
  <1>16. rtmp.current # "none"
    BY <1>3 DEF RtmpAsked
  <1>17. RtmpServes(q)
    BY <1>1, <1>13, <1>16 DEF RtmpServes
  <1>18. RtmpAnswered(q)
    BY <1>2, <1>9, <1>13, <1>15 DEF RtmpHeld, RtmpAnswered
  <1> QED BY <1>1, <1>2, <1>11, <1>12, <1>13, <1>15, <1>17, <1>18 DEF RtmpGood, RtmpStage, q

LEMMA RtmpLocalProcess ==
  ASSUME RtmpGood(rtmp), Rtmp!handle_local_process
  PROVE  RtmpGood(rtmp')
  <1>1. rtmp.busy = "local" /\ rtmp.link
    BY DEF Rtmp!handle_local_process
  <1>2. CASE \E ok \in BOOLEAN : rtmp' = [rtmp EXCEPT !.down = @ \o Rtmp!Answers(rtmp, ok),
                                                    !.window = TRUE, !.busy = "write"]
    BY <1>1, <1>2, RtmpLocalAnswers
  <1>3. CASE rtmp' = [rtmp EXCEPT !.busy = "deleted", !.current = "none", !.link = FALSE]
    BY <1>3, RtmpServerEnds
  <1> QED BY <1>2, <1>3 DEF Rtmp!handle_local_process, Rtmp!None

LEMMA RtmpSendResponse ==
  ASSUME RtmpGood(rtmp), Rtmp!handle_send_response
  PROVE  RtmpGood(rtmp')
  <1>1. /\ rtmp \in RtmpSessions /\ ~rtmp.failed /\ RtmpPast(rtmp) /\ RtmpServes(rtmp)
        /\ RtmpTurn(rtmp) /\ RtmpStage(rtmp) /\ rtmp.shaken
        /\ rtmp.busy = "write" /\ rtmp.link
    BY DEF RtmpGood, RtmpCallsAs, Rtmp!handle_send_response
  <1>2. PICK f \in Nat : f = rtmp.finished + 1
    BY <1>1 DEF RtmpSessions
  <1> DEFINE q == [rtmp EXCEPT !.finished = f, !.busy = "read", !.current = "none"]
  <1>3. rtmp' = q
    BY <1>1, <1>2 DEF Rtmp!handle_send_response, Rtmp!start, Rtmp!None, RtmpSessions
  <1> "none" \in RtmpHolds
    BY DEF RtmpHolds
  <1>4. q \in RtmpSessions
    BY <1>1, StatesAre, ZenonT(40) DEF RtmpSessions
  <1>5. /\ q.mode = rtmp.mode /\ q.status = rtmp.status /\ q.request = rtmp.request
        /\ q.requests = rtmp.requests /\ q.proto = rtmp.proto /\ q.op = rtmp.op
        /\ q.pending = rtmp.pending /\ q.call = rtmp.call /\ q.made = rtmp.made
        /\ q.served = rtmp.served /\ q.good = rtmp.good /\ q.reading = rtmp.reading
        /\ q.seen = rtmp.seen /\ q.acked = rtmp.acked /\ q.asked = rtmp.asked
        /\ q.replied = rtmp.replied /\ q.link = rtmp.link /\ q.shaken = rtmp.shaken
        /\ q.up = rtmp.up /\ q.down = rtmp.down /\ q.busy = "read" /\ q.current = "none"
        /\ q.window = rtmp.window /\ q.got = rtmp.got /\ q.finished = f /\ q.strays = rtmp.strays
        /\ q.tries = rtmp.tries /\ q.failed = rtmp.failed
    BY <1>1 DEF RtmpSessions
  <1> HIDE DEF q
  <1>6. RtmpClientAs(q, rtmp)
    BY <1>5 DEF RtmpClientAs
  <1>7. /\ RtmpCallsAs(q) /\ RtmpFresh(q) /\ RtmpTurn(q) /\ RtmpPast(q)
        /\ RtmpSent(q) <=> RtmpSent(rtmp)
    BY <1>1, <1>4, <1>5, <1>6, RtmpKept, RtmpPastKept
  <1>8. RtmpServes(q)
    BY <1>1, <1>2, <1>5 DEF RtmpServes
  <1>9. /\ RtmpUnsent(rtmp) => RtmpUnsent(q)
        /\ RtmpOnItsWay(rtmp) => RtmpOnItsWay(q)
        /\ RtmpAnswered(rtmp) => RtmpAnswered(q)
        /\ ~RtmpHeld(rtmp)
    BY <1>1, <1>5, <1>7 DEF RtmpUnsent, RtmpOnItsWay, RtmpAnswered, RtmpHeld
  <1>10. RtmpStage(q)
    BY <1>1, <1>5, <1>9 DEF RtmpStage
  <1> QED BY <1>1, <1>3, <1>4, <1>5, <1>7, <1>8, <1>10 DEF RtmpGood
\* More messages are put behind it.
LEMMA OneIsFollowedBy ==
  ASSUME NEW S, NEW T, NEW q, OneOf(q, S, T), NEW p \in Seq(S)
  PROVE  OneOf(q \o p, S, T)
  <1> DEFINE r == q \o p
  <1>1. PICK i \in 1..Len(q) : q[i] \in T /\ \A j \in 1..Len(q) : j # i => q[j] \in S
    BY DEF OneOf
  <1>2. q \in Seq(S \cup T) /\ p \in Seq(S \cup T)
    BY SeqMonotonic DEF OneOf
  <1>3. /\ r \in Seq(S \cup T) /\ Len(r) = Len(q) + Len(p)
        /\ \A k \in 1..Len(q) + Len(p) : r[k] = IF k <= Len(q) THEN q[k] ELSE p[k - Len(q)]
    BY <1>2, ConcatProperties
  <1>4. \A k \in 1..Len(p) : p[k] \in S
    BY ElementOfSeq
  <1> HIDE DEF r
  <1>5. PICK a, b \in Nat : a = Len(q) /\ b = Len(p)
    BY <1>2, LenProperties
  <1>6. i \in 1..Len(r) /\ r[i] \in T
    BY <1>1, <1>3, <1>5
  <1>7. ASSUME NEW j \in 1..Len(r), j # i PROVE r[j] \in S
    <2>1. CASE j <= a
      BY <1>1, <1>3, <1>5, <1>7, <2>1
    <2>2. CASE j > a
      <3>1. j - a \in 1..b
        BY <1>3, <1>5, <2>2
      <3> QED BY <1>3, <1>4, <1>5, <2>2, <3>1
    <2> QED BY <1>3, <1>5, <2>1, <2>2
  <1> QED BY <1>3, <1>6, <1>7 DEF OneOf, r

LEMMA RestAreFollowed ==
  ASSUME NEW S, NEW q \in Seq(S), NEW p \in Seq(S)
  PROVE  q \o p \in Seq(S)
  BY ConcatProperties

\* How many of the messages are replies.
RtmpReplies(msgs) == Rtmp!Cardinality({i \in DOMAIN msgs : msgs[i] = "reply"})

LEMMA RtmpCounts ==
  /\ \A msgs \in Seq(RtmpAsides \cup RtmpAsked) : RtmpReplies(msgs) \in Nat
  /\ \A f \in RtmpAsked : RtmpReplies(<<f>>) = 0
  /\ RtmpReplies(<< >>) = 0 /\ RtmpReplies(<<"ack">>) = 0
  /\ RtmpReplies(<<"reply">>) = 1 /\ RtmpReplies(<<"ack", "reply">>) = 1
  /\ \A p \in Seq({"reply"}) : RtmpReplies(p) = Len(p)
  <1>1. \A S : Rtmp!Cardinality(S) = Cardinality(S)
    BY DEF Rtmp!Cardinality, Cardinality
  <1>2. Cardinality({}) = 0 /\ Cardinality({1}) = 1 /\ Cardinality({2}) = 1
    BY FS_EmptySet, FS_Singleton
  <1>3. ASSUME NEW msgs \in Seq(RtmpAsides \cup RtmpAsked) PROVE RtmpReplies(msgs) \in Nat
    <2>1. DOMAIN msgs = 1..Len(msgs) /\ Len(msgs) \in Nat
      BY LenProperties
    <2>2. IsFiniteSet(1..Len(msgs))
      BY <2>1, FS_Interval
    <2>3. IsFiniteSet({i \in DOMAIN msgs : msgs[i] = "reply"})
      BY <2>1, <2>2, FS_Subset
    <2>4. Cardinality({i \in DOMAIN msgs : msgs[i] = "reply"}) \in Nat
      BY <2>3, FS_CardinalityType
    <2> QED BY <1>1, <2>4 DEF RtmpReplies
  <1>4. ASSUME NEW f, f # "reply" PROVE RtmpReplies(<<f>>) = 0
    <2>1. {i \in DOMAIN <<f>> : <<f>>[i] = "reply"} = {}
      BY <1>4
    <2> QED BY <1>1, <1>2, <2>1 DEF RtmpReplies
  <1>5. RtmpReplies(<< >>) = 0
    <2>1. {i \in DOMAIN << >> : << >>[i] = "reply"} = {}
      OBVIOUS
    <2> QED BY <1>1, <1>2, <2>1 DEF RtmpReplies
  <1>6. RtmpReplies(<<"ack", "reply">>) = 1
    <2>1. {i \in DOMAIN <<"ack", "reply">> : <<"ack", "reply">>[i] = "reply"} = {2}
      OBVIOUS
    <2> QED BY <1>1, <1>2, <2>1 DEF RtmpReplies
  <1>7. ASSUME NEW p \in Seq({"reply"}) PROVE RtmpReplies(p) = Len(p)
    <2>1. DOMAIN p = 1..Len(p) /\ Len(p) \in Nat
      BY LenProperties
    <2>2. \A i \in 1..Len(p) : p[i] = "reply"
      BY ElementOfSeq
    <2>3. {i \in DOMAIN p : p[i] = "reply"} = 1..Len(p)
      BY <2>1, <2>2
    <2>4. Cardinality(1..Len(p)) = Len(p)
      <3>1. PICK n \in Nat : n = Len(p)
        BY <2>1
      <3>2. Cardinality(1..n) = IF 1 > n THEN 0 ELSE n - 1 + 1
        BY FS_Interval
      <3>3. Cardinality(1..n) = n
        BY <3>2
      <3> QED BY <3>1, <3>3
    <2> QED BY <1>1, <2>3, <2>4 DEF RtmpReplies
  <1>8. RtmpReplies(<<"reply">>) = 1
    <2>1. {i \in DOMAIN <<"reply">> : <<"reply">>[i] = "reply"} = {1}
      OBVIOUS
    <2> QED BY <1>1, <1>2, <2>1 DEF RtmpReplies
  <1>9. \A f \in RtmpAsked : f # "reply"
    BY DEF RtmpAsked
  <1> QED BY <1>3, <1>4, <1>5, <1>6, <1>7, <1>8, <1>9

LEMMA RtmpWrites ==
  ASSUME NEW s \in RtmpSessions, NEW msgs \in Seq(RtmpAsides \cup RtmpAsked)
  PROVE  \E r \in Nat, u \in Seq(RtmpAsides \cup RtmpAsked) :
           /\ Rtmp!Write(s, msgs) = [s EXCEPT !.up = u, !.replied = r]
           /\ u = s.up \o msgs /\ r = s.replied + RtmpReplies(msgs)
  <1>1. s.up \in Seq(RtmpAsides \cup RtmpAsked) /\ s.replied \in Nat
    BY DEF RtmpSessions
  <1>2. PICK u \in Seq(RtmpAsides \cup RtmpAsked) : u = s.up \o msgs
    BY <1>1, RestAreFollowed
  <1>3. PICK n \in Nat : n = RtmpReplies(msgs)
    BY RtmpCounts
  <1>4. PICK r \in Nat : r = s.replied + n
    BY <1>1
  <1>5. Rtmp!Write(s, msgs) = [s EXCEPT !.up = u, !.replied = r]
    BY <1>2, <1>3, <1>4 DEF Rtmp!Write, RtmpReplies, RtmpSessions
  <1> QED BY <1>2, <1>3, <1>4, <1>5

LEMMA RtmpSends ==
  ASSUME NEW s \in RtmpSessions, NEW f \in RtmpAsked
  PROVE  \E u \in Seq(RtmpAsides \cup RtmpAsked) :
           Rtmp!Write(s, <<f>>) = [s EXCEPT !.up = u] /\ u = Append(s.up, f)
  <1>1. <<f>> \in Seq(RtmpAsides \cup RtmpAsked) /\ f \in RtmpAsides \cup RtmpAsked
    OBVIOUS
  <1>2. PICK r \in Nat, u \in Seq(RtmpAsides \cup RtmpAsked) :
           /\ Rtmp!Write(s, <<f>>) = [s EXCEPT !.up = u, !.replied = r]
           /\ u = s.up \o <<f>> /\ r = s.replied + RtmpReplies(<<f>>)
    BY <1>1, RtmpWrites
  <1>3. s.up \in Seq(RtmpAsides \cup RtmpAsked) /\ s.replied \in Nat
    BY DEF RtmpSessions
  <1>4. u = Append(s.up, f)
    BY <1>1, <1>2, <1>3, AppendIsConcat
  <1>5. r = s.replied
    BY <1>2, <1>3, RtmpCounts
  <1>6. Rtmp!Write(s, <<f>>) = [s EXCEPT !.up = u]
    BY <1>2, <1>5 DEF RtmpSessions
  <1> QED BY <1>4, <1>6

LEMMA RtmpSend ==
  ASSUME NEW s \in RtmpSessions, ~s.failed, s.pending = << >>, s.requests # << >>
  PROVE  \E u \in Seq(RtmpAsides \cup RtmpAsked) :
           /\ Rtmp!Send(s) = [s EXCEPT !.up = u, !.request = "sending_req", !.op = "write",
                                       !.failed = FALSE]
           /\ u = Append(s.up, s.requests[1])
  <1>1. s.requests \in Seq(RtmpAsked)
    BY DEF RtmpSessions
  <1>2. Head(s.requests) = s.requests[1] /\ s.requests[1] \in RtmpAsked
    BY <1>1, RestIsTaken
  <1>3. PICK u \in Seq(RtmpAsides \cup RtmpAsked) :
           Rtmp!Write(s, <<s.requests[1]>>) = [s EXCEPT !.up = u] /\ u = Append(s.up, s.requests[1])
    BY <1>2, RtmpSends
  <1>4. Rtmp!Send(s) = [s EXCEPT !.up = u, !.request = "sending_req", !.op = "write", !.failed = FALSE]
    BY <1>2, <1>3 DEF Rtmp!Send, RtmpSessions
  <1> QED BY <1>3, <1>4

LEMMA RtmpFail ==
  ASSUME RtmpGood(rtmp), Rtmp!Fail
  PROVE  RtmpGood(rtmp')
  <1>1. /\ rtmp \in RtmpSessions /\ ~rtmp.failed /\ RtmpPast(rtmp) /\ RtmpCallsAs(rtmp)
        /\ RtmpFresh(rtmp) /\ ~rtmp.link /\ rtmp.shaken
    BY DEF RtmpGood, Rtmp!Fail
  <1>2. << >> \in Seq(RtmpAsked)
    BY EmptySeq
  <1> DEFINE q == [rtmp EXCEPT !.status = "broken", !.requests = << >>, !.op = "none",
                               !.failed = FALSE, !.call = "failed"]
  <1>3. rtmp.op \in {"write", "read"} /\ rtmp.requests # << >>
    BY <1>1 DEF Rtmp!Fail, RtmpCallsAs, RtmpSessions
  <1>4. rtmp' = q
    BY <1>1, <1>3 DEF Rtmp!Fail, Rtmp!Broken, Rtmp!response, Rtmp!None, RtmpSessions
  <1>5. q \in RtmpSessions
    BY <1>1, <1>2, StatesAre, ZenonT(40) DEF RtmpSessions
  <1>6. /\ q.mode = rtmp.mode /\ q.status = "broken" /\ q.request = rtmp.request
        /\ q.requests = << >> /\ q.proto = rtmp.proto /\ q.op = "none"
        /\ q.pending = rtmp.pending /\ q.call = "failed" /\ q.made = rtmp.made
        /\ q.served = rtmp.served /\ q.good = rtmp.good /\ q.reading = rtmp.reading
        /\ q.seen = rtmp.seen /\ q.acked = rtmp.acked /\ q.asked = rtmp.asked
        /\ q.replied = rtmp.replied /\ q.link = rtmp.link /\ q.shaken = rtmp.shaken
        /\ q.up = rtmp.up /\ q.down = rtmp.down /\ q.busy = rtmp.busy
        /\ q.current = rtmp.current /\ q.window = rtmp.window /\ q.got = rtmp.got
        /\ q.finished = rtmp.finished /\ q.strays = rtmp.strays /\ q.tries = rtmp.tries
        /\ q.failed = FALSE
    BY <1>1 DEF RtmpSessions
  <1> HIDE DEF q
  <1>7. RtmpPast(q) /\ RtmpTurn(q)
    BY <1>1, <1>6 DEF RtmpPast, RtmpTurn
  <1>8. RtmpCallsAs(q) /\ RtmpFresh(q)
    BY <1>1, <1>3, <1>6 DEF RtmpCallsAs, RtmpFresh, RtmpCalling
  <1> QED BY <1>1, <1>4, <1>5, <1>6, <1>7, <1>8, RtmpUnlinked

LEMMA RtmpClose ==
  ASSUME RtmpGood(rtmp), Rtmp!close
  PROVE  RtmpGood(rtmp')
  <1>1. /\ rtmp \in RtmpSessions /\ ~rtmp.failed /\ RtmpPast(rtmp) /\ RtmpCallsAs(rtmp)
        /\ RtmpFresh(rtmp) /\ RtmpTurn(rtmp)
    BY DEF RtmpGood
  <1>2. /\ \/ rtmp.call = "none" /\ rtmp.op = "none"
           \/ rtmp.call = "failed"
           \/ RtmpCalling(rtmp) /\ rtmp.status # "connectting"
    BY DEF Rtmp!close, Rtmp!Free, Rtmp!None, RtmpCalling
  <1>3. rtmp.mode = "async"
    BY <1>1 DEF RtmpSessions
  <1> DEFINE q == [rtmp EXCEPT !.status = "closed", !.link = FALSE]
  <1>4. rtmp' = q
    BY <1>1, <1>3 DEF Rtmp!close, Rtmp!None, RtmpSessions
  <1>5. q \in RtmpSessions
    BY <1>1, StatesAre, ZenonT(40) DEF RtmpSessions
  <1>6. /\ q.mode = rtmp.mode /\ q.status = "closed" /\ q.request = rtmp.request
        /\ q.requests = rtmp.requests /\ q.proto = rtmp.proto /\ q.op = rtmp.op
        /\ q.pending = rtmp.pending /\ q.call = rtmp.call /\ q.made = rtmp.made /\ q.served = rtmp.served
        /\ q.good = rtmp.good /\ q.reading = rtmp.reading /\ q.seen = rtmp.seen
        /\ q.acked = rtmp.acked /\ q.asked = rtmp.asked /\ q.replied = rtmp.replied
        /\ q.link = FALSE /\ q.shaken = rtmp.shaken /\ q.up = rtmp.up /\ q.down = rtmp.down
        /\ q.busy = rtmp.busy /\ q.current = rtmp.current /\ q.window = rtmp.window
        /\ q.got = rtmp.got /\ q.finished = rtmp.finished /\ q.strays = rtmp.strays
        /\ q.tries = rtmp.tries /\ q.failed = rtmp.failed
    BY <1>1 DEF RtmpSessions
  <1> HIDE DEF q
  <1>7. RtmpPast(q)
    BY <1>1, <1>6 DEF RtmpPast
  <1>9. RtmpCallsAs(q)
    BY <1>1, <1>2, <1>3, <1>6 DEF RtmpCallsAs, RtmpCalling
  <1>10. RtmpFresh(q)
    BY <1>1, <1>3, <1>6 DEF RtmpFresh
  <1>11. RtmpTurn(q)
    BY <1>1, <1>3, <1>6, ZenonT(40) DEF RtmpTurn
  <1> QED BY <1>1, <1>4, <1>5, <1>6, <1>7, <1>9, <1>10, <1>11, RtmpUnlinked

LEMMA RtmpConnect ==
  ASSUME RtmpInUse, RtmpGood(rtmp), Rtmp!connect
  PROVE  RtmpGood(rtmp')
  <1>1. /\ rtmp \in RtmpSessions /\ ~rtmp.failed /\ RtmpPast(rtmp) /\ RtmpCallsAs(rtmp)
        /\ RtmpFresh(rtmp)
    BY DEF RtmpGood
  <1>2. /\ rtmp.op = "none" /\ rtmp.status = "closed" /\ ~rtmp.shaken /\ ~rtmp.link
    BY <1>1 DEF Rtmp!connect, Rtmp!None, RtmpInUse, RtmpCallsAs
  <1>3. /\ rtmp.proto = << >> /\ rtmp.pending = << >> /\ ~rtmp.reading /\ rtmp.good
        /\ rtmp.got = << >> /\ rtmp.served = << >>
    BY <1>1, <1>2 DEF RtmpFresh
  <1>4. PICK t \in Nat : t = rtmp.tries + 1
    BY <1>1 DEF RtmpSessions
  <1>5. PICK n \in Seq(RtmpAsked) : n = rtmp.made \o RtmpFirst
    BY <1>1, RtmpPlanIs, RestAreFollowed DEF RtmpSessions
  <1>6. RtmpFirst \in Seq(RtmpAsked) /\ RtmpFirst # << >>
    BY RtmpPlanIs
  <1>7. ASSUME NEW q \in RtmpSessions, ~q.failed, ~q.link, q.call = "connect", q.status = "connectting",
               q.requests = RtmpFirst, q.proto = << >>, q.pending = << >>, ~q.shaken, ~q.reading, q.good,
               q.got = << >>, q.served = << >>, q.asked = rtmp.asked, q.replied = rtmp.replied,
               q.op = "connect"
        PROVE  RtmpGood(q)
    <2>1. RtmpPast(q)
      <3>1. Len(<< >>) = 0 /\ Len(q.made) \in Nat
        BY <1>7, LenProperties DEF RtmpSessions
      <3> QED BY <1>1, <1>7, <3>1 DEF RtmpPast
    <2>2. RtmpCallsAs(q)
      BY <1>6, <1>7 DEF RtmpCallsAs, RtmpCalling
    <2>3. RtmpFresh(q)
      BY <1>7 DEF RtmpFresh
    <2>4. RtmpTurn(q)
      BY <1>1, <1>7 DEF RtmpTurn
    <2> QED BY <1>7, <2>1, <2>2, <2>3, <2>4, RtmpUnlinked
  <1>12. rtmp.mode = "async"
    BY <1>1 DEF RtmpSessions
  <1> DEFINE q == [rtmp EXCEPT !.call = "connect", !.tries = t, !.requests = RtmpFirst,
                               !.made = n, !.status = "connectting", !.op = "connect"]
  <1>8. rtmp' = q
    BY <1>1, <1>2, <1>4, <1>5, <1>12
       DEF Rtmp!connect, Rtmp!make_connect_requests, Rtmp!handle_async_connect, RtmpFirst, RtmpSessions
  <1>9. q \in RtmpSessions
    BY <1>1, <1>6, StatesAre, ZenonT(40) DEF RtmpSessions
  <1>10. /\ q.mode = rtmp.mode /\ q.status = "connectting" /\ q.request = rtmp.request
        /\ q.requests = RtmpFirst /\ q.proto = rtmp.proto /\ q.op = "connect"
        /\ q.pending = rtmp.pending /\ q.call = "connect" /\ q.made = n
        /\ q.served = rtmp.served /\ q.good = rtmp.good /\ q.reading = rtmp.reading
        /\ q.seen = rtmp.seen /\ q.acked = rtmp.acked /\ q.asked = rtmp.asked
        /\ q.replied = rtmp.replied /\ q.link = rtmp.link /\ q.shaken = rtmp.shaken
        /\ q.up = rtmp.up /\ q.down = rtmp.down /\ q.busy = rtmp.busy
        /\ q.current = rtmp.current /\ q.window = rtmp.window /\ q.got = rtmp.got
        /\ q.finished = rtmp.finished /\ q.strays = rtmp.strays /\ q.tries = t
        /\ q.failed = rtmp.failed
    BY <1>1 DEF RtmpSessions
  <1> HIDE DEF q
  <1>11. RtmpGood(q)
    BY <1>1, <1>2, <1>3, <1>7, <1>12, <1>9, <1>10
  <1> QED BY <1>8, <1>11

LEMMA RtmpConnected ==
  ASSUME RtmpInUse, RtmpGood(rtmp), Rtmp!Connected
  PROVE  RtmpGood(rtmp')
  <1>1. /\ rtmp \in RtmpSessions /\ ~rtmp.failed /\ RtmpPast(rtmp) /\ RtmpCallsAs(rtmp)
        /\ RtmpFresh(rtmp)
    BY DEF RtmpGood
  <1>2. rtmp.mode = "async"
    BY <1>1 DEF RtmpSessions
  <1>3. /\ rtmp.status = "connectting" /\ rtmp.call = "connect" /\ ~rtmp.link /\ ~rtmp.shaken
        /\ rtmp.op = "connect"
    BY <1>1, <1>2 DEF Rtmp!Connected, RtmpCallsAs
  <1>4. /\ rtmp.requests = RtmpFirst /\ rtmp.requests # << >> /\ rtmp.proto = << >>
        /\ ~rtmp.reading /\ rtmp.good /\ rtmp.pending = << >>
    <2>1. rtmp.requests = RtmpFirst
      BY <1>1, <1>3 DEF RtmpCallsAs, RtmpCalling
    <2>2. rtmp.requests # << >>
      BY <2>1, RtmpPlanIs
    <2>3. rtmp.proto = << >> /\ ~rtmp.reading /\ rtmp.good /\ rtmp.pending = << >>
      BY <1>1, <1>3 DEF RtmpFresh
    <2> QED BY <2>1, <2>2, <2>3
  <1> DEFINE s == [rtmp EXCEPT !.link = TRUE, !.shaken = TRUE, !.busy = "read", !.up = << >>,
                               !.down = << >>, !.got = << >>, !.finished = 0, !.current = "none",
                               !.window = FALSE,
                               !.made = RtmpFirst, !.served = << >>, !.failed = FALSE,
                               !.status = "net_connectting"]
  <1>5. /\ << >> \in Seq(RtmpAsked) /\ << >> \in Seq(RtmpAsked \X RtmpAsked)
        /\ << >> \in Seq(RtmpAsides \cup RtmpAsked) /\ << >> \in Seq(RtmpChat \cup RtmpAnswers)
        /\ << >> \in Seq(RtmpAsides) /\ << >> \in Seq(RtmpChat)
    BY EmptySeq
  <1>6. "none" \in RtmpHolds /\ RtmpFirst \in Seq(RtmpAsked)
    BY RtmpPlanIs DEF RtmpHolds
  <1>7. s \in RtmpSessions
    BY <1>1, <1>5, <1>6, StatesAre, ZenonT(40) DEF RtmpSessions
  <1>8. /\ s.mode = rtmp.mode /\ s.status = "net_connectting" /\ s.request = rtmp.request
        /\ s.requests = rtmp.requests /\ s.proto = rtmp.proto /\ s.op = rtmp.op
        /\ s.pending = rtmp.pending /\ s.call = rtmp.call /\ s.made = RtmpFirst
        /\ s.served = << >> /\ s.good = rtmp.good /\ s.reading = rtmp.reading
        /\ s.seen = rtmp.seen /\ s.acked = rtmp.acked /\ s.asked = rtmp.asked
        /\ s.replied = rtmp.replied /\ s.link = TRUE /\ s.shaken = TRUE /\ s.up = << >>
        /\ s.down = << >> /\ s.busy = "read" /\ s.current = "none" /\ s.window = FALSE
        /\ s.got = << >> /\ s.finished = 0 /\ s.strays = rtmp.strays /\ s.tries = rtmp.tries
        /\ s.failed = FALSE
    BY <1>1 DEF RtmpSessions
  <1>9. \/ rtmp' = Rtmp!Send(s)
        \/ rtmp' = [rtmp EXCEPT !.status = "broken", !.op = "none", !.call = "failed"]
    <2>1. PICK ok \in BOOLEAN :
            LET x == IF ok THEN [rtmp EXCEPT !.link = TRUE, !.shaken = TRUE, !.busy = "read", !.up = << >>,
                                               !.down = << >>, !.got = << >>, !.finished = 0,
                                               !.current = "none", !.window = FALSE,
                                   !.made = rtmp.requests, !.served = << >>,
                                               !.failed = rtmp.shaken /\ rtmp.mode = "async"]
                    ELSE rtmp
            IN  rtmp' = IF x.mode = "async" THEN Rtmp!handle_async_connect(x, ok) ELSE Rtmp!resume_connect(x, ok)
      BY DEF Rtmp!Connected, Rtmp!None
    <2>2. CASE ok
      <3> DEFINE x == [rtmp EXCEPT !.link = TRUE, !.shaken = TRUE, !.busy = "read", !.up = << >>,
                                   !.down = << >>, !.got = << >>, !.finished = 0,
                                   !.current = "none", !.window = FALSE,
                                   !.made = rtmp.requests, !.served = << >>,
                                   !.failed = rtmp.shaken /\ rtmp.mode = "async"]
      <3>1. rtmp' = Rtmp!handle_async_connect(x, TRUE)
        BY <1>1, <1>2, <2>1, <2>2 DEF RtmpSessions
      <3>2. (rtmp.shaken /\ rtmp.mode = "async") = FALSE
        BY <1>3
      <3>3. x.mode = rtmp.mode /\ x.status = "connectting"
        BY <1>1, <1>3 DEF RtmpSessions
      <3>4. [x EXCEPT !.status = "net_connectting"] = s
        BY <1>1, <1>4, <3>2 DEF RtmpSessions
      <3> HIDE DEF x, s
      <3> QED BY <3>1, <3>3, <3>4 DEF Rtmp!handle_async_connect, Rtmp!async_reqeust
    <2>3. CASE ~ok
      <3>1. rtmp' = Rtmp!handle_async_connect(rtmp, FALSE)
        BY <1>2, <2>1, <2>3
      <3> HIDE DEF s
      <3> QED BY <1>1, <1>3, <3>1
            DEF Rtmp!handle_async_connect, Rtmp!response, Rtmp!None, RtmpSessions
    <2> QED BY <2>2, <2>3
  <1> HIDE DEF s
  <1>10. Len(RtmpFirst) = 1 /\ Len(<< >>) = 0 /\ RtmpFirst # << >>
    BY RtmpPlanIs
  <1>11. ASSUME NEW q \in RtmpSessions, ~q.failed, q.link, q.shaken, q.status = "net_connectting",
                q.call = "connect", q.mode = rtmp.mode,
                q.requests = RtmpFirst, q.made = RtmpFirst, q.served = << >>, q.proto = << >>,
                q.got = << >>, q.down = << >>, q.pending = << >>, q.asked = rtmp.asked,
                q.replied = rtmp.replied,
                q.busy = "read", q.current = "none", q.finished = 0, ~q.reading, q.good,
                q.request # "finished", RtmpOnItsWay(q), q.op = "write"
         PROVE  RtmpGood(q)
    <2>1. RtmpCallsAs(q)
      BY <1>10, <1>11 DEF RtmpCallsAs, RtmpCalling
    <2>2. RtmpFresh(q)
      BY <1>1, <1>5, <1>11 DEF RtmpFresh
    <2>3. RtmpPast(q) /\ RtmpServes(q)
      BY <1>1, <1>10, <1>11 DEF RtmpPast, RtmpServes
    <2>4. RtmpTurn(q)
      <3>1. Len(q.made) = 1 /\ Len(q.served) = 0 /\ Len(q.requests) = 1
        BY <1>10, <1>11
      <3>2. Len(q.made) = Len(q.served) + Len(q.requests)
        BY <3>1
      <3>3. \A i \in 1..Len(q.requests) : q.requests[i] = q.made[Len(q.served) + i]
        BY <1>11, <3>1
      <3> QED BY <1>10, <1>11, <3>2, <3>3 DEF RtmpTurn
    <2>5. RtmpStage(q)
      BY <1>11 DEF RtmpStage
    <2> QED BY <1>11, <2>1, <2>2, <2>3, <2>4, <2>5 DEF RtmpGood
  <1>16. s.pending = << >> /\ s.requests # << >> /\ ~s.failed
    BY <1>4, <1>8
  <1>12. CASE rtmp' = Rtmp!Send(s)
    <2>1. PICK u \in Seq(RtmpAsides \cup RtmpAsked) :
             /\ Rtmp!Send(s) = [s EXCEPT !.up = u, !.request = "sending_req",
                                         !.op = "write", !.failed = FALSE]
             /\ u = Append(s.up, s.requests[1])
      BY <1>7, <1>16, RtmpSend
    <2> DEFINE q == [s EXCEPT !.up = u, !.request = "sending_req", !.op = "write", !.failed = FALSE]
    <2>2. q \in RtmpSessions
      BY <1>7, StatesAre, ZenonT(40) DEF RtmpSessions
    <2>3. /\ q.mode = s.mode /\ q.status = s.status /\ q.request = "sending_req"
          /\ q.requests = s.requests /\ q.proto = s.proto /\ q.op = "write"
          /\ q.pending = s.pending /\ q.call = s.call /\ q.made = s.made /\ q.served = s.served
          /\ q.good = s.good /\ q.reading = s.reading /\ q.seen = s.seen /\ q.acked = s.acked
          /\ q.asked = s.asked /\ q.replied = s.replied /\ q.link = s.link /\ q.shaken = s.shaken
          /\ q.up = u /\ q.down = s.down /\ q.busy = s.busy /\ q.current = s.current
          /\ q.window = s.window /\ q.got = s.got /\ q.finished = s.finished
          /\ q.strays = s.strays /\ q.tries = s.tries /\ q.failed = FALSE
      BY <1>7 DEF RtmpSessions
    <2> HIDE DEF q
    <2>6. s.up \in Seq(RtmpAsides) /\ s.requests[1] \in {s.requests[1]} /\ q.requests = s.requests
      BY <1>5, <1>8, <2>3
    <2>4. OneOf(u, RtmpAsides, {q.requests[1]})
      BY <2>1, <2>6, OneIsPut
    <2>7. /\ q.mode = "async" /\ q.op = "write" /\ q.got = << >> /\ q.served = << >> /\ q.down = << >>
          /\ q.busy = "read" /\ q.up = u
      BY <1>2, <1>8, <2>3
    <2>5. RtmpOnItsWay(q)
      BY <1>5, <2>4, <2>7 DEF RtmpOnItsWay, RtmpSent
    <2>9. /\ ~q.failed /\ q.link /\ q.shaken /\ q.status = "net_connectting"
          /\ q.call = "connect" /\ q.mode = rtmp.mode /\ q.requests = RtmpFirst
          /\ q.made = RtmpFirst /\ q.proto = << >> /\ q.pending = << >>
          /\ q.asked = rtmp.asked /\ q.replied = rtmp.replied
          /\ q.current = "none" /\ q.finished = 0 /\ ~q.reading /\ q.good
          /\ q.request # "finished"
      <3>1. s.link /\ s.shaken /\ ~s.reading /\ s.good
        BY <1>4, <1>8
      <3> QED BY <1>3, <1>4, <1>8, <2>3, <3>1
    <2>8. RtmpGood(q)
      BY <1>11, <2>2, <2>5, <2>7, <2>9
    <2> QED BY <1>12, <2>1, <2>8 DEF q
  <1>14. CASE rtmp' = [rtmp EXCEPT !.status = "broken", !.op = "none", !.call = "failed"]
    <2> DEFINE q == [rtmp EXCEPT !.status = "broken", !.op = "none", !.call = "failed"]
    <2>1. q \in RtmpSessions
      BY <1>1, StatesAre, ZenonT(40) DEF RtmpSessions
    <2>2. /\ q.mode = rtmp.mode /\ q.status = "broken" /\ q.request = rtmp.request
          /\ q.requests = rtmp.requests /\ q.proto = rtmp.proto /\ q.op = "none"
          /\ q.pending = rtmp.pending /\ q.call = "failed" /\ q.made = rtmp.made
          /\ q.served = rtmp.served /\ q.good = rtmp.good /\ q.reading = rtmp.reading
          /\ q.seen = rtmp.seen /\ q.acked = rtmp.acked /\ q.asked = rtmp.asked
          /\ q.replied = rtmp.replied /\ q.link = rtmp.link /\ q.shaken = rtmp.shaken
          /\ q.up = rtmp.up /\ q.down = rtmp.down /\ q.busy = rtmp.busy
          /\ q.current = rtmp.current /\ q.window = rtmp.window /\ q.got = rtmp.got
          /\ q.finished = rtmp.finished /\ q.strays = rtmp.strays /\ q.tries = rtmp.tries
          /\ q.failed = rtmp.failed
      BY <1>1 DEF RtmpSessions
    <2> HIDE DEF q
    <2>3. RtmpPast(q) /\ RtmpTurn(q)
      BY <1>1, <2>2 DEF RtmpPast, RtmpTurn
    <2>4. RtmpCallsAs(q)
      BY <1>1, <1>3, <1>4, <1>14, <2>2 DEF RtmpCallsAs, RtmpCalling
    <2>5. RtmpFresh(q)
      BY <1>1, <1>3, <1>4, <1>14, <2>2 DEF RtmpFresh
    <2> QED BY <1>1, <1>3, <1>14, <2>1, <2>2, <2>3, <2>4, <2>5, RtmpUnlinked DEF q
  <1> QED BY <1>9, <1>12, <1>14

\* What holds once the client was connected while the user waits for nothing.
LEMMA RtmpIdle ==
  ASSUME NEW s, RtmpGood(s), s.shaken, s.call = "none"
  PROVE  /\ s \in RtmpSessions /\ s.requests = << >> /\ s.request = "finished" /\ s.pending = << >>
         /\ s.op = "none" /\ s.good /\ s.status # "connectting" /\ Len(s.made) = Len(s.served)
         /\ s.proto = << >>
         /\ s.made = RtmpFirst \/ s.made \in RtmpPlans
         /\ s.link => s.up \in Seq(RtmpAsides) /\ s.down \in Seq(RtmpChat)
                      /\ Len(s.got) = Len(s.served) /\ s.busy # "local"
  <1>1. s \in RtmpSessions /\ RtmpCallsAs(s) /\ RtmpFresh(s) /\ RtmpTurn(s) /\ RtmpStage(s)
    BY DEF RtmpGood
  <1>3. /\ s.requests = << >> /\ s.request = "finished" /\ s.pending = << >> /\ s.good
        /\ Len(s.made) = Len(s.served) + Len(s.requests)
        /\ s.made = RtmpFirst \/ s.made \in RtmpPlans
    BY <1>1 DEF RtmpTurn, RtmpCallsAs
  <1>4. s.op = "none" /\ ~RtmpSent(s) /\ s.status # "connectting"
    BY <1>1 DEF RtmpCallsAs, RtmpCalling, RtmpSent
  <1>5. s.proto = << >>
    BY <1>1 DEF RtmpFresh
  <1>6. s.link => RtmpUnsent(s)
    BY <1>1, <1>4 DEF RtmpStage, RtmpOnItsWay, RtmpHeld, RtmpAnswered
  <1>7. Len(s.made) = Len(s.served)
    <2>1. Len(s.served) \in Nat
      BY <1>1, LenProperties DEF RtmpSessions
    <2>2. Len(s.requests) = 0
      BY <1>3
    <2> QED BY <1>3, <2>1, <2>2
  <1> QED BY <1>1, <1>3, <1>4, <1>5, <1>6, <1>7 DEF RtmpUnsent

\* What is a session when its first request is sent.
LEMMA RtmpSendingIs ==
  ASSUME NEW x \in RtmpSessions, NEW u \in Seq(RtmpAsides \cup RtmpAsked)
  PROVE  [x EXCEPT !.up = u, !.request = "sending_req", !.op = "write", !.failed = FALSE]
            \in RtmpSessions
  BY StatesAre, ZenonT(40) DEF RtmpSessions

\* The user calls play or publish, whose requests are b.
RtmpAsking(s, c, b) ==
    [s EXCEPT !.call = c, !.request = "send_pending", !.requests = b, !.made = s.made \o b]

LEMMA RtmpAsks ==
  ASSUME NEW s, RtmpGood(s), s.call = "none", s.op = "none", s.shaken, Len(s.served) = 1,
         NEW b \in {RtmpPlays, RtmpPublishes}, NEW c \in {"play", "publish"}
  PROVE  RtmpGood(Rtmp!Send(RtmpAsking(s, c, b)))
  <1> DEFINE x == RtmpAsking(s, c, b)
  <1> HIDE DEF x
  <1> SUFFICES RtmpGood(Rtmp!Send(x))
    BY DEF x
  <1>1. /\ s \in RtmpSessions /\ ~s.failed /\ RtmpPast(s) /\ RtmpCallsAs(s)
        /\ RtmpFresh(s) /\ RtmpServes(s)
    BY DEF RtmpGood
  <1>3. /\ s.requests = << >> /\ s.request = "finished" /\ s.pending = << >> /\ s.good
        /\ s.status # "connectting" /\ Len(s.made) = Len(s.served)
        /\ s.made = RtmpFirst \/ s.made \in RtmpPlans
        /\ s.proto = << >>
        /\ s.link => s.up \in Seq(RtmpAsides) /\ s.down \in Seq(RtmpChat)
                     /\ Len(s.got) = Len(s.served) /\ s.busy # "local"
    BY RtmpIdle
  <1>4. s.made = RtmpFirst
    <2>1. \A p \in RtmpPlans : Len(p) = 3
      BY RtmpPlanIs
    <2> QED BY <1>3, <2>1
  <1>5. ~s.reading
    BY <1>1, <1>3 DEF RtmpFresh
  <1>6. PICK p \in RtmpPlans : s.made \o b = p /\ \A i \in 1..2 : b[i] = p[1 + i]
    BY <1>4, RtmpPlanJoins
  <1>7. /\ p \in Seq(RtmpAsked) /\ Len(p) = 3 /\ p[1] = RtmpFirst[1] /\ Len(RtmpFirst) = 1
        /\ b \in Seq(RtmpAsked) /\ Len(b) = 2 /\ b # << >>
    BY RtmpPlanIs
  <1>8. x = [s EXCEPT !.call = c, !.request = "send_pending", !.requests = b, !.made = p]
    BY <1>6 DEF x, RtmpAsking
  <1> c \in UserCalls
    BY StatesAre
  <1>14. s \in RtmpSessions /\ p \in Seq(RtmpAsked) /\ b \in Seq(RtmpAsked) /\ c \in UserCalls
    BY <1>1, <1>7
  <1>9. x \in RtmpSessions
    BY <1>8, <1>14, StatesAre, ZenonT(40) DEF RtmpSessions
  <1>10. /\ x.mode = s.mode /\ x.status = s.status /\ x.request = "send_pending" /\ x.requests = b
         /\ x.proto = s.proto /\ x.op = s.op /\ x.pending = s.pending /\ x.call = c /\ x.made = p
         /\ x.served = s.served /\ x.good = s.good /\ x.reading = s.reading /\ x.seen = s.seen
         /\ x.acked = s.acked /\ x.asked = s.asked /\ x.replied = s.replied /\ x.link = s.link
         /\ x.shaken = s.shaken /\ x.up = s.up /\ x.down = s.down /\ x.busy = s.busy
         /\ x.current = s.current /\ x.window = s.window /\ x.got = s.got
         /\ x.finished = s.finished /\ x.strays = s.strays /\ x.tries = s.tries
         /\ x.failed = s.failed
    BY <1>8, <1>14, StatesAre DEF RtmpSessions
  <1>11. ASSUME NEW q \in RtmpSessions, ~q.failed, q.mode = s.mode, q.status = s.status, q.call = c,
                q.requests = b, q.made = p, q.served = s.served, q.proto = s.proto,
                q.pending = << >>, q.asked = s.asked, q.replied = s.replied,
                q.reading = s.reading, q.good, q.shaken, q.link = s.link, q.down = s.down,
                q.request # "finished", s.link => RtmpOnItsWay(q),
                RtmpServerAs(q, s), q.op = "write"
         PROVE  RtmpGood(q)
    <2>1. c # "none" /\ c # "failed" /\ c # "connect"
      OBVIOUS
    <2>2. RtmpCallsAs(q)
      BY <1>1, <1>3, <1>7, <1>11, <2>1 DEF RtmpCallsAs, RtmpCalling
    <2>3. RtmpFresh(q)
      BY <1>5, <1>11, <2>1 DEF RtmpFresh
    <2>5. RtmpServes(q)
      BY <1>1, <1>11, RtmpServesKept
    <2>6. RtmpPast(q)
      <3>1. PICK n \in Nat : n = Len(s.got) /\ n <= 1
        <4>1. s.got \in Seq(RtmpAsked) /\ Len(s.got) <= Len(s.made) /\ Len(s.made) = 1
          BY <1>1, <1>4, <1>7 DEF RtmpPast, RtmpSessions
        <4> QED BY <4>1, LenProperties
      <3>2. n <= 3 /\ n <= 1 + 1 /\ \A i \in 1..n : i = 1
        BY <3>1
      <3>3. \A i \in 1..n : s.got[i] = p[i]
        BY <1>1, <1>4, <1>7, <3>1, <3>2 DEF RtmpPast
      <3>4. q.got = s.got
        BY <1>11 DEF RtmpServerAs
      <3>5. Len(q.got) <= Len(q.made) /\ Len(q.got) <= Len(q.served) + 1
        BY <1>7, <1>11, <3>1, <3>2, <3>4
      <3>6. \A i \in 1..Len(q.got) : q.got[i] = q.made[i]
        BY <1>11, <3>1, <3>3, <3>4
      <3> QED BY <1>1, <1>11, <3>5, <3>6 DEF RtmpPast
    <2>7. RtmpTurn(q)
      <3>1. Len(q.made) = 3 /\ Len(q.served) = 1 /\ Len(q.requests) = 2
        BY <1>7, <1>11
      <3>2. Len(q.made) = Len(q.served) + Len(q.requests) /\ Len(q.served) >= 1
        BY <3>1
      <3>3. \A i \in 1..Len(q.requests) : q.requests[i] = q.made[Len(q.served) + i]
        BY <1>6, <1>11, <3>1, ZenonT(40)
      <3> QED BY <1>7, <1>11, <2>1, <3>2, <3>3 DEF RtmpTurn
    <2>8. RtmpStage(q)
      BY <1>11, <2>1 DEF RtmpStage
    <2> QED BY <1>11, <2>2, <2>3, <2>5, <2>6, <2>7, <2>8 DEF RtmpGood
  <1>20. x.pending = << >> /\ x.requests # << >> /\ ~x.failed
    BY <1>1, <1>3, <1>7, <1>10
  <1>21. PICK u \in Seq(RtmpAsides \cup RtmpAsked) :
           /\ Rtmp!Send(x) = [x EXCEPT !.up = u, !.request = "sending_req",
                                       !.op = "write", !.failed = FALSE]
           /\ u = Append(x.up, x.requests[1])
    BY <1>9, <1>20, RtmpSend
  <1> DEFINE q == [x EXCEPT !.up = u, !.request = "sending_req", !.op = "write", !.failed = FALSE]
  <1>22. q \in RtmpSessions
    BY <1>9, RtmpSendingIs
  <1>23. /\ q.mode = x.mode /\ q.status = x.status /\ q.request = "sending_req"
        /\ q.requests = x.requests /\ q.proto = x.proto /\ q.op = "write"
        /\ q.pending = x.pending /\ q.call = x.call /\ q.made = x.made /\ q.served = x.served
        /\ q.good = x.good /\ q.reading = x.reading /\ q.seen = x.seen /\ q.acked = x.acked
        /\ q.asked = x.asked /\ q.replied = x.replied /\ q.link = x.link /\ q.shaken = x.shaken
        /\ q.up = u /\ q.down = x.down /\ q.busy = x.busy /\ q.current = x.current
        /\ q.window = x.window /\ q.got = x.got /\ q.finished = x.finished
        /\ q.strays = x.strays /\ q.tries = x.tries /\ q.failed = FALSE
    BY <1>9 DEF RtmpSessions
  <1> HIDE DEF q
  <1>24. ASSUME s.link PROVE RtmpOnItsWay(q)
    <2>1. s.up \in Seq(RtmpAsides) /\ b[1] \in {b[1]} /\ u = Append(s.up, b[1])
      BY <1>3, <1>10, <1>21, <1>24
    <2>2. OneOf(u, RtmpAsides, {b[1]})
      BY <2>1, OneIsPut
    <2>3. /\ q.op = "write" /\ q.up = u /\ q.requests = b /\ q.got = s.got
          /\ q.served = s.served /\ q.down = s.down /\ q.busy = s.busy
      BY <1>10, <1>23
    <2> QED BY <1>3, <1>24, <2>2, <2>3 DEF RtmpOnItsWay, RtmpSent
  <1>25. RtmpServerAs(q, s)
    BY <1>10, <1>23 DEF RtmpServerAs
  <1>26. /\ ~q.failed /\ q.mode = s.mode /\ q.status = s.status /\ q.call = c
        /\ q.requests = b /\ q.made = p /\ q.served = s.served /\ q.proto = s.proto
        /\ q.pending = << >> /\ q.asked = s.asked /\ q.replied = s.replied
        /\ q.reading = s.reading /\ q.good /\ q.shaken /\ q.link = s.link /\ q.down = s.down
        /\ q.request # "finished" /\ q.op = "write"
    BY <1>3, <1>10, <1>23
  <1>27. RtmpGood(q)
    BY <1>11, <1>22, <1>24, <1>25, <1>26
  <1> QED BY <1>21, <1>27 DEF q

LEMMA RtmpPlay ==
  ASSUME RtmpGood(rtmp), Rtmp!play
  PROVE  RtmpGood(rtmp')
  <1>1. rtmp \in RtmpSessions
    BY DEF RtmpGood
  <1>2. rtmp.call = "none" /\ rtmp.op = "none" /\ rtmp.shaken /\ Len(rtmp.served) = 1
    BY DEF Rtmp!play, Rtmp!Free, Rtmp!None
  <1> DEFINE x == [rtmp EXCEPT !.call = "play", !.request = "send_pending", !.requests = RtmpPlays,
                               !.made = rtmp.made \o RtmpPlays]
             y == Rtmp!make_play_requests([rtmp EXCEPT !.call = "play", !.request = "send_pending"])
  <1>4. y = x
    BY <1>1 DEF Rtmp!make_play_requests, RtmpPlays, RtmpSessions
  <1>5. x.mode = "async"
    BY <1>1 DEF RtmpSessions
  <1>3. rtmp' = Rtmp!Send(y)
    BY <1>1, <1>4, <1>5 DEF RtmpSessions, Rtmp!play, Rtmp!async_reqeust
  <1>6. RtmpGood(Rtmp!Send(x))
    <2> HIDE DEF y
    <2>1. RtmpGood(Rtmp!Send(RtmpAsking(rtmp, "play", RtmpPlays)))
      BY <1>2, RtmpAsks
    <2> QED BY <2>1 DEF RtmpAsking
  <1> HIDE DEF x, y
  <1> QED BY <1>3, <1>4, <1>6

LEMMA RtmpPublish ==
  ASSUME RtmpGood(rtmp), Rtmp!publish
  PROVE  RtmpGood(rtmp')
  <1>1. rtmp \in RtmpSessions
    BY DEF RtmpGood
  <1>2. rtmp.call = "none" /\ rtmp.op = "none" /\ rtmp.shaken /\ Len(rtmp.served) = 1
    BY DEF Rtmp!publish, Rtmp!Free, Rtmp!None
  <1> DEFINE x == [rtmp EXCEPT !.call = "publish", !.request = "send_pending", !.requests = RtmpPublishes,
                               !.made = rtmp.made \o RtmpPublishes]
             y == Rtmp!make_publish_requests([rtmp EXCEPT !.call = "publish", !.request = "send_pending"])
  <1>4. y = x
    BY <1>1 DEF Rtmp!make_publish_requests, RtmpPublishes, RtmpSessions
  <1>5. x.mode = "async"
    BY <1>1 DEF RtmpSessions
  <1>3. rtmp' = Rtmp!Send(y)
    BY <1>1, <1>4, <1>5 DEF RtmpSessions, Rtmp!publish, Rtmp!async_reqeust
  <1>6. RtmpGood(Rtmp!Send(x))
    <2> HIDE DEF y
    <2>1. RtmpGood(Rtmp!Send(RtmpAsking(rtmp, "publish", RtmpPublishes)))
      BY <1>2, RtmpAsks
    <2> QED BY <2>1 DEF RtmpAsking
  <1> HIDE DEF x, y
  <1> QED BY <1>3, <1>4, <1>6

\* Where the first request is once a message that does not answer it has left down as t.
RtmpAfter(s, t) ==
    \/ t \in Seq(RtmpChat) /\ (RtmpOnItsWay(s) \/ RtmpHeld(s))
    \/ OneOf(t, RtmpChat, RtmpAnswersTo(s.requests[1])) /\ RtmpAnswered(s)

\* The first message that comes while a request is answered is of the chat, or the answer
\* to the request.
LEMMA RtmpHead ==
  ASSUME NEW s, RtmpGood(s), s.link, s.call # "failed", RtmpSent(s), s.down # << >>,
         NEW m, m = Head(s.down), NEW t, t = Tail(s.down)
  PROVE  /\ t \in Seq(RtmpChat \cup RtmpAnswers)
         /\ \/ m[1] \in {"quiet", "asking", "other"} /\ RtmpAfter(s, t)
            \/ /\ m \in RtmpAnswersTo(s.requests[1]) /\ RtmpAnswered(s)
               /\ t \in Seq(RtmpChat)
  <1>1. s \in RtmpSessions /\ RtmpStage(s)
    BY DEF RtmpGood
  <1>2. RtmpOnItsWay(s) \/ RtmpHeld(s) \/ RtmpAnswered(s)
    BY <1>1 DEF RtmpStage, RtmpUnsent
  <1>3. s.down \in Seq(RtmpChat \cup RtmpAnswers)
    BY <1>1 DEF RtmpSessions
  <1>4. t \in Seq(RtmpChat \cup RtmpAnswers)
    BY <1>3, RestIsTaken
  <1>6. m \in RtmpChat => m[1] \in {"quiet", "asking", "other"}
    BY DEF RtmpChat
  <1>8. CASE s.down \in Seq(RtmpChat) /\ (RtmpOnItsWay(s) \/ RtmpHeld(s))
    <2>1. m \in RtmpChat /\ t \in Seq(RtmpChat)
      BY <1>8, RestIsTaken
    <2>2. RtmpAfter(s, t)
      BY <1>8, <2>1 DEF RtmpAfter
    <2> QED BY <1>4, <1>6, <2>1, <2>2
  <1>9. CASE RtmpAnswered(s)
    <2>1. \/ m \in RtmpChat /\ OneOf(t, RtmpChat, RtmpAnswersTo(s.requests[1]))
          \/ m \in RtmpAnswersTo(s.requests[1]) /\ t \in Seq(RtmpChat)
      BY <1>9, OneIsTaken DEF RtmpAnswered
    <2>2. CASE m \in RtmpChat /\ OneOf(t, RtmpChat, RtmpAnswersTo(s.requests[1]))
      <3>1. RtmpAfter(s, t)
        BY <1>9, <2>2 DEF RtmpAfter
      <3> QED BY <1>4, <1>6, <2>2, <3>1
    <2>3. CASE m \in RtmpAnswersTo(s.requests[1]) /\ t \in Seq(RtmpChat)
      BY <1>4, <1>9, <2>3
    <2> QED BY <2>1, <2>2, <2>3
  <1> QED BY <1>2, <1>8, <1>9 DEF RtmpOnItsWay, RtmpHeld

\* A message that does not answer the request is taken, and replied to as it asks.
LEMMA RtmpGoesOn ==
  ASSUME NEW s, RtmpGood(s), s.link, s.call # "failed", RtmpSent(s),
         NEW q \in RtmpSessions, ~q.failed, NEW t, q.down = t, RtmpAfter(s, t),
         NEW p \in Seq(RtmpAsides), q.up = s.up \o p,
         q.mode = s.mode, q.status = s.status, q.requests = s.requests,
         q.pending = s.pending, q.call = s.call, q.made = s.made, q.served = s.served,
         q.good = s.good, q.reading = s.reading, q.shaken = s.shaken,
         q.replied = q.asked,
         q.link = s.link, RtmpServerAs(q, s),
         \/ q.request = s.request /\ q.op = s.op
         \/ q.request = "sending_req" /\ q.op = "write" /\ s.op = "read"
  PROVE  RtmpGood(q)
  <1>1. /\ s \in RtmpSessions /\ RtmpCallsAs(s) /\ RtmpTurn(s)
        /\ RtmpPast(s) /\ RtmpFresh(s) /\ RtmpServes(s)
    BY DEF RtmpGood
  <1>2. s.shaken /\ s.call # "none"
    BY <1>1, RtmpSentCalls DEF RtmpCallsAs
  <1>3. RtmpCallsAs(q)
    BY <1>1 DEF RtmpCallsAs, RtmpCalling
  <1>4. RtmpFresh(q)
    BY <1>1, <1>2 DEF RtmpFresh, RtmpSent
  <1>5. RtmpSent(q)
    BY DEF RtmpSent, RtmpCalling
  <1>6. RtmpPast(q)
    BY <1>1 DEF RtmpPast, RtmpServerAs
  <1>7. RtmpServes(q)
    BY <1>1, RtmpServesKept
  <1>8. RtmpTurn(q)
    BY <1>1, <1>2 DEF RtmpTurn
  <1>10. RtmpOnItsWay(q) \/ RtmpHeld(q) \/ RtmpAnswered(q)
    <2>1. CASE t \in Seq(RtmpChat) /\ RtmpOnItsWay(s)
      <3>1. OneOf(q.up, RtmpAsides, {s.requests[1]})
        BY <2>1, OneIsFollowedBy DEF RtmpOnItsWay
      <3> QED BY <1>5, <2>1, <3>1 DEF RtmpOnItsWay, RtmpServerAs
    <2>2. CASE t \in Seq(RtmpChat) /\ RtmpHeld(s)
      <3>1. q.up \in Seq(RtmpAsides)
        BY <2>2, RestAreFollowed DEF RtmpHeld
      <3> QED BY <1>5, <2>2, <3>1 DEF RtmpHeld, RtmpServerAs
    <2>3. CASE OneOf(t, RtmpChat, RtmpAnswersTo(s.requests[1])) /\ RtmpAnswered(s)
      <3>1. q.up \in Seq(RtmpAsides)
        BY <2>3, RestAreFollowed DEF RtmpAnswered
      <3> QED BY <1>5, <2>3, <3>1 DEF RtmpAnswered, RtmpServerAs
    <2> QED BY <2>1, <2>2, <2>3 DEF RtmpAfter
  <1> QED BY <1>3, <1>4, <1>6, <1>7, <1>8, <1>10 DEF RtmpGood, RtmpStage

\* With one request more served, rest is what is left of those made.
RtmpOneMore(s, rest, served) ==
    /\ Len(served) = Len(s.served) + 1 /\ Len(s.made) = Len(served) + Len(rest)
    /\ \A i \in 1..Len(rest) : rest[i] = s.made[Len(served) + i]
    /\ \A i \in 1..Len(served) : served[i][1] = served[i][2]
    /\ s.made = RtmpFirst \/ (s.made \in RtmpPlans /\ Len(served) >= 1)

RtmpPopsTo(s, m, rest, served) ==
    \A x \in RtmpSessions :
        x.requests = s.requests /\ x.served = s.served /\ x.good = s.good =>
          Rtmp!Popped(x, m) =
            [x EXCEPT !.request = IF rest = << >> THEN "finished" ELSE "send_pending",
                      !.requests = rest, !.served = served, !.good = (m[1] # "error")]

\* What is left once the first request is answered by m.
LEMMA RtmpPops ==
  ASSUME NEW s, RtmpGood(s), s.shaken, s.call # "none", s.call # "failed",
         NEW f, f = s.requests[1], NEW k, NEW m, m = <<k, f>>
  PROVE  \E rest \in Seq(RtmpAsked), served \in Seq(RtmpAsked \X RtmpAsked) :
           RtmpPopsTo(s, m, rest, served) /\ RtmpOneMore(s, rest, served)
  <1>1. s \in RtmpSessions /\ RtmpTurn(s) /\ RtmpPast(s)
    BY DEF RtmpGood
  <1>2. /\ s.requests # << >> /\ Len(s.requests) \in Nat \ {0}
        /\ f \in RtmpAsked /\ Head(s.requests) = f /\ Len(s.served) \in Nat
        /\ Len(s.made) = Len(s.served) + Len(s.requests) /\ Len(s.made) \in Nat
    BY RtmpFront
  <1>3. /\ \A i \in 1..Len(s.requests) : s.requests[i] = s.made[Len(s.served) + i]
        /\ s.made = RtmpFirst \/ (s.made \in RtmpPlans /\ Len(s.served) >= 1)
        /\ s.good
    BY <1>1 DEF RtmpTurn
  <1>4. s.requests \in Seq(RtmpAsked) /\ s.served \in Seq(RtmpAsked \X RtmpAsked)
    BY <1>1 DEF RtmpSessions
  <1>5. PICK rest \in Seq(RtmpAsked) :
          /\ rest = Tail(s.requests) /\ Len(rest) = Len(s.requests) - 1
          /\ \A i \in 1..Len(rest) : rest[i] = s.requests[i + 1]
    BY <1>2, <1>4, HeadTailProperties
  <1> DEFINE p == <<f, f>>
             P == RtmpAsked \X RtmpAsked
  <1>6. p \in P /\ p[1] = p[2]
    BY <1>2
  <1>17. s.served \in Seq(P)
    BY <1>4
  <1> HIDE DEF p, P
  <1>7. PICK served \in Seq(P) :
          /\ served = Append(s.served, p) /\ Len(served) = Len(s.served) + 1
          /\ \A i \in 1..Len(s.served) : served[i] = s.served[i]
          /\ served[Len(s.served) + 1] = p
    <2> DEFINE v == Append(s.served, p)
    <2>1. v \in Seq(P) /\ Len(v) = Len(s.served) + 1
      BY <1>6, <1>17, AppendProperties
    <2>2. \A i \in 1..Len(s.served) : v[i] = s.served[i]
      BY <1>6, <1>17, AppendProperties
    <2>3. v[Len(s.served) + 1] = p
      BY <1>6, <1>17, AppendProperties
    <2> HIDE DEF v
    <2>4. v = Append(s.served, p)
      BY DEF v
    <2> QED BY <2>1, <2>2, <2>3, <2>4
  <1>8. PICK a, b, c \in Nat : /\ a = Len(s.made) /\ b = Len(s.served) /\ c = Len(s.requests)
                               /\ c # 0 /\ a = b + c
    BY <1>2
  <1>9. Len(rest) = c - 1 /\ Len(served) = b + 1
    BY <1>5, <1>7, <1>8
  <1>18. a = b + c /\ c # 0
    BY <1>8
  <1>19. a = (b + 1) + (c - 1)
    BY <1>18
  <1>10. Len(s.made) = Len(served) + Len(rest)
    BY <1>8, <1>9, <1>19
  <1>11. \A i \in 1..Len(rest) : rest[i] = s.made[Len(served) + i]
    <2> SUFFICES ASSUME NEW i \in 1..(c - 1) PROVE rest[i] = s.made[(b + 1) + i]
      BY <1>9
    <2>1. i + 1 \in 1..c /\ b + (i + 1) = (b + 1) + i
      BY <1>18
    <2>2. rest[i] = s.requests[i + 1]
      BY <1>5, <1>9
    <2>3. s.requests[i + 1] = s.made[b + (i + 1)]
      BY <1>3, <1>8, <2>1
    <2> QED BY <2>1, <2>2, <2>3
  <1>12. \A i \in 1..Len(served) : served[i][1] = served[i][2]
    <2> SUFFICES ASSUME NEW i \in 1..(b + 1) PROVE served[i][1] = served[i][2]
      BY <1>9
    <2>1. CASE i = b + 1
      BY <1>6, <1>7, <1>8, <2>1
    <2>2. CASE i # b + 1
      <3>1. i \in 1..b
        BY <2>2
      <3>2. s.served[i][1] = s.served[i][2]
        BY <1>1, <1>8, <3>1 DEF RtmpPast
      <3> QED BY <1>7, <1>8, <3>1, <3>2
    <2> QED BY <2>1, <2>2
  <1>13. s.made = RtmpFirst \/ (s.made \in RtmpPlans /\ Len(served) >= 1)
    <2>1. b + 1 >= 1
      OBVIOUS
    <2> QED BY <1>3, <1>9, <2>1
  <1>14. Len(s.requests) = 1 <=> rest = << >>
    <2>1. rest = << >> <=> Len(rest) = 0
      BY EmptySeq
    <2>2. c = 1 <=> c - 1 = 0
      BY <1>18
    <2> QED BY <1>8, <1>9, <2>1, <2>2
  <1>15. <<Head(s.requests), m[2]>> = p /\ m[1] = k
    BY <1>2 DEF p
  <1>20. ASSUME NEW x \in RtmpSessions, x.requests = s.requests, x.served = s.served, x.good = s.good
         PROVE  Rtmp!Popped(x, m) =
                  [x EXCEPT !.request = IF rest = << >> THEN "finished" ELSE "send_pending",
                            !.requests = rest, !.served = served, !.good = (k # "error")]
    <2>1. x.good = TRUE
      BY <1>1, <1>3, <1>20 DEF RtmpSessions
    <2>2. (Len(x.requests) = 1 <=> rest = << >>) /\ Tail(x.requests) = rest
      BY <1>5, <1>14, <1>20
    <2>3. Append(x.served, <<Head(x.requests), m[2]>>) = served
      BY <1>7, <1>15, <1>20
    <2>4. (x.good /\ m[1] # "error") = (k # "error")
      BY <1>15, <2>1
    <2> QED BY <1>20, <2>2, <2>3, <2>4 DEF Rtmp!Popped, RtmpSessions
  <1>21. RtmpPopsTo(s, m, rest, served)
    BY <1>15, <1>20 DEF RtmpPopsTo
  <1>22. RtmpOneMore(s, rest, served)
    BY <1>7, <1>10, <1>11, <1>12, <1>13 DEF RtmpOneMore
  <1> QED BY <1>5, <1>7, <1>21, <1>22 DEF P

\* The first request is answered well: the client is done, or goes on to the next.
LEMMA RtmpGoesTo ==
  ASSUME NEW s, RtmpGood(s), s.link, s.call # "failed", RtmpSent(s), RtmpAnswered(s),
         s.pending = << >>,
         NEW t \in Seq(RtmpChat), NEW rest \in Seq(RtmpAsked), NEW served,
         RtmpOneMore(s, rest, served), NEW q \in RtmpSessions, ~q.failed, q.down = t, q.requests = rest, q.served = served,
         q.mode = s.mode, q.status = s.status \/ q.status = "established",
         q.pending = << >>, q.made = s.made, q.good, q.reading = s.reading, q.shaken = s.shaken,
         q.proto = << >>,
         q.replied = s.replied, q.asked = s.asked, q.link = s.link, RtmpServerAs(q, s),
         \/ rest = << >> /\ q.call = "none" /\ q.request = "finished" /\ q.op = "none" /\ q.up = s.up
         \/ /\ rest # << >> /\ q.call = s.call /\ q.request = "sending_req"
            /\ q.op = "write" /\ q.up = Append(s.up, rest[1])
  PROVE  RtmpGood(q)
  <1> /\ Len(served) = Len(s.served) + 1 /\ Len(s.made) = Len(served) + Len(rest)
      /\ \A i \in 1..Len(rest) : rest[i] = s.made[Len(served) + i]
      /\ \A i \in 1..Len(served) : served[i][1] = served[i][2]
      /\ s.made = RtmpFirst \/ (s.made \in RtmpPlans /\ Len(served) >= 1)
    BY DEF RtmpOneMore
  <1>1. /\ s \in RtmpSessions /\ RtmpCallsAs(s) /\ RtmpTurn(s) /\ RtmpPast(s) /\ RtmpFresh(s)
        /\ RtmpServes(s)
    BY DEF RtmpGood
  <1>3. /\ RtmpCalling(s) /\ s.call # "none" /\ s.shaken
        /\ s.status # "closed" /\ s.status # "connectting"
    BY <1>1, RtmpSentCalls DEF RtmpCallsAs, RtmpCalling
  <1>4. ~s.reading
    BY <1>1 DEF RtmpFresh, RtmpSent
  <1>5. RtmpCallsAs(q)
    BY <1>1, <1>3 DEF RtmpCallsAs, RtmpCalling
  <1>6. RtmpFresh(q)
    BY <1>3, <1>4 DEF RtmpFresh
  <1>7. Len(s.got) = Len(served)
    BY DEF RtmpAnswered
  <1>8. Len(s.served) \in Nat /\ Len(served) \in Nat
    <2>1. Len(s.served) \in Nat
      BY <1>1, LenProperties DEF RtmpSessions
    <2> QED BY <2>1
  <1>9. RtmpPast(q)
    <2>1. Len(q.got) <= Len(q.served) + 1
      BY <1>7, <1>8 DEF RtmpServerAs
    <2> QED BY <1>1, <2>1 DEF RtmpPast, RtmpServerAs
  <1>10. RtmpServes(q)
    BY <1>1, RtmpServesKept
  <1>12. RtmpTurn(q)
    <2>1. (q.requests = << >>) <=> (q.call = "none")
      BY <1>3
    <2>2. (q.call = "none") <=> (q.request = "finished")
      BY <1>3
    <2> QED BY <2>1, <2>2 DEF RtmpTurn
  <1>13. /\ s.up \in Seq(RtmpAsides) /\ q.busy # "local" /\ Len(q.got) = Len(q.served)
         /\ q.down \in Seq(RtmpChat)
    BY <1>7 DEF RtmpAnswered, RtmpServerAs
  <1>14. RtmpUnsent(q) \/ RtmpOnItsWay(q)
    <2>1. CASE q.up = s.up /\ q.op = "none"
      BY <1>13, <2>1 DEF RtmpUnsent, RtmpSent
    <2>2. CASE q.op = "write" /\ q.up = Append(s.up, rest[1])
      <3>1. rest[1] \in {rest[1]}
        OBVIOUS
      <3>2. OneOf(q.up, RtmpAsides, {rest[1]})
        BY <1>13, <2>2, <3>1, OneIsPut
      <3> QED BY <1>13, <2>2, <3>2 DEF RtmpOnItsWay, RtmpSent
    <2> QED BY <2>1, <2>2
  <1>15. q.call # "failed"
    OBVIOUS
  <1> QED BY <1>5, <1>6, <1>9, <1>10, <1>12, <1>14, <1>15 DEF RtmpGood, RtmpStage

\* The first request is answered with an error: the call fails.
LEMMA RtmpErrs ==
  ASSUME NEW s, RtmpGood(s), s.link, s.call # "failed", RtmpSent(s), RtmpAnswered(s),
         NEW q \in RtmpSessions, ~q.failed, NEW served, q.served = served,
         Len(served) = Len(s.served) + 1,
         \A i \in 1..Len(served) : served[i][1] = served[i][2],
         NEW t, q.down = t,
         q.mode = s.mode, q.op = "none",
         q.status = s.status \/ q.status = "broken", q.call = "failed",
         q.pending = s.pending, q.made = s.made, q.reading = s.reading, q.shaken = s.shaken,
         q.replied = s.replied, q.asked = s.asked, q.link = s.link, q.up = s.up, RtmpServerAs(q, s)
  PROVE  RtmpGood(q)
  <1>1. /\ s \in RtmpSessions /\ RtmpCallsAs(s) /\ RtmpPast(s) /\ RtmpFresh(s) /\ RtmpServes(s)
       
    BY DEF RtmpGood
  <1>3. s.shaken
    BY <1>1 DEF RtmpCallsAs
  <1>4. RtmpCallsAs(q)
    BY <1>1 DEF RtmpCallsAs, RtmpCalling
  <1>5. RtmpFresh(q)
    BY <1>1, <1>3 DEF RtmpFresh
  <1>6. RtmpPast(q)
    <2>1. Len(s.got) = Len(served) /\ Len(served) \in Nat
      <3>1. Len(s.served) \in Nat
        BY <1>1, LenProperties DEF RtmpSessions
      <3> QED BY <3>1 DEF RtmpAnswered
    <2>2. Len(q.got) <= Len(q.served) + 1
      BY <2>1 DEF RtmpServerAs
    <2> QED BY <1>1, <2>2 DEF RtmpPast, RtmpServerAs
  <1>7. RtmpServes(q)
    BY <1>1, RtmpServesKept
  <1>9. q.up \in Seq(RtmpAsides) /\ q.busy # "local"
    BY DEF RtmpAnswered, RtmpServerAs
  <1> QED BY <1>4, <1>5, <1>6, <1>7, <1>9 DEF RtmpGood, RtmpTurn, RtmpStage

\* The client takes m, to which p are the replies.
RtmpReadsTo(s, m, t, n, a, p) ==
    /\ Rtmp!Read(s) = [s EXCEPT !.down = t, !.seen = n, !.asked = a]
    /\ p = Rtmp!Replies(m) /\ (m[1] = "asking" => p = <<"reply">>)
    /\ m[1] # "asking" => p = << >>
    /\ p \in Seq(RtmpAsides) /\ p \in Seq(RtmpAsides \cup RtmpAsked)
    /\ a = s.asked + RtmpReplies(p) /\ RtmpReplies(p) = Len(p) /\ Len(p) \in Nat

\* What the client makes of a message, by what it is.
LEMMA RtmpPost ==
  ASSUME NEW f \in RtmpAsked, NEW m
  PROVE  /\ Rtmp!process_protocol_message(m) <=> m[1] \in {"quiet", "asking"}
         /\ m[1] = "other" => /\ ~Rtmp!post_response(f, m).asserted
                              /\ ~Rtmp!post_response(f, m).done
         /\ m \in RtmpAnswersTo(f) =>
              /\ m[1] # "quiet" /\ m[1] # "asking" /\ m = <<m[1], f>>
              /\ ~Rtmp!post_response(f, m).asserted /\ Rtmp!post_response(f, m).done
              /\ (Rtmp!post_response(f, m).ok <=> m[1] # "error")
  <1>1. Rtmp!process_protocol_message(m) <=> m[1] \in {"quiet", "asking"}
    BY DEF Rtmp!process_protocol_message
  <1>2. ASSUME m[1] = "other"
        PROVE  ~Rtmp!post_response(f, m).asserted /\ ~Rtmp!post_response(f, m).done
    <2>1. <<f, "other">> \notin {<<"play", "playing">>, <<"publish", "publishing">>}
      OBVIOUS
    <2> QED BY <1>2, <2>1 DEF Rtmp!post_response
  <1>3. ASSUME m \in RtmpAnswersTo(f)
        PROVE  /\ m[1] # "quiet" /\ m[1] # "asking" /\ m = <<m[1], f>>
               /\ ~Rtmp!post_response(f, m).asserted /\ Rtmp!post_response(f, m).done
               /\ (Rtmp!post_response(f, m).ok <=> m[1] # "error")
    <2>1. PICK k \in {"error", RtmpWell(f)} : m = <<k, f>>
      BY <1>3 DEF RtmpAnswersTo
    <2>2. m[1] = k /\ m = <<m[1], f>>
      BY <2>1
    <2>3. \/ k = "error" \/ k = "answer"
          \/ k = "playing" /\ f = "play"
          \/ k = "publishing" /\ f = "publish"
      BY <2>1 DEF RtmpWell
    <2>4. k \in {"answer", "error"} \/ <<f, k>> \in {<<"play", "playing">>, <<"publish", "publishing">>}
      BY <2>3
    <2>5. k # "data" /\ k # "quiet" /\ k # "asking"
      BY <2>3
    <2>6. /\ Rtmp!post_response(f, m).done /\ ~Rtmp!post_response(f, m).asserted
          /\ (Rtmp!post_response(f, m).ok <=> k # "error")
      BY <2>2, <2>4, <2>5 DEF Rtmp!post_response
    <2> QED BY <2>2, <2>5, <2>6
  <1> QED BY <1>1, <1>2, <1>3

\* The replies to a message of the chat are all that is asked for.
LEMMA RtmpRepliesTo ==
  ASSUME NEW s \in RtmpSessions, NEW m, m = Head(s.down),
         NEW t \in Seq(RtmpChat \cup RtmpAnswers), t = Tail(s.down)
  PROVE  \E n \in Nat, a \in Nat, p \in Seq({"reply"}) : RtmpReadsTo(s, m, t, n, a, p)
  <1>1. s.asked \in Nat /\ s.seen \in Nat
    BY DEF RtmpSessions
  <1>2. /\ <<"reply">> \in Seq({"reply"}) /\ << >> \in Seq({"reply"})
        /\ <<"reply">> \in Seq(RtmpAsides) /\ << >> \in Seq(RtmpAsides)
        /\ <<"reply">> \in Seq(RtmpAsides \cup RtmpAsked) /\ << >> \in Seq(RtmpAsides \cup RtmpAsked)
        /\ Len(<<"reply">>) = 1 /\ Len(<< >>) = 0
    BY DEF RtmpAsides
  <1>3. RtmpReplies(<<"reply">>) = 1 /\ RtmpReplies(<< >>) = 0
    BY RtmpCounts
  <1>4. PICK p \in Seq({"reply"}) :
          /\ m[1] = "asking" => p = <<"reply">>
          /\ m[1] # "asking" => p = << >>
    BY <1>2
  <1>5. p = Rtmp!Replies(m)
    BY <1>4 DEF Rtmp!Replies
  <1>6. /\ p \in Seq(RtmpAsides) /\ p \in Seq(RtmpAsides \cup RtmpAsked)
        /\ Len(p) \in Nat /\ RtmpReplies(p) = Len(p)
    <2>1. CASE p = <<"reply">>
      BY <1>2, <1>3, <2>1
    <2>2. CASE p = << >>
      BY <1>2, <1>3, <2>2
    <2> QED BY <1>4, <2>1, <2>2
  <1>7. PICK n \in Nat, a \in Nat : n = s.seen + 1 /\ a = s.asked + Len(p)
    BY <1>1, <1>6
  <1>8. Rtmp!Read(s) = [s EXCEPT !.down = t, !.seen = n, !.asked = a]
    BY <1>5, <1>7 DEF Rtmp!Read, RtmpSessions
  <1>9. RtmpReadsTo(s, m, t, n, a, p)
    BY <1>4, <1>5, <1>6, <1>7, <1>8 DEF RtmpReadsTo
  <1> QED BY <1>9

\* The client reads a message while its first request is answered.
LEMMA RtmpReceived ==
  ASSUME NEW s, RtmpGood(s), s.link, s.op = "read", s.down # << >>
  PROVE  RtmpGood(Rtmp!Received(s))
  <1>1. /\ s \in RtmpSessions /\ s.failed = FALSE /\ RtmpCallsAs(s)
        /\ s.replied = s.asked /\ s.asked \in Nat /\ RtmpSent(s) /\ s.shaken
    BY DEF RtmpGood, RtmpSent, RtmpPast, RtmpCallsAs, RtmpSessions
  <1>2. s.call # "none" /\ s.call # "failed" /\ s.pending = << >>
    BY <1>1, RtmpSentCalls DEF RtmpCallsAs
  <1>3. PICK m, t, f : m = Head(s.down) /\ t = Tail(s.down) /\ f = s.requests[1]
    OBVIOUS
  <1>4. s.requests # << >> /\ Head(s.requests) = f /\ f \in RtmpAsked
    BY <1>1, <1>2, <1>3, RtmpFront
  <1>5. /\ t \in Seq(RtmpChat \cup RtmpAnswers)
        /\ \/ m[1] \in {"quiet", "asking", "other"} /\ RtmpAfter(s, t)
           \/ m \in RtmpAnswersTo(f) /\ RtmpAnswered(s) /\ t \in Seq(RtmpChat)
    BY <1>1, <1>2, <1>3, RtmpHead
  <1>15. PICK n \in Nat, a \in Nat, p \in Seq({"reply"}) : RtmpReadsTo(s, m, t, n, a, p)
    BY <1>1, <1>3, <1>5, RtmpRepliesTo
  <1>6. /\ p = Rtmp!Replies(m) /\ (m[1] # "asking" => p = << >>)
        /\ p \in Seq(RtmpAsides) /\ p \in Seq(RtmpAsides \cup RtmpAsked)
        /\ Rtmp!Read(s) = [s EXCEPT !.down = t, !.seen = n, !.asked = a]
        /\ a = s.asked + RtmpReplies(p) /\ RtmpReplies(p) = Len(p) /\ Len(p) \in Nat
    BY <1>15 DEF RtmpReadsTo
  <1> DEFINE r == [s EXCEPT !.down = t, !.seen = n, !.asked = a]
  <1>7. Rtmp!Read(s) = r
    BY <1>6
  <1>8. r \in RtmpSessions
    BY <1>1, <1>5, StatesAre DEF RtmpSessions
  <1>9. /\ r.mode = s.mode /\ r.status = s.status /\ r.request = s.request
        /\ r.requests = s.requests /\ r.proto = s.proto /\ r.op = s.op /\ r.pending = s.pending
        /\ r.call = s.call /\ r.made = s.made /\ r.served = s.served /\ r.good = s.good
        /\ r.reading = s.reading /\ r.seen = n /\ r.acked = s.acked /\ r.asked = a
        /\ r.replied = s.replied /\ r.link = s.link /\ r.shaken = s.shaken /\ r.up = s.up
        /\ r.down = t /\ r.busy = s.busy /\ r.current = s.current /\ r.window = s.window
        /\ r.got = s.got /\ r.finished = s.finished /\ r.strays = s.strays /\ r.tries = s.tries
        /\ r.failed = s.failed
    BY <1>1 DEF RtmpSessions
  <1> HIDE DEF r
  <1>10. << >> \in Seq({"reply"}) /\ << >> \in Seq(RtmpAsides) /\ << >> \in Seq(RtmpAsked)
    BY EmptySeq
  <1>11. s.up \in Seq(RtmpAsides \cup RtmpAsked)
    BY <1>1 DEF RtmpSessions
  <1>12. CASE m[1] \in {"quiet", "asking"} /\ RtmpAfter(s, t)
    <2>1. PICK w \in Nat, u \in Seq(RtmpAsides \cup RtmpAsked) :
             /\ Rtmp!Write(r, p) = [r EXCEPT !.up = u, !.replied = w]
             /\ u = r.up \o p /\ w = r.replied + RtmpReplies(p)
      BY <1>6, <1>8, RtmpWrites
    <2> DEFINE q == [r EXCEPT !.up = u, !.replied = w, !.proto = p, !.request = "sending_req", !.op = "write"]
    <2>2. Rtmp!Received(s) = [Rtmp!Write(r, p) EXCEPT !.proto = p, !.request = "sending_req", !.op = "write"]
      BY <1>3, <1>4, <1>6, <1>7, <1>12, RtmpPost DEF Rtmp!Received
    <2>3. Rtmp!Received(s) = q
      BY <1>8, <2>1, <2>2 DEF RtmpSessions
    <2>4. q \in RtmpSessions
      BY <1>8, StatesAre DEF RtmpSessions
    <2>5. /\ q.mode = r.mode /\ q.status = r.status /\ q.request = "sending_req"
          /\ q.requests = r.requests /\ q.proto = p /\ q.op = "write" /\ q.pending = r.pending
          /\ q.call = r.call /\ q.made = r.made /\ q.served = r.served /\ q.good = r.good
          /\ q.reading = r.reading /\ q.seen = r.seen /\ q.acked = r.acked /\ q.asked = r.asked
          /\ q.replied = w /\ q.link = r.link /\ q.shaken = r.shaken /\ q.up = u
          /\ q.down = r.down /\ q.busy = r.busy /\ q.current = r.current /\ q.window = r.window
          /\ q.got = r.got /\ q.finished = r.finished /\ q.strays = r.strays /\ q.tries = r.tries
          /\ q.failed = r.failed
      BY <1>8 DEF RtmpSessions
    <2> HIDE DEF q
    <2>6. RtmpServerAs(q, s)
      BY <1>9, <2>5 DEF RtmpServerAs
    <2>7. q.replied = q.asked /\ q.replied \in Nat
      <3>1. q.replied = s.replied + Len(p) /\ q.asked = s.asked + Len(p)
        BY <1>6, <1>9, <2>1, <2>5
      <3> QED BY <1>1, <2>1, <2>5, <3>1
    <2>8. /\ ~q.failed /\ q.down = t /\ q.up = s.up \o p
          /\ q.mode = s.mode /\ q.status = s.status /\ q.requests = s.requests
          /\ q.pending = s.pending /\ q.call = s.call /\ q.made = s.made /\ q.served = s.served
          /\ q.good = s.good /\ q.reading = s.reading /\ q.shaken = s.shaken
          /\ q.link = s.link /\ q.request = "sending_req" /\ q.op = "write"
          /\ q.replied >= q.asked
      BY <1>1, <1>9, <2>1, <2>5, <2>7
    <2>9. RtmpGood(q)
      BY <1>1, <1>2, <1>6, <1>12, <2>4, <2>6, <2>7, <2>8, RtmpGoesOn
    <2> QED BY <2>3, <2>9
  <1>13. CASE m[1] = "other" /\ RtmpAfter(s, t)
    <2> DEFINE q == [r EXCEPT !.proto = << >>]
    <2>1. Rtmp!Received(s) = q
      BY <1>3, <1>4, <1>7, <1>13, RtmpPost DEF Rtmp!Received
    <2>2. q \in RtmpSessions
      BY <1>8, <1>10, StatesAre DEF RtmpSessions
    <2>3. /\ q.mode = r.mode /\ q.status = r.status /\ q.request = r.request
          /\ q.requests = r.requests /\ q.proto = << >> /\ q.op = r.op /\ q.pending = r.pending
          /\ q.call = r.call /\ q.made = r.made /\ q.served = r.served /\ q.good = r.good
          /\ q.reading = r.reading /\ q.seen = r.seen /\ q.acked = r.acked /\ q.asked = r.asked
          /\ q.replied = r.replied /\ q.link = r.link /\ q.shaken = r.shaken /\ q.up = r.up
          /\ q.down = r.down /\ q.busy = r.busy /\ q.current = r.current /\ q.window = r.window
          /\ q.got = r.got /\ q.finished = r.finished /\ q.strays = r.strays /\ q.tries = r.tries
          /\ q.failed = r.failed
      BY <1>8 DEF RtmpSessions
    <2> HIDE DEF q
    <2>4. RtmpServerAs(q, s)
      BY <1>9, <2>3 DEF RtmpServerAs
    <2>5. s.up \o << >> = s.up
      BY <1>11, ConcatEmptySeq
    <2>6. q.replied = q.asked /\ q.replied >= q.asked
      <3>1. p = << >> /\ Len(<< >>) = 0
        BY <1>6, <1>13
      <3>2. a = s.asked
        BY <1>1, <1>6, <3>1
      <3> QED BY <1>1, <1>9, <2>3, <3>2
    <2>7. /\ ~q.failed /\ q.down = t /\ q.up = s.up \o << >>
          /\ q.mode = s.mode /\ q.status = s.status /\ q.requests = s.requests
          /\ q.pending = s.pending /\ q.call = s.call /\ q.made = s.made /\ q.served = s.served
          /\ q.good = s.good /\ q.reading = s.reading /\ q.shaken = s.shaken
          /\ q.link = s.link /\ q.request = s.request /\ q.op = s.op
      BY <1>1, <1>9, <2>3, <2>5
    <2>8. RtmpGood(q)
      BY <1>1, <1>2, <1>10, <1>13, <2>2, <2>4, <2>6, <2>7, RtmpGoesOn
    <2> QED BY <2>1, <2>8
  <1>14. CASE m \in RtmpAnswersTo(f) /\ RtmpAnswered(s) /\ t \in Seq(RtmpChat)
    <2>0. /\ s.call # "failed" /\ s.call # "none" /\ s.pending = << >>
          /\ RtmpSent(s) /\ s.shaken /\ RtmpAnswered(s) /\ t \in Seq(RtmpChat)
          /\ f = s.requests[1]
      BY <1>1, <1>2, <1>3, <1>14
    <2>1. /\ m[1] # "quiet" /\ m[1] # "asking" /\ m = <<m[1], f>>
          /\ ~Rtmp!process_protocol_message(m)
          /\ ~Rtmp!post_response(f, m).asserted /\ Rtmp!post_response(f, m).done
          /\ (Rtmp!post_response(f, m).ok <=> m[1] # "error")
      BY <1>4, <1>14, RtmpPost
    <2>2. a = s.asked
      <3>1. p = << >> /\ Len(<< >>) = 0
        BY <1>6, <2>1
      <3> QED BY <1>1, <1>6, <3>1
    <2>3. PICK rest \in Seq(RtmpAsked), served \in Seq(RtmpAsked \X RtmpAsked) :
             RtmpPopsTo(s, m, rest, served) /\ RtmpOneMore(s, rest, served)
      <3>1. m = <<m[1], f>>
        BY <2>1
      <3> QED BY <2>0, <3>1, RtmpPops
    <2>12. /\ Len(served) = Len(s.served) + 1
           /\ \A i \in 1..Len(served) : served[i][1] = served[i][2]
      BY <2>3 DEF RtmpOneMore
    <2>4. Rtmp!Popped(r, m) =
             [r EXCEPT !.request = IF rest = << >> THEN "finished" ELSE "send_pending",
                       !.requests = rest, !.served = served, !.good = (m[1] # "error")]
      BY <1>8, <1>9, <2>3 DEF RtmpPopsTo
    <2>13. PICK y \in Progress, g \in BOOLEAN :
             y = (IF rest = << >> THEN "finished" ELSE "send_pending") /\ g = (m[1] # "error")
      BY StatesAre
    <2> DEFINE o == [r EXCEPT !.request = y, !.requests = rest, !.served = served, !.good = g,
                              !.proto = << >>, !.op = "none"]
    <2>5. [Rtmp!Popped(r, m) EXCEPT !.proto = << >>, !.op = "none"] = o
      BY <1>8, <2>4, <2>13 DEF RtmpSessions
    <2>6. o \in RtmpSessions
      BY <1>8, <1>10, StatesAre, ZenonT(40) DEF RtmpSessions
    <2>7. /\ o.mode = r.mode /\ o.status = r.status
          /\ o.request = (IF rest = << >> THEN "finished" ELSE "send_pending")
          /\ o.requests = rest /\ o.proto = << >> /\ o.op = "none" /\ o.pending = r.pending
          /\ o.call = r.call /\ o.made = r.made /\ o.served = served /\ o.good = (m[1] # "error")
          /\ o.reading = r.reading /\ o.seen = r.seen /\ o.acked = r.acked /\ o.asked = r.asked
          /\ o.replied = r.replied /\ o.link = r.link /\ o.shaken = r.shaken /\ o.up = r.up
          /\ o.down = r.down /\ o.busy = r.busy /\ o.current = r.current /\ o.window = r.window
          /\ o.got = r.got /\ o.finished = r.finished /\ o.strays = r.strays /\ o.tries = r.tries
          /\ o.failed = r.failed
      <3>1. o.request = y /\ o.good = g
        BY <1>8 DEF RtmpSessions
      <3> QED BY <1>8, <2>13, <3>1 DEF RtmpSessions
    <2> HIDE DEF o
    <2>14. /\ o.mode = s.mode /\ o.status = s.status /\ o.request = y /\ o.requests = rest
           /\ o.pending = << >> /\ o.pending = s.pending /\ o.call = s.call /\ o.made = s.made
           /\ o.served = served /\ o.good = g /\ o.reading = s.reading /\ o.asked = s.asked
           /\ o.replied = s.replied /\ o.link = s.link /\ o.shaken = s.shaken /\ o.up = s.up
           /\ o.down = t /\ o.failed = s.failed
           /\ o.proto = << >> /\ o.op = "none"
      <3>1. o.request = y /\ o.good = g
        BY <2>7, <2>13
      <3>2. o.pending = << >> /\ o.pending = s.pending
        BY <1>9, <2>0, <2>7
      <3>3. o.asked = s.asked
        BY <1>9, <2>2, <2>7
      <3>4. /\ o.mode = s.mode /\ o.status = s.status /\ o.requests = rest
            /\ o.call = s.call /\ o.made = s.made /\ o.served = served
            /\ o.reading = s.reading /\ o.replied = s.replied /\ o.link = s.link
            /\ o.shaken = s.shaken /\ o.up = s.up /\ o.down = t /\ o.failed = s.failed
            /\ o.proto = << >> /\ o.op = "none"
        BY <1>9, <2>7
      <3> QED BY <3>1, <3>2, <3>3, <3>4
    <2>8. Rtmp!Received(s) = IF rest = << >> THEN Rtmp!response(o, Rtmp!post_response(f, m).ok)
                             ELSE IF Rtmp!post_response(f, m).ok THEN Rtmp!Send(o) ELSE Rtmp!Broken(o)
      BY <1>3, <1>4, <1>7, <2>1, <2>5, <2>7 DEF Rtmp!Received, Rtmp!None
    <2>9. ~o.failed /\ o.pending = << >>
      BY <1>1, <1>2, <1>9, <2>7
    <2>10. CASE m[1] = "error"
      <3>1. ASSUME NEW q \in RtmpSessions, ~q.failed, q.served = served, q.down = t,
                   q.mode = s.mode, q.op = "none", q.status = s.status \/ q.status = "broken",
                   q.call = "failed", q.pending = s.pending, q.made = s.made,
                   q.reading = s.reading, q.shaken = s.shaken, q.replied = s.replied,
                   q.asked = s.asked, q.link = s.link, q.up = s.up, RtmpServerAs(q, s)
            PROVE  RtmpGood(q)
        BY <2>0, <2>12, <3>1, RtmpErrs
      <3>2. CASE rest = << >>
        <4> DEFINE q == [o EXCEPT !.call = "failed"]
        <4>1. Rtmp!Received(s) = q
          BY <2>1, <2>8, <2>10, <3>2 DEF Rtmp!response
        <4>2. q \in RtmpSessions
          BY <2>6, StatesAre DEF RtmpSessions
        <4>3. /\ q.mode = o.mode /\ q.status = o.status /\ q.request = o.request
              /\ q.requests = o.requests /\ q.proto = o.proto /\ q.op = o.op
              /\ q.pending = o.pending /\ q.call = "failed" /\ q.made = o.made
              /\ q.served = o.served /\ q.good = o.good /\ q.reading = o.reading
              /\ q.seen = o.seen /\ q.acked = o.acked /\ q.asked = o.asked
              /\ q.replied = o.replied /\ q.link = o.link /\ q.shaken = o.shaken /\ q.up = o.up
              /\ q.down = o.down /\ q.busy = o.busy /\ q.current = o.current
              /\ q.window = o.window /\ q.got = o.got /\ q.finished = o.finished
              /\ q.strays = o.strays /\ q.tries = o.tries /\ q.failed = o.failed
          BY <2>6 DEF RtmpSessions
        <4> HIDE DEF q
        <4>4. RtmpServerAs(q, s)
          BY <1>9, <2>7, <4>3 DEF RtmpServerAs
        <4>5. /\ ~q.failed /\ q.served = served /\ q.down = t
              /\ q.mode = s.mode /\ q.op = "none" /\ (q.status = s.status \/ q.status = "broken")
              /\ q.call = "failed" /\ q.pending = s.pending /\ q.made = s.made
              /\ q.reading = s.reading /\ q.shaken = s.shaken /\ q.replied = s.replied
              /\ q.asked = s.asked /\ q.link = s.link /\ q.up = s.up
          BY <2>9, <2>14, <4>3
        <4>6. RtmpGood(q)
          BY <3>1, <4>2, <4>4, <4>5
        <4> QED BY <4>1, <4>6
      <3>3. CASE rest # << >>
        <4> DEFINE q == [o EXCEPT !.status = "broken", !.requests = << >>, !.op = "none",
                                  !.failed = FALSE, !.call = "failed"]
        <4>1. Rtmp!Received(s) = Rtmp!Broken(o) /\ o.requests # << >>
          BY <2>1, <2>7, <2>8, <2>10, <3>3
        <4>2. Rtmp!Received(s) = q
          BY <2>6, <2>9, <4>1 DEF Rtmp!Broken, Rtmp!response, Rtmp!None, RtmpSessions
        <4>3. q \in RtmpSessions
          BY <1>10, <2>6, StatesAre, ZenonT(40) DEF RtmpSessions
        <4>4. /\ q.mode = o.mode /\ q.status = "broken" /\ q.request = o.request
              /\ q.requests = << >> /\ q.proto = o.proto /\ q.op = "none" /\ q.pending = o.pending
              /\ q.call = "failed" /\ q.made = o.made /\ q.served = o.served /\ q.good = o.good
              /\ q.reading = o.reading /\ q.seen = o.seen /\ q.acked = o.acked
              /\ q.asked = o.asked /\ q.replied = o.replied /\ q.link = o.link
              /\ q.shaken = o.shaken /\ q.up = o.up /\ q.down = o.down /\ q.busy = o.busy
              /\ q.current = o.current /\ q.window = o.window /\ q.got = o.got
              /\ q.finished = o.finished /\ q.strays = o.strays /\ q.tries = o.tries
              /\ q.failed = FALSE
          BY <2>6 DEF RtmpSessions
        <4> HIDE DEF q
        <4>5. RtmpServerAs(q, s)
          BY <1>9, <2>7, <4>4 DEF RtmpServerAs
        <4>6. /\ ~q.failed /\ q.served = served /\ q.down = t
              /\ q.mode = s.mode /\ q.op = "none" /\ (q.status = s.status \/ q.status = "broken")
              /\ q.call = "failed" /\ q.pending = s.pending /\ q.made = s.made
              /\ q.reading = s.reading /\ q.shaken = s.shaken /\ q.replied = s.replied
              /\ q.asked = s.asked /\ q.link = s.link /\ q.up = s.up
          BY <2>14, <4>4
        <4>7. RtmpGood(q)
          BY <3>1, <4>3, <4>5, <4>6
        <4> QED BY <4>2, <4>7
      <3> QED BY <3>2, <3>3
    <2>11. CASE m[1] # "error"
      <3>1. ASSUME NEW q \in RtmpSessions, ~q.failed, q.down = t, q.requests = rest,
                   q.served = served, q.mode = s.mode, q.status = s.status, q.pending = << >>,
                   q.made = s.made, q.good, q.reading = s.reading, q.shaken = s.shaken,
                   q.proto = << >>, q.replied = s.replied, q.asked = s.asked, q.link = s.link,
                   RtmpServerAs(q, s),
                   \/ rest = << >> /\ q.call = "none" /\ q.request = "finished" /\ q.op = "none" /\ q.up = s.up
                   \/ /\ rest # << >> /\ q.call = s.call /\ q.request = "sending_req"
                      /\ q.op = "write" /\ q.up = Append(s.up, rest[1])
            PROVE  RtmpGood(q)
        BY <2>0, <2>3, <3>1, RtmpGoesTo
      <3>2. CASE rest = << >>
        <4> DEFINE q == [o EXCEPT !.call = "none"]
        <4>1. Rtmp!Received(s) = q
          BY <2>1, <2>8, <2>11, <3>2 DEF Rtmp!response, Rtmp!None
        <4>2. q \in RtmpSessions
          BY <2>6, StatesAre DEF RtmpSessions
        <4>3. /\ q.mode = o.mode /\ q.status = o.status /\ q.request = o.request
              /\ q.requests = o.requests /\ q.proto = o.proto /\ q.op = o.op
              /\ q.pending = o.pending /\ q.call = "none" /\ q.made = o.made
              /\ q.served = o.served /\ q.good = o.good /\ q.reading = o.reading
              /\ q.seen = o.seen /\ q.acked = o.acked /\ q.asked = o.asked
              /\ q.replied = o.replied /\ q.link = o.link /\ q.shaken = o.shaken /\ q.up = o.up
              /\ q.down = o.down /\ q.busy = o.busy /\ q.current = o.current
              /\ q.window = o.window /\ q.got = o.got /\ q.finished = o.finished
              /\ q.strays = o.strays /\ q.tries = o.tries /\ q.failed = o.failed
          BY <2>6 DEF RtmpSessions
        <4> HIDE DEF q
        <4>4. RtmpServerAs(q, s)
          BY <1>9, <2>7, <4>3 DEF RtmpServerAs
        <4>5. o.request = "finished" /\ o.good
          BY <2>7, <2>11, <3>2
        <4>6. /\ ~q.failed /\ q.down = t /\ q.requests = rest /\ q.served = served /\ q.mode = s.mode
              /\ q.status = s.status /\ q.pending = << >> /\ q.made = s.made /\ q.good
              /\ q.reading = s.reading /\ q.shaken = s.shaken /\ q.proto = << >>
              /\ q.replied = s.replied /\ q.asked = s.asked /\ q.link = s.link
              /\ q.call = "none" /\ q.request = "finished" /\ q.op = "none" /\ q.up = s.up
          BY <2>9, <2>14, <4>3, <4>5
        <4>7. RtmpGood(q)
          BY <3>1, <3>2, <4>2, <4>4, <4>6
        <4> QED BY <4>1, <4>7
      <3>3. CASE rest # << >>
        <4>1. PICK u \in Seq(RtmpAsides \cup RtmpAsked) :
                 /\ Rtmp!Send(o) = [o EXCEPT !.up = u, !.request = "sending_req",
                                             !.op = "write", !.failed = FALSE]
                 /\ u = Append(o.up, o.requests[1])
          BY <2>6, <2>7, <2>9, <3>3, RtmpSend
        <4> DEFINE q == [o EXCEPT !.up = u, !.request = "sending_req", !.op = "write", !.failed = FALSE]
        <4>2. Rtmp!Received(s) = q
          BY <2>1, <2>8, <2>11, <3>3, <4>1
        <4>3. q \in RtmpSessions
          BY <2>6, StatesAre, ZenonT(40) DEF RtmpSessions
        <4>4. /\ q.mode = o.mode /\ q.status = o.status /\ q.request = "sending_req"
              /\ q.requests = o.requests /\ q.proto = o.proto /\ q.op = "write"
              /\ q.pending = o.pending /\ q.call = o.call /\ q.made = o.made
              /\ q.served = o.served /\ q.good = o.good /\ q.reading = o.reading
              /\ q.seen = o.seen /\ q.acked = o.acked /\ q.asked = o.asked
              /\ q.replied = o.replied /\ q.link = o.link /\ q.shaken = o.shaken /\ q.up = u
              /\ q.down = o.down /\ q.busy = o.busy /\ q.current = o.current
              /\ q.window = o.window /\ q.got = o.got /\ q.finished = o.finished
              /\ q.strays = o.strays /\ q.tries = o.tries /\ q.failed = FALSE
          BY <2>6 DEF RtmpSessions
        <4> HIDE DEF q
        <4>5. RtmpServerAs(q, s)
          BY <1>9, <2>7, <4>4 DEF RtmpServerAs
        <4>6. /\ ~q.failed /\ q.down = t /\ q.requests = rest /\ q.served = served /\ q.mode = s.mode
              /\ q.status = s.status /\ q.pending = << >> /\ q.made = s.made /\ q.good
              /\ q.reading = s.reading /\ q.shaken = s.shaken /\ q.proto = << >>
              /\ q.replied = s.replied /\ q.asked = s.asked /\ q.link = s.link
              /\ q.call = s.call /\ q.request = "sending_req"
              /\ q.op = "write" /\ q.up = Append(s.up, rest[1])
          <5>1. o.good /\ u = Append(s.up, rest[1])
            BY <1>2, <2>7, <2>11, <2>14, <4>1
          <5> QED BY <2>14, <4>4, <5>1
        <4>7. RtmpGood(q)
          BY <3>1, <3>3, <4>3, <4>5, <4>6
        <4> QED BY <4>2, <4>7
      <3> QED BY <3>2, <3>3
    <2> QED BY <2>10, <2>11
  <1> QED BY <1>5, <1>12, <1>13, <1>14

\* A write completes: the client reads; or a read does.
LEMMA RtmpComplete ==
  ASSUME RtmpGood(rtmp), Rtmp!Complete
  PROVE  RtmpGood(rtmp')
  <1>1. /\ rtmp \in RtmpSessions /\ ~rtmp.failed /\ RtmpCallsAs(rtmp) /\ RtmpFresh(rtmp)
        /\ RtmpPast(rtmp) /\ RtmpServes(rtmp) /\ RtmpTurn(rtmp)
        /\ RtmpStage(rtmp)
    BY DEF RtmpGood
  <1>2. rtmp.op = "write" \/ (rtmp.op = "read" /\ rtmp.down # << >>)
    BY DEF Rtmp!Complete
  <1>3. rtmp.link /\ rtmp' = Rtmp!handle_async_reqeust(rtmp)
    BY DEF Rtmp!Complete
  <1>4. ~rtmp.reading /\ rtmp.reading \in BOOLEAN
    BY <1>1, <1>2 DEF RtmpCallsAs, RtmpFresh, RtmpSessions
  <1>5. CASE rtmp.op = "read" /\ rtmp.down # << >>
    BY <1>3, <1>4, <1>5, RtmpReceived DEF Rtmp!handle_async_reqeust
  <1>6. CASE rtmp.op = "write"
    <2> DEFINE q == [rtmp EXCEPT !.request = "recving_resp", !.op = "read", !.failed = FALSE]
    <2>1. rtmp' = q
      BY <1>3, <1>4, <1>6 DEF Rtmp!handle_async_reqeust
    <2>2. q \in RtmpSessions
      BY <1>1, StatesAre DEF RtmpSessions
    <2>3. /\ q.mode = rtmp.mode /\ q.status = rtmp.status /\ q.request = "recving_resp"
          /\ q.requests = rtmp.requests /\ q.proto = rtmp.proto /\ q.op = "read"
          /\ q.pending = rtmp.pending /\ q.call = rtmp.call /\ q.made = rtmp.made
          /\ q.served = rtmp.served /\ q.good = rtmp.good /\ q.reading = rtmp.reading
          /\ q.seen = rtmp.seen /\ q.acked = rtmp.acked /\ q.asked = rtmp.asked
          /\ q.replied = rtmp.replied /\ q.link = rtmp.link /\ q.shaken = rtmp.shaken
          /\ q.up = rtmp.up /\ q.down = rtmp.down /\ q.busy = rtmp.busy
          /\ q.current = rtmp.current /\ q.window = rtmp.window /\ q.got = rtmp.got
          /\ q.finished = rtmp.finished /\ q.strays = rtmp.strays /\ q.tries = rtmp.tries
          /\ q.failed = FALSE
      BY <1>1 DEF RtmpSessions
    <2> HIDE DEF q
    <2>4. rtmp.call # "none" /\ rtmp.call # "failed" /\ rtmp.pending = << >>
      BY <1>1, <1>4, <1>6 DEF RtmpCallsAs, RtmpCalling
    <2>5. RtmpCallsAs(q)
      BY <1>1, <1>4, <1>6, <2>3, <2>4 DEF RtmpCallsAs, RtmpCalling
    <2>6. RtmpFresh(q)
      BY <1>1, <1>4, <2>3 DEF RtmpFresh
    <2>7. RtmpPast(q) /\ RtmpServes(q)
      BY <1>1, <2>3 DEF RtmpPast, RtmpServes
    <2>8. RtmpTurn(q)
      BY <1>1, <2>3, <2>4, ZenonT(40) DEF RtmpTurn
    <2>9. RtmpSent(rtmp) /\ RtmpSent(q)
      BY <1>4, <1>6, <2>3 DEF RtmpSent
    <2>10. RtmpOnItsWay(q) \/ RtmpHeld(q) \/ RtmpAnswered(q)
      BY <1>1, <1>3, <2>3, <2>4, <2>9 DEF RtmpStage, RtmpUnsent, RtmpOnItsWay, RtmpHeld, RtmpAnswered
    <2>11. RtmpStage(q)
      BY <2>3, <2>4, <2>10 DEF RtmpStage
    <2> QED BY <2>1, <2>2, <2>3, <2>5, <2>6, <2>7, <2>8, <2>11 DEF RtmpGood
  <1> QED BY <1>2, <1>5, <1>6

\* The client takes what it takes between the calls, and writes p.
RtmpTakes(s, d, n, a, k, g, x) ==
    x = [s EXCEPT !.down = d, !.seen = n, !.asked = a, !.acked = k, !.reading = g]
RtmpTicked(x, p) == [Rtmp!Write(x, p) EXCEPT !.proto = << >>, !.pending = << >>]

\* What is a session whose replies are written.
LEMMA RtmpReplyingIs ==
  ASSUME NEW x \in RtmpSessions, NEW w \in Nat, NEW u \in Seq(RtmpAsides \cup RtmpAsked)
  PROVE  [x EXCEPT !.up = u, !.replied = w, !.proto = << >>, !.pending = << >>] \in RtmpSessions
  <1>1. << >> \in Seq({"reply"}) /\ << >> \in Seq(RtmpAsked)
    BY EmptySeq
  <1> QED BY <1>1, ZenonT(40) DEF RtmpSessions

\* Between the calls the client takes a message or none, and writes what is due.
LEMMA RtmpTicks ==
  ASSUME NEW s, RtmpGood(s), s.call = "none", s.link, Len(s.made) = 3,
         NEW d, d = s.down \/ (s.down # << >> /\ d = Tail(s.down)),
         NEW n \in Nat, NEW a \in Nat, NEW k \in Nat, NEW g \in BOOLEAN,
         NEW x, RtmpTakes(s, d, n, a, k, g, x),
         NEW p \in Seq(RtmpAsides), s.replied + RtmpReplies(p) = a
  PROVE  RtmpGood(RtmpTicked(x, p))
  <1>1. /\ s \in RtmpSessions /\ ~s.failed /\ RtmpCallsAs(s) /\ RtmpFresh(s)
        /\ RtmpPast(s) /\ RtmpServes(s) /\ RtmpTurn(s) /\ s.shaken
    BY DEF RtmpGood, RtmpCallsAs
  <1>2. /\ s.requests = << >> /\ s.request = "finished" /\ s.op = "none"
        /\ s.up \in Seq(RtmpAsides) /\ s.down \in Seq(RtmpChat)
        /\ Len(s.got) = Len(s.served) /\ s.busy # "local"
    BY <1>1, RtmpIdle
  <1>3. s.down \in Seq(RtmpChat \cup RtmpAnswers)
    BY <1>1 DEF RtmpSessions
  <1>4. d \in Seq(RtmpChat) /\ d \in Seq(RtmpChat \cup RtmpAnswers)
    <2>1. CASE d = s.down
      BY <1>2, <1>3, <2>1
    <2>2. CASE s.down # << >> /\ d = Tail(s.down)
      BY <1>2, <1>3, <2>2, RestIsTaken
    <2> QED BY <2>1, <2>2
  <1>5. x \in RtmpSessions
    BY <1>1, <1>4, StatesAre, ZenonT(40) DEF RtmpSessions, RtmpTakes
  <1>6. /\ x.mode = s.mode /\ x.status = s.status /\ x.request = s.request
        /\ x.requests = s.requests /\ x.proto = s.proto /\ x.op = s.op /\ x.pending = s.pending
        /\ x.call = s.call /\ x.made = s.made /\ x.served = s.served /\ x.good = s.good
        /\ x.reading = g /\ x.seen = n /\ x.acked = k /\ x.asked = a /\ x.replied = s.replied
        /\ x.link = s.link /\ x.shaken = s.shaken /\ x.up = s.up /\ x.down = d /\ x.busy = s.busy
        /\ x.current = s.current /\ x.window = s.window /\ x.got = s.got
        /\ x.finished = s.finished /\ x.strays = s.strays /\ x.tries = s.tries
        /\ x.failed = s.failed
    BY <1>1 DEF RtmpSessions, RtmpTakes
  <1>7. << >> \in Seq({"reply"}) /\ << >> \in Seq(RtmpAsked) /\ p \in Seq(RtmpAsides \cup RtmpAsked)
    BY EmptySeq, SeqMonotonic
  <1>8. PICK w \in Nat, u \in Seq(RtmpAsides \cup RtmpAsked) :
           /\ Rtmp!Write(x, p) = [x EXCEPT !.up = u, !.replied = w]
           /\ u = x.up \o p /\ w = x.replied + RtmpReplies(p)
    BY <1>5, <1>7, RtmpWrites
  <1> DEFINE q == [x EXCEPT !.up = u, !.replied = w, !.proto = << >>, !.pending = << >>]
  <1>9. RtmpTicked(x, p) = q
    BY <1>5, <1>8 DEF RtmpSessions, RtmpTicked
  <1>10. q \in RtmpSessions
    BY <1>5, <1>8, RtmpReplyingIs
  <1>11. /\ q.mode = x.mode /\ q.status = x.status /\ q.request = x.request
         /\ q.requests = x.requests /\ q.proto = << >> /\ q.op = x.op /\ q.pending = << >>
         /\ q.call = x.call /\ q.made = x.made /\ q.served = x.served /\ q.good = x.good
         /\ q.reading = x.reading /\ q.seen = x.seen /\ q.acked = x.acked /\ q.asked = x.asked
         /\ q.replied = w /\ q.link = x.link /\ q.shaken = x.shaken /\ q.up = u /\ q.down = x.down
         /\ q.busy = x.busy /\ q.current = x.current /\ q.window = x.window /\ q.got = x.got
         /\ q.finished = x.finished /\ q.strays = x.strays /\ q.tries = x.tries
         /\ q.failed = x.failed
    BY <1>5 DEF RtmpSessions
  <1> HIDE DEF q
  <1>12. u \in Seq(RtmpAsides)
    BY <1>2, <1>6, <1>8, RestAreFollowed
  <1>13. /\ ~q.failed /\ q.mode = s.mode /\ q.status = s.status /\ q.request = s.request
         /\ q.requests = s.requests /\ q.op = s.op /\ q.call = s.call /\ q.made = s.made
         /\ q.served = s.served /\ q.good = s.good /\ q.shaken = s.shaken /\ q.link = s.link
         /\ q.proto = << >> /\ q.pending = << >> /\ q.down = d /\ q.up = u /\ q.asked = a
         /\ q.replied = w /\ q.reading = g
    BY <1>1, <1>6, <1>11
  <1>14. RtmpServerAs(q, s)
    BY <1>6, <1>11 DEF RtmpServerAs
  <1>15. q.replied = q.asked
    BY <1>6, <1>8, <1>13
  <1>16. RtmpCallsAs(q)
    BY <1>1, <1>13 DEF RtmpCallsAs, RtmpCalling
  <1>17. RtmpTurn(q)
    BY <1>1, <1>13 DEF RtmpTurn
  <1>18. RtmpFresh(q)
    BY <1>1, <1>2, <1>13 DEF RtmpFresh
  <1>19. RtmpPast(q)
    BY <1>1, <1>13, <1>14, <1>15 DEF RtmpPast, RtmpServerAs
  <1>20. RtmpServes(q)
    BY <1>1, <1>13, <1>14, RtmpServesKept
  <1>22. ~RtmpSent(q)
    BY <1>2, <1>13 DEF RtmpSent
  <1>23. RtmpUnsent(q)
    BY <1>2, <1>4, <1>12, <1>13, <1>14, <1>22 DEF RtmpUnsent, RtmpServerAs
  <1>24. RtmpGood(q)
    BY <1>10, <1>13, <1>16, <1>17, <1>18, <1>19, <1>20, <1>23 DEF RtmpGood, RtmpStage
  <1> QED BY <1>9, <1>24

LEMMA RtmpTick ==
  ASSUME RtmpInUse, RtmpGood(rtmp), Rtmp!Tick
  PROVE  RtmpGood(rtmp')
  <1>1. /\ rtmp \in RtmpSessions /\ RtmpPast(rtmp) /\ rtmp.shaken
    BY DEF RtmpGood, RtmpCallsAs, Rtmp!Tick
  <1>2. /\ rtmp.call = "none" /\ rtmp.op = "none" /\ rtmp.link
        /\ Len(rtmp.made) = 3
    BY <1>1 DEF RtmpSessions, Rtmp!Tick, Rtmp!None, RtmpInUse
  <1>3. rtmp' = Rtmp!tick(rtmp, FALSE)
    <2>1. ("tick" \in Blocks) = FALSE
      BY DEF RtmpInUse
    <2>2. {TRUE} \cap {FALSE} = {}
      OBVIOUS
    <2> QED BY <2>1, <2>2 DEF Rtmp!Tick
  <1>4. rtmp.request = "finished" /\ rtmp.proto = << >>
    BY <1>1, <1>2, RtmpIdle
  <1>5. PICK due \in BOOLEAN, reads \in BOOLEAN :
          /\ reads <=> rtmp.down # << >>
          /\ rtmp' = LET p == rtmp.proto \o (IF due THEN <<"ack">> ELSE << >>)
                                         \o (IF reads THEN Rtmp!Replies(Head(rtmp.down)) ELSE << >>)
                         x == [(IF reads THEN Rtmp!Read(rtmp) ELSE rtmp) EXCEPT
                                 !.acked = IF due THEN rtmp.seen ELSE @,
                                 !.reading = ~reads]
                     IN  [Rtmp!Write(x, p) EXCEPT !.proto = << >>, !.pending = << >>]
    BY <1>3, <1>4 DEF Rtmp!tick
  <1>6. /\ rtmp.replied \in Nat /\ rtmp.asked \in Nat /\ rtmp.seen \in Nat /\ rtmp.acked \in Nat
        /\ rtmp.replied = rtmp.asked
        /\ rtmp.proto \in Seq({"reply"}) /\ rtmp.reading \in BOOLEAN
        /\ rtmp.down \in Seq(RtmpChat \cup RtmpAnswers)
    BY <1>1 DEF RtmpPast, RtmpSessions
  <1>7. /\ << >> \in Seq({"reply"}) /\ {"reply"} \subseteq RtmpAsides
        /\ << >> \in Seq(RtmpAsides) /\ <<"ack">> \in Seq(RtmpAsides)
        /\ <<"reply">> \in Seq(RtmpAsides) /\ <<"ack", "reply">> \in Seq(RtmpAsides)
    BY DEF RtmpAsides
  <1>8. /\ << >> \o << >> \o << >> = << >> /\ << >> \o <<"ack">> \o << >> = <<"ack">>
        /\ << >> \o << >> \o <<"reply">> = <<"reply">>
        /\ << >> \o <<"ack">> \o <<"reply">> = <<"ack", "reply">>
    <2>1. <<"ack", "reply">> = <<"ack">> \o <<"reply">>
      BY TwoArePut
    <2> QED BY <1>7, <2>1, ConcatEmptySeq
  <1>9. CASE ~reads
    <2>1. PICK p \in Seq(RtmpAsides) : /\ p = rtmp.proto \o (IF due THEN <<"ack">> ELSE << >>) \o << >>
                                       /\ RtmpReplies(p) = 0
      BY <1>4, <1>7, <1>8, <1>9, RtmpCounts
    <2>2. PICK k \in Nat : k = IF due THEN rtmp.seen ELSE rtmp.acked
      BY <1>6
    <2> DEFINE x == [rtmp EXCEPT !.down = rtmp.down, !.seen = rtmp.seen, !.asked = rtmp.asked,
                                 !.acked = k, !.reading = TRUE]
    <2>3. x = [rtmp EXCEPT !.acked = IF due THEN rtmp.seen ELSE @, !.reading = TRUE]
      BY <1>1, <2>2 DEF RtmpSessions
    <2>4. rtmp' = [Rtmp!Write(x, p) EXCEPT !.proto = << >>, !.pending = << >>]
      <3> HIDE DEF x
      <3> QED BY <1>5, <1>9, <2>1, <2>3
    <2>5. rtmp.replied + RtmpReplies(p) = rtmp.asked
      BY <1>6, <2>1
    <2>6. PICK y : y = x
      OBVIOUS
    <2> HIDE DEF x
    <2>7. RtmpTakes(rtmp, rtmp.down, rtmp.seen, rtmp.asked, k, TRUE, y)
      BY <2>6 DEF x, RtmpTakes
    <2>8. RtmpGood(RtmpTicked(y, p))
      BY <1>2, <1>6, <2>5, <2>7, RtmpTicks
    <2> QED BY <2>4, <2>6, <2>8 DEF RtmpTicked
  <1>10. CASE reads
    <2>1. PICK m, t : m = Head(rtmp.down) /\ t = Tail(rtmp.down) /\ rtmp.down # << >>
      BY <1>5, <1>10
    <2>2. t \in Seq(RtmpChat \cup RtmpAnswers)
      BY <1>6, <2>1, RestIsTaken
    <2>12. PICK n \in Nat, a \in Nat, z \in Seq({"reply"}) : RtmpReadsTo(rtmp, m, t, n, a, z)
      BY <1>1, <2>1, <2>2, RtmpRepliesTo
    <2>3. /\ z = Rtmp!Replies(m) /\ (m[1] = "asking" => z = <<"reply">>)
          /\ (m[1] # "asking" => z = << >>)
          /\ Rtmp!Read(rtmp) = [rtmp EXCEPT !.down = t, !.seen = n, !.asked = a]
          /\ a = rtmp.asked + RtmpReplies(z)
      BY <2>12 DEF RtmpReadsTo
    <2>4. PICK p \in Seq(RtmpAsides) : /\ p = rtmp.proto \o (IF due THEN <<"ack">> ELSE << >>) \o z
                                       /\ RtmpReplies(p) = RtmpReplies(z) /\ RtmpReplies(z) \in {0, 1}
      <3>1. z = << >> \/ z = <<"reply">>
        BY <2>3
      <3>2. CASE due
        BY <1>4, <1>7, <1>8, <3>1, <3>2, RtmpCounts
      <3>3. CASE ~due
        BY <1>4, <1>7, <1>8, <3>1, <3>3, RtmpCounts
      <3> QED BY <3>2, <3>3
    <2>5. PICK k \in Nat : k = IF due THEN rtmp.seen ELSE rtmp.acked
      BY <1>6
    <2>6. PICK y : y = [rtmp EXCEPT !.down = t, !.seen = n, !.asked = a, !.acked = k, !.reading = FALSE]
      OBVIOUS
    <2>7. y = [Rtmp!Read(rtmp) EXCEPT !.acked = IF due THEN rtmp.seen ELSE @, !.reading = FALSE]
      BY <1>1, <2>3, <2>5, <2>6 DEF RtmpSessions
    <2>8. rtmp' = [Rtmp!Write(y, p) EXCEPT !.proto = << >>, !.pending = << >>]
      BY <1>5, <1>10, <2>1, <2>3, <2>4, <2>7
    <2>9. rtmp.replied + RtmpReplies(p) = a
      BY <1>6, <2>3, <2>4
    <2>11. RtmpTakes(rtmp, t, n, a, k, FALSE, y)
      BY <2>6 DEF RtmpTakes
    <2>10. RtmpGood(RtmpTicked(y, p))
      BY <1>2, <2>1, <2>9, <2>11, RtmpTicks
    <2> QED BY <2>8, <2>10 DEF RtmpTicked
  <1> QED BY <1>9, <1>10

LEMMA RtmpStep ==
  ASSUME RtmpInUse, RtmpGood(rtmp), Rtmp!RtmpNext
  PROVE  RtmpGood(rtmp')
  <1>1. rtmp.mode = "async"
    BY DEF RtmpGood, RtmpSessions
  <1> QED BY <1>1, RtmpConnect, RtmpConnected, RtmpPlay, RtmpPublish, RtmpComplete, RtmpFail,
     RtmpTick, RtmpClose, RtmpReceiveRequest, RtmpLocalProcess, RtmpSendResponse,
     RtmpServerError, RtmpStray, RtmpLose
     DEF Rtmp!RtmpNext, Rtmp!Client, Rtmp!Server, Rtmp!Resume

\* A good session serves its requests in turn.
LEMMA RtmpInTurn ==
  ASSUME RtmpGood(rtmp)
  PROVE  Rtmp!RequestsInTurn
  <1>1. /\ rtmp \in RtmpSessions /\ ~rtmp.failed /\ RtmpPast(rtmp) /\ RtmpServes(rtmp)
    BY DEF RtmpGood
  <1>2. /\ rtmp.got \in Seq(RtmpAsked) /\ rtmp.made \in Seq(RtmpAsked)
        /\ rtmp.served \in Seq(RtmpAsked \X RtmpAsked)
        /\ rtmp.replied \in Nat /\ rtmp.asked \in Nat
    BY <1>1 DEF RtmpSessions
  <1>3. /\ DOMAIN rtmp.got = 1..Len(rtmp.got) /\ DOMAIN rtmp.made = 1..Len(rtmp.made)
        /\ DOMAIN rtmp.served = 1..Len(rtmp.served)
        /\ Len(rtmp.got) \in Nat /\ Len(rtmp.made) \in Nat
    BY <1>2, LenProperties
  <1>4. Rtmp!IsPrefix(rtmp.got, rtmp.made)
    BY <1>1, <1>3 DEF Rtmp!IsPrefix, RtmpPast
  <1>5. ASSUME Rtmp!Free(rtmp), rtmp.shaken
        PROVE  rtmp.good /\ Len(rtmp.served) = Len(rtmp.made)
    BY <1>5, RtmpIdle DEF Rtmp!Free, Rtmp!None
  <1>6. \A i \in DOMAIN rtmp.served : rtmp.served[i][1] = rtmp.served[i][2]
    BY <1>1, <1>3 DEF RtmpPast
  <1>7. /\ Len(rtmp.got) <= Len(rtmp.served) + 1 /\ rtmp.replied <= rtmp.asked
        /\ rtmp.replied = rtmp.asked
    BY <1>1, <1>2 DEF RtmpPast
  <1>8. \/ rtmp.finished + (IF rtmp.current = "none" THEN 0 ELSE 1) = Len(rtmp.got)
        \/ ~rtmp.link
    BY <1>1 DEF RtmpServes
  <1> QED BY <1>1, <1>4, <1>5, <1>6, <1>7, <1>8 DEF Rtmp!RequestsInTurn, Rtmp!None

-----------------------------------------------------------------------------
(* The clients of rtmp and mmsp together.                                     *)

TurnsInUse == RtmpInUse /\ MmspInUse

TurnsGood == (rtmp # Absent => RtmpGood(rtmp)) /\ (mmsp # Absent => MmspGood(mmsp))

LEMMA TurnsStep ==
  ASSUME TurnsInUse, TurnsGood, [Next]_vars
  PROVE  TurnsGood'
  <1>1. RtmpInUse /\ MmspInUse
    BY DEF TurnsInUse
  <1>2. /\ rtmp' = rtmp \/ (rtmp # Absent /\ Rtmp!RtmpNext)
        /\ mmsp' = mmsp \/ (mmsp # Absent /\ Mmsp!MmspNext)
    BY DEF Next, vars
  <1>3. rtmp' # Absent => RtmpGood(rtmp')
    <2>1. CASE rtmp' = rtmp
      BY <2>1 DEF TurnsGood
    <2>2. CASE rtmp # Absent /\ Rtmp!RtmpNext
      BY <1>1, <2>2, RtmpStep DEF TurnsGood
    <2> QED BY <1>2, <2>1, <2>2
  <1>4. mmsp' # Absent => MmspGood(mmsp')
    <2>1. CASE mmsp' = mmsp
      BY <2>1 DEF TurnsGood
    <2>2. CASE mmsp # Absent /\ Mmsp!MmspNext
      BY <1>1, <2>2, MmspStep DEF TurnsGood
    <2> QED BY <1>2, <2>1, <2>2
  <1> QED BY <1>3, <1>4 DEF TurnsGood

(* The asynchronous client of rtmp, and either client of mmsp, sends the requests of  *)
(* its calls in turn, each answer completes the request it is to, what the peer asks   *)
(* in between is answered, and no assert fails: for any number of messages,             *)
(* connections and replies (RtmpClient.cpp:367-429, MmspClient.cpp:222-261).            *)
THEOREM RequestsAreInTurn == TurnsInUse => (Spec => []RequestsInTurn)
  <1> SUFFICES ASSUME TurnsInUse PROVE Spec => []RequestsInTurn
    OBVIOUS
  <1>1. Init => TurnsGood
    BY RtmpStart, MmspStart DEF Init, TurnsGood, TurnsInUse
  <1>2. TurnsGood /\ [Next]_vars => TurnsGood'
    BY TurnsStep
  <1>3. TurnsGood => RequestsInTurn
    BY RtmpInTurn, MmspInTurn DEF TurnsGood, RequestsInTurn
  <1> QED BY <1>1, <1>2, <1>3, PTL DEF Spec
=============================================================================
