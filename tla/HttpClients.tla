----------------------------- MODULE HttpClients -----------------------------
(***************************************************************************)
(* An HttpClient used one way or the other: with callbacks, as              *)
(* HttpClientAsync has it, or polled, as HttpClientSync has it.  The two    *)
(* interfaces are of one class with one queue; nothing in the repository    *)
(* mixes them on one object.                                                *)
(***************************************************************************)
EXTENDS HttpClientAsync

CONSTANT Pollers                \* how a client that is polled may be used

VARIABLE answer                 \* what the last call of a polled client returned

Polled == INSTANCE HttpClientSync

\* Polled clients: one that queues requests; one that has a request at a time,
\* which does not ask to keep the connection, and posts over a finished fetch.
PollsSeveral ==
    [queue |-> 3, redirects |-> 1, keep_alives |-> BOOLEAN, reuses |-> FALSE]
PollsOneByOne ==
    [queue |-> 1, redirects |-> 1, keep_alives |-> {FALSE}, reuses |-> TRUE]
PollsEither == {PollsSeveral, PollsOneByOne}

ASSUME PollersAssumption == Pollers \subseteq Uses

allVars == <<vars, answer>>

WithCallbacks == [call |-> "async", ec |-> "ok"]

IsPolled == answer # WithCallbacks
Async(A) == ~IsPolled /\ A /\ UNCHANGED answer

InitAll ==
    \/ Init /\ answer = WithCallbacks
    \/ Polled!Init /\ dropped = {}

NextAll ==
    \/ Async(Next)
    \/ IsPolled /\ Polled!Next /\ UNCHANGED dropped

\* The io_service runs what is ready, the socket completes what is under way,
\* a user who has been called closes the request.
FairnessAll ==
    /\ WF_allVars(Async(CallBack)) /\ WF_allVars(Async(Close))
    /\ WF_allVars(Async(Complete)) /\ WF_allVars(Async(ConnectHandler))
    /\ WF_allVars(Async(RequestHandler))

SpecAll == InitAll /\ [][NextAll]_allVars
FairSpecAll == SpecAll /\ FairnessAll

-----------------------------------------------------------------------------
(* Properties.                                                              *)

\* With callbacks each handler finds its request, the front one is on its way
\* to its callback and none is called twice; polled, the requests leave in their
\* order and a yes is true; num_sent_ counts those sent (HttpClient.cpp:605) as
\* long as none is redirected and no finished fetch is posted over.
QueueInTurn == IF IsPolled THEN Polled!PolledInTurn ELSE ServedInTurn

\* Every request posted with a callback is answered or gone at last, unless a
\* send of it or of one before it failed behind another (HttpClient.cpp:614).
EachIsAnswered == IsPolled \/ Answered

\* No polled call sends or receives again what an earlier call, stopped by
\* would_block, has sent or received, unless redirected (HttpClient.cpp:405).
PollsGoOn == [][IsPolled => Polled!GoesOn]_allVars
=============================================================================
