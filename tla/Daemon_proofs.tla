----------------------------- MODULE Daemon_proofs -----------------------------
(***************************************************************************)
(* The safety of Daemon.tla, proved for every pool of threads and any       *)
(* number of calls: between its calls, and after them, a daemon that is not *)
(* started is at rest.  And that of ModuleRegistry.tla, for any threads and *)
(* modules: there is one module of a kind, made behind those it uses.       *)
(***************************************************************************)
EXTENDS Daemon, ModuleRegistry, SequenceTheorems, TLAPS

(* The inductive invariant, in named parts.                                 *)

Out(t) == doing[t] = "out"
AllOut == \A t \in Threads : Out(t)
InHandler == \E t \in Threads : doing[t] \in Handlers

OnlyIn(q, S) == \A i \in DOMAIN q : q[i] \in S
OnlyLate(q) == OnlyIn(q, {"stop"})
OnlyUnpooled(q) == OnlyIn(q, {"stop", "completion"})
OnlyPooled(q) == OnlyIn(q, Handlers \ {"stop"})

\* NothingLeft, its queue told by OnlyLate.
RestShape ==
    caller = "outside" /\ ~is_started => AllOut /\ ~stopped /\ ~pending /\ OnlyLate(queue)

\* Without a pool only the owner's thread enters the io_service, in run(); and
\* the daemon is started exactly while the work object is there.
UnpooledShape ==
    ~pooled /\ caller # "gone" =>
        /\ caller \in {"outside", "running"}
        /\ \A t \in Pool : Out(t)
        /\ caller = "outside" => Out(Owner)
        /\ OnlyUnpooled(queue)
        /\ is_started = io_work

\* With one the owner's thread never enters it, and no stop is posted.
PooledShape ==
    pooled =>
        /\ caller # "running" /\ Out(Owner)
        /\ OnlyPooled(queue)
        /\ \A t \in Pool : doing[t] # "stop"
        /\ starts = 0 => AllOut /\ ~is_started

\* quick_stop aside, the io_service stops only when the last work has gone, and
\* nothing comes back but what a call from outside posts.
StoppedIsDrained ==
    stopped /\ caller # "gone" /\ call # "destroy" =>
        /\ ~io_work /\ ~pending /\ ~InHandler
        /\ pooled /\ caller # "waiting" => queue = <<>>
        /\ ~pooled => OnlyLate(queue)

\* The pool is joined only after the modules are shut down, and as long as the
\* io_service runs one of its threads is in it.
JoiningShape ==
    /\ call = "destroy" => caller = "joining"
    /\ caller \in {"failed", "joining"} => pooled
    /\ caller \in {"failed", "joining"} /\ call # "destroy" =>
        /\ ~is_started
        /\ ~stopped => \E t \in Pool : ~Out(t)

IInv ==
    /\ TypeOK /\ RestShape /\ GoneIsQuiet
    /\ UnpooledShape /\ PooledShape /\ StoppedIsDrained /\ JoiningShape

-----------------------------------------------------------------------------
(* The queue of the io_service.                                             *)

\* What holds of every handler in it holds when one is posted,
Postable(q) ==
    \A h \in Handlers :
        /\ Append(q, h) \in Seq(Handlers) /\ Append(q, h) # <<>>
        /\ OnlyLate(q) /\ h = "stop" => OnlyLate(Append(q, h))
        /\ OnlyUnpooled(q) /\ h \in {"stop", "completion"} => OnlyUnpooled(Append(q, h))
        /\ OnlyPooled(q) /\ h # "stop" => OnlyPooled(Append(q, h))

\* and when one is taken.
Takeable(q) ==
    q # <<>> =>
        /\ Tail(q) \in Seq(Handlers) /\ Head(q) \in Handlers
        /\ OnlyLate(q) => OnlyLate(Tail(q))
        /\ OnlyUnpooled(q) => OnlyUnpooled(Tail(q)) /\ Head(q) \in {"stop", "completion"}
        /\ OnlyPooled(q) => OnlyPooled(Tail(q)) /\ Head(q) # "stop"

LEMMA QueueFacts ==
  ASSUME NEW q \in Seq(Handlers)
  PROVE  Postable(q) /\ Takeable(q) /\ (OnlyPooled(q) /\ OnlyLate(q) => q = <<>>)
  <1> USE DEF OnlyIn, OnlyLate, OnlyUnpooled, OnlyPooled
  <1>1. Postable(q)
    BY DEF Postable
  <1>2. Takeable(q)
    BY DEF Takeable
  <1>3. OnlyPooled(q) /\ OnlyLate(q) => q = <<>>
    OBVIOUS
  <1> QED BY <1>1, <1>2, <1>3

LEMMA EmptyQueue ==
  /\ <<>> \in Seq(Handlers)
  /\ OnlyLate(<<>>) /\ OnlyUnpooled(<<>>) /\ OnlyPooled(<<>>)
  BY DEF OnlyIn, OnlyLate, OnlyUnpooled, OnlyPooled

LEMMA AtRestFromParts == IInv => AtRest
  BY DEF IInv, AtRest, NothingLeft, RestShape, AllOut, Out, OnlyLate, OnlyIn

-----------------------------------------------------------------------------
LEMMA InitIInv == Init => IInv
  <1>1. Init => TypeOK
    <2>1. Init => starts \in 0 .. MaxStarts /\ posts \in 0 .. MaxPosts
      BY DaemonAssumption DEF Init
    <2>2. Init => doing \in [Threads -> {"out", "poll"} \cup Handlers] /\ doing[Owner] = "out"
      BY DEF Init, Threads
    <2> QED BY <2>1, <2>2, EmptyQueue DEF Init, TypeOK
  <1>2. Init => RestShape /\ GoneIsQuiet
    BY EmptyQueue DEF Init, RestShape, GoneIsQuiet, Out, AllOut
  <1>3. Init => UnpooledShape /\ PooledShape /\ StoppedIsDrained /\ JoiningShape
    BY EmptyQueue DEF Init, UnpooledShape, PooledShape, StoppedIsDrained, JoiningShape, Out, AllOut, Threads
  <1> QED BY <1>1, <1>2, <1>3 DEF IInv

LEMMA NextIInv == IInv /\ [Next]_vars => IInv'
  <1> SUFFICES ASSUME IInv, [Next]_vars PROVE IInv'
    OBVIOUS
  <1> USE DaemonAssumption, EmptyQueue
      DEF IInv, TypeOK, RestShape, GoneIsQuiet, UnpooledShape, PooledShape, StoppedIsDrained,
          JoiningShape, Out, AllOut, InHandler, Threads, Handlers, counts
  <1>q. Postable(queue) /\ Takeable(queue) /\ (OnlyPooled(queue) /\ OnlyLate(queue) => queue = <<>>)
    BY QueueFacts
  <1>1. ASSUME NEW t \in Threads, Take(t) PROVE IInv'
    <2>1. TypeOK'
      BY <1>1, <1>q DEF Take, Postable, Takeable
    <2>2. RestShape' /\ GoneIsQuiet'
      BY <1>1, <1>q DEF Take, Postable, Takeable
    <2>3. UnpooledShape' /\ PooledShape'
      BY <1>1, <1>q DEF Take, Postable, Takeable
    <2>4. StoppedIsDrained' /\ JoiningShape'
      BY <1>1, <1>q DEF Take, Postable, Takeable
    <2> QED BY <2>1, <2>2, <2>3, <2>4
  <1>2. ASSUME NEW t \in Threads, Leave(t) PROVE IInv'
    <2>1. TypeOK'
      BY <1>2, <1>q DEF Leave, io_svc, Postable, Takeable
    <2>2. RestShape' /\ GoneIsQuiet'
      BY <1>2, <1>q DEF Leave, io_svc, Postable, Takeable
    <2>3. UnpooledShape' /\ PooledShape'
      BY <1>2, <1>q DEF Leave, io_svc, Postable, Takeable
    <2>4. StoppedIsDrained' /\ JoiningShape'
      BY <1>2, <1>q DEF Leave, io_svc, Postable, Takeable
    <2> QED BY <2>1, <2>2, <2>3, <2>4
  <1>3. ASSUME NEW t \in Threads, RunCompletion(t) PROVE IInv'
    <2>1. TypeOK'
      BY <1>3, <1>q DEF RunCompletion, Runs, StopsWhenDrained, Drained, Postable, Takeable
    <2>2. RestShape' /\ GoneIsQuiet'
      BY <1>3, <1>q DEF RunCompletion, Runs, StopsWhenDrained, Drained, Postable, Takeable
    <2>3. UnpooledShape' /\ PooledShape'
      BY <1>3, <1>q DEF RunCompletion, Runs, StopsWhenDrained, Drained, Postable, Takeable
    <2>4. StoppedIsDrained' /\ JoiningShape'
      BY <1>3, <1>q DEF RunCompletion, Runs, StopsWhenDrained, Drained, Postable, Takeable
    <2> QED BY <2>1, <2>2, <2>3, <2>4
  <1>4. ASSUME NEW t \in Threads, RunStartup(t) PROVE IInv'
    <2>1. TypeOK'
      BY <1>4, <1>q DEF RunStartup, Runs, Started, RolledBack, Return, Enter, Postable, Takeable
    <2>2. RestShape' /\ GoneIsQuiet'
      BY <1>4, <1>q DEF RunStartup, Runs, Started, RolledBack, Return, Enter, Postable, Takeable
    <2>3. UnpooledShape' /\ PooledShape'
      BY <1>4, <1>q DEF RunStartup, Runs, Started, RolledBack, Return, Enter, Postable, Takeable
    <2>4. StoppedIsDrained' /\ JoiningShape'
      BY <1>4, <1>q DEF RunStartup, Runs, Started, RolledBack, Return, Enter, Postable, Takeable
    <2> QED BY <2>1, <2>2, <2>3, <2>4
  <1>5. ASSUME NEW t \in Threads, RunShutdown(t) PROVE IInv'
    <2>1. TypeOK'
      BY <1>5, <1>q DEF RunShutdown, Runs, Shutdown, Enter, StopsWhenDrained, Drained, Postable, Takeable
    <2>2. RestShape' /\ GoneIsQuiet'
      BY <1>5, <1>q DEF RunShutdown, Runs, Shutdown, Enter, StopsWhenDrained, Drained, Postable, Takeable
    <2>3. UnpooledShape' /\ PooledShape'
      BY <1>5, <1>q DEF RunShutdown, Runs, Shutdown, Enter, StopsWhenDrained, Drained, Postable, Takeable
    <2>4. StoppedIsDrained' /\ JoiningShape'
      BY <1>5, <1>q DEF RunShutdown, Runs, Shutdown, Enter, StopsWhenDrained, Drained, Postable, Takeable
    <2> QED BY <2>1, <2>2, <2>3, <2>4
  <1>6. ASSUME NEW t \in Threads, RunStop(t) PROVE IInv'
    <2>1. TypeOK'
      BY <1>6, <1>q DEF RunStop, Runs, DeleteWork, ShutdownHere, Shutdown, StopsWhenDrained, Drained, Postable, Takeable
    <2>2. RestShape' /\ GoneIsQuiet'
      BY <1>6, <1>q DEF RunStop, Runs, DeleteWork, ShutdownHere, Shutdown, StopsWhenDrained, Drained, Postable, Takeable
    <2>3. UnpooledShape' /\ PooledShape'
      BY <1>6, <1>q DEF RunStop, Runs, DeleteWork, ShutdownHere, Shutdown, StopsWhenDrained, Drained, Postable, Takeable
    <2>4. StoppedIsDrained' /\ JoiningShape'
      BY <1>6, <1>q DEF RunStop, Runs, DeleteWork, ShutdownHere, Shutdown, StopsWhenDrained, Drained, Postable, Takeable
    <2> QED BY <2>1, <2>2, <2>3, <2>4
  <1>7. ASSUME StartHere PROVE IInv'
    <2>1. TypeOK'
      <3>1. starts' \in 0 .. MaxStarts
        BY <1>7 DEF StartHere
      <3>2. queue' \in Seq(Handlers)
        BY <1>7, <1>q DEF StartHere, Started, RolledBack, Postable
      <3>3. doing' \in [Threads -> {"out", "poll"} \cup Handlers] /\ doing'[Owner] \notin {"startup", "shutdown"}
        BY <1>7 DEF StartHere, RunHere
      <3> QED BY <1>7, <3>1, <3>2, <3>3 DEF StartHere, Started, RolledBack, RunHere, Enter, StopsWhenDrained, Drained
    <2>2. RestShape' /\ GoneIsQuiet'
      BY <1>7, <1>q DEF StartHere, Started, RolledBack, RunHere, Enter, StopsWhenDrained, Drained, Postable, Takeable
    <2>3. UnpooledShape' /\ PooledShape'
      BY <1>7, <1>q DEF StartHere, Started, RolledBack, RunHere, Enter, StopsWhenDrained, Drained, Postable, Takeable
    <2>4. StoppedIsDrained' /\ JoiningShape'
      BY <1>7, <1>q DEF StartHere, Started, RolledBack, RunHere, Enter, StopsWhenDrained, Drained, Postable, Takeable
    <2> QED BY <2>1, <2>2, <2>3, <2>4
  <1>8. ASSUME StartPool PROVE IInv'
    <2>1. TypeOK'
      BY <1>8, <1>q DEF StartPool, Enter, Postable, Takeable
    <2>2. RestShape' /\ GoneIsQuiet'
      BY <1>8, <1>q DEF StartPool, Enter, Postable, Takeable
    <2>3. UnpooledShape' /\ PooledShape'
      BY <1>8, <1>q DEF StartPool, Enter, Postable, Takeable
    <2>4. StoppedIsDrained' /\ JoiningShape'
      BY <1>8, <1>q DEF StartPool, Enter, Postable, Takeable
    <2> QED BY <2>1, <2>2, <2>3, <2>4
  <1>9. ASSUME Run PROVE IInv'
    <2>1. TypeOK'
      BY <1>9, <1>q DEF Run, RunHere, Enter, StopsWhenDrained, Drained, Postable, Takeable
    <2>2. RestShape' /\ GoneIsQuiet'
      BY <1>9, <1>q DEF Run, RunHere, Enter, StopsWhenDrained, Drained, Postable, Takeable
    <2>3. UnpooledShape' /\ PooledShape'
      BY <1>9, <1>q DEF Run, RunHere, Enter, StopsWhenDrained, Drained, Postable, Takeable
    <2>4. StoppedIsDrained' /\ JoiningShape'
      BY <1>9, <1>q DEF Run, RunHere, Enter, StopsWhenDrained, Drained, Postable, Takeable
    <2> QED BY <2>1, <2>2, <2>3, <2>4
  <1>10. ASSUME Stop PROVE IInv'
    <2>1. TypeOK'
      BY <1>10, <1>q DEF Stop, Enter, DeleteWork, StopsWhenDrained, Drained, Postable, Takeable
    <2>2. RestShape' /\ GoneIsQuiet'
      BY <1>10, <1>q DEF Stop, Enter, DeleteWork, StopsWhenDrained, Drained, Postable, Takeable
    <2>3. UnpooledShape' /\ PooledShape'
      BY <1>10, <1>q DEF Stop, Enter, DeleteWork, StopsWhenDrained, Drained, Postable, Takeable
    <2>4. StoppedIsDrained' /\ JoiningShape'
      BY <1>10, <1>q DEF Stop, Enter, DeleteWork, StopsWhenDrained, Drained, Postable, Takeable
    <2> QED BY <2>1, <2>2, <2>3, <2>4
  <1>11. ASSUME PostStop PROVE IInv'
    <2>1. TypeOK'
      BY <1>11, <1>q DEF PostStop, Postable, Takeable
    <2>2. RestShape' /\ GoneIsQuiet'
      BY <1>11, <1>q DEF PostStop, Postable, Takeable
    <2>3. UnpooledShape' /\ PooledShape'
      BY <1>11, <1>q DEF PostStop, Postable, Takeable
    <2>4. StoppedIsDrained' /\ JoiningShape'
      BY <1>11, <1>q DEF PostStop, Postable, Takeable
    <2> QED BY <2>1, <2>2, <2>3, <2>4
  <1>12. ASSUME Destroy PROVE IInv'
    <2>1. TypeOK'
      BY <1>12, <1>q DEF Destroy, Enter, Postable, Takeable
    <2>2. RestShape' /\ GoneIsQuiet'
      BY <1>12, <1>q DEF Destroy, Enter, Postable, Takeable
    <2>3. UnpooledShape' /\ PooledShape'
      BY <1>12, <1>q DEF Destroy, Enter, Postable, Takeable
    <2>4. StoppedIsDrained' /\ JoiningShape'
      BY <1>12, <1>q DEF Destroy, Enter, Postable, Takeable
    <2> QED BY <2>1, <2>2, <2>3, <2>4
  <1>13. ASSUME StartFailed PROVE IInv'
    <2>1. TypeOK'
      BY <1>13, <1>q DEF StartFailed, Enter, StopsWhenDrained, Drained, Postable, Takeable
    <2>2. RestShape' /\ GoneIsQuiet'
      BY <1>13, <1>q DEF StartFailed, Enter, StopsWhenDrained, Drained, Postable, Takeable
    <2>3. UnpooledShape' /\ PooledShape'
      BY <1>13, <1>q DEF StartFailed, Enter, StopsWhenDrained, Drained, Postable, Takeable
    <2>4. StoppedIsDrained' /\ JoiningShape'
      BY <1>13, <1>q DEF StartFailed, Enter, StopsWhenDrained, Drained, Postable, Takeable
    <2> QED BY <2>1, <2>2, <2>3, <2>4
  <1>14. ASSUME StopPosts PROVE IInv'
    <2>1. TypeOK'
      BY <1>14, <1>q DEF StopPosts, Enter, Postable, Takeable
    <2>2. RestShape' /\ GoneIsQuiet'
      BY <1>14, <1>q DEF StopPosts, Enter, Postable, Takeable
    <2>3. UnpooledShape' /\ PooledShape'
      BY <1>14, <1>q DEF StopPosts, Enter, Postable, Takeable
    <2>4. StoppedIsDrained' /\ JoiningShape'
      BY <1>14, <1>q DEF StopPosts, Enter, Postable, Takeable
    <2> QED BY <2>1, <2>2, <2>3, <2>4
  <1>15. ASSUME RunReturns PROVE IInv'
    <2>1. TypeOK'
      BY <1>15, <1>q DEF RunReturns, Reset, Return, Enter, Postable, Takeable
    <2>2. RestShape' /\ GoneIsQuiet'
      BY <1>15, <1>q DEF RunReturns, Reset, Return, Enter, Postable, Takeable
    <2>3. UnpooledShape' /\ PooledShape'
      BY <1>15, <1>q DEF RunReturns, Reset, Return, Enter, Postable, Takeable
    <2>4. StoppedIsDrained' /\ JoiningShape'
      BY <1>15, <1>q DEF RunReturns, Reset, Return, Enter, Postable, Takeable
    <2> QED BY <2>1, <2>2, <2>3, <2>4
  <1>16. ASSUME JoinReturns PROVE IInv'
    <2>1. TypeOK'
      BY <1>16, <1>q DEF JoinReturns, Joined, Reset, Return, Enter, Postable, Takeable
    <2>2. RestShape' /\ GoneIsQuiet'
      BY <1>16, <1>q DEF JoinReturns, Joined, Reset, Return, Enter, Postable, Takeable
    <2>3. UnpooledShape' /\ PooledShape'
      BY <1>16, <1>q DEF JoinReturns, Joined, Reset, Return, Enter, Postable, Takeable
    <2>4. StoppedIsDrained' /\ JoiningShape'
      BY <1>16, <1>q DEF JoinReturns, Joined, Reset, Return, Enter, Postable, Takeable
    <2> QED BY <2>1, <2>2, <2>3, <2>4
  <1>17. ASSUME Completes PROVE IInv'
    <2>1. TypeOK'
      BY <1>17, <1>q DEF Completes, Postable, Takeable
    <2>2. RestShape' /\ GoneIsQuiet'
      BY <1>17, <1>q DEF Completes, Postable, Takeable
    <2>3. UnpooledShape' /\ PooledShape'
      BY <1>17, <1>q DEF Completes, Postable, Takeable
    <2>4. StoppedIsDrained' /\ JoiningShape'
      BY <1>17, <1>q DEF Completes, Postable, Takeable
    <2> QED BY <2>1, <2>2, <2>3, <2>4
  <1>18. CASE UNCHANGED vars
    BY <1>18 DEF vars, io_svc
  <1> QED
    BY <1>1, <1>2, <1>3, <1>4, <1>5, <1>6, <1>7, <1>8, <1>9, <1>10, <1>11, <1>12, <1>13, <1>14, <1>15, <1>16, <1>17, <1>18 DEF Next, Thread, Calls, Returns

-----------------------------------------------------------------------------
\* Daemon::start and stop, whatever the pool, the modules and the threads do:
\* between its calls a daemon that is not started has no thread in the
\* io_service, no work and no handler but a post_stop that came too late, and a
\* destroyed one has no thread at all (Daemon.cpp).
THEOREM DaemonAtRest == Spec => []AtRest
  <1>1. Spec => []IInv
    BY InitIInv, NextIInv, PTL DEF Spec
  <1> QED BY <1>1, AtRestFromParts, PTL

-----------------------------------------------------------------------------
(* The registry of the modules, of which Daemon.tla takes startup and shutdown    *)
(* whole, with any threads and modules: the calls of the threads are interleaved  *)
(* step by step, those of constructors nested in others.                          *)

(* Nothing is added and nobody starts the modules again once they are or may be   *)
(* started.                                                                        *)
RegistryInUse == Late = {}

Things == Modules \cup {Nobody}
Frames ==
    [op : {"use", "add", "startup", "shutdown"},
     step : {"look", "make", "keep", "begin", "stuck"}, m : Things]
Registries ==
    [list : Seq(Things), started : BOOLEAN, lock : Users \cup {Nobody},
     stack : [Users -> Seq(Frames)], up : SUBSET Things, twice : BOOLEAN,
     bad : SUBSET Things, given : SUBSET Things, calls : Nat]

\* The calls of a thread: those within a call are of constructors that use modules, and a
\* module is kept only once what its constructor uses was given.
CallStack(q, given) ==
    /\ q \in Seq(Frames) /\ \A i \in 2..Len(q) : q[i].op = "use"
    /\ \A i \in 1..Len(q) : q[i].step = "keep" => Used(q[i].m) \subseteq given
Op(q) == IF q = << >> THEN "none" ELSE q[1].op

\* The modules in their order.
InOrder(list) ==
    /\ list \in Seq(Things)
    /\ \A i, j \in 1..Len(list) : list[i] = list[j] => i = j
    /\ \A i \in 1..Len(list) : \A m \in Used(list[i]) : \E j \in 1..(i - 1) : list[j] = m
Members(list) == {list[i] : i \in 1..Len(list)}

\* A thread that adds a module, or starts them, finds them not started, and one that starts
\* them is alone.
Alone(s) ==
    /\ \A t \in Users : Op(s.stack[t]) \in {"add", "startup"} => ~s.started
    /\ \A t, u \in Users :
          Op(s.stack[t]) = "startup" /\ Op(s.stack[u]) \in {"add", "startup"} => t = u

\* What is started, and what was given, is in the list.
Listed(s) ==
    /\ s.given \subseteq Members(s.list) /\ s.up \subseteq Members(s.list)
    /\ s.started => Members(s.list) \ s.bad \subseteq s.up
    /\ ~s.started => s.up = {}
    /\ ~s.twice

RegistryGood(s) ==
    /\ s \in Registries /\ InOrder(s.list)
    /\ \A t \in Users : CallStack(s.stack[t], s.given)
    /\ Alone(s) /\ Listed(s)

LEMMA UsedAreModules == \A m : Used(m) \subseteq Modules
  BY DEF Used, Modules

LEMMA MembersAre ==
  ASSUME NEW list \in Seq(Things)
  PROVE  DOMAIN list = 1..Len(list) /\ ToSet(list) = Members(list)
         /\ Members(list) \subseteq Things
  BY DEF ToSet, Members

(* A call that ends leaves what called it. *)
LEMMA CallsReturned ==
  ASSUME NEW q, NEW G, CallStack(q, G), q # << >>
  PROVE  CallStack(Tail(q), G) /\ Op(Tail(q)) \in {"none", "use"}
  <1>1. q \in Seq(Frames) /\ Len(q) \in Nat /\ Len(q) >= 1
    BY DEF CallStack
  <1>2. /\ Tail(q) \in Seq(Frames) /\ Len(Tail(q)) = Len(q) - 1
        /\ \A i \in 1..Len(Tail(q)) : Tail(q)[i] = q[i + 1]
    BY <1>1, HeadTailProperties
  <1>3. \A i \in 1..Len(Tail(q)) : i + 1 \in 2..Len(q) /\ i + 1 \in 1..Len(q)
    BY <1>1, <1>2
  <1>4. CallStack(Tail(q), G)
    BY <1>2, <1>3 DEF CallStack
  <1>5. Tail(q) = << >> \/ Tail(q)[1].op = "use"
    <2>1. CASE Len(Tail(q)) >= 1
      <3>1. 1 \in 1..Len(Tail(q))
        BY <1>1, <1>2, <2>1
      <3>2. Tail(q)[1] = q[2] /\ 2 \in 2..Len(q)
        BY <1>1, <1>2, <2>1, <3>1
      <3> QED BY <3>2 DEF CallStack
    <2>2. CASE Len(Tail(q)) = 0
      BY <1>2, <2>2, EmptySeq
    <2> QED BY <1>1, <1>2, <2>1, <2>2
  <1> QED BY <1>4, <1>5 DEF Op

(* A call goes on to its next step. *)
LEMMA CallsGoOn ==
  ASSUME NEW q, NEW G, CallStack(q, G), q # << >>,
         NEW x \in {"look", "make", "keep", "begin", "stuck"},
         x = "keep" => Used(q[1].m) \subseteq G
  PROVE  CallStack([q EXCEPT ![1].step = x], G) /\ Op([q EXCEPT ![1].step = x]) = Op(q)
  <1>1. q \in Seq(Frames) /\ Len(q) \in Nat /\ Len(q) >= 1 /\ q[1] \in Frames
    BY DEF CallStack
  <1> DEFINE f == [q[1] EXCEPT !.step = x]
             p == [q EXCEPT ![1] = f]
  <1>2. f \in Frames /\ f.step = x /\ f.op = q[1].op /\ f.m = q[1].m
    BY <1>1 DEF Frames
  <1>3. [q EXCEPT ![1].step = x] = p
    OBVIOUS
  <1> HIDE DEF f
  <1>4. p \in Seq(Frames) /\ Len(p) = Len(q) /\ p[1] = f /\ \A i \in 2..Len(q) : p[i] = q[i]
    BY <1>1, <1>2
  <1> HIDE DEF p
  <1>5. \A i \in 1..Len(p) : i = 1 \/ i \in 2..Len(q)
    BY <1>1, <1>4
  <1>6. CallStack(p, G)
    BY <1>2, <1>4, <1>5 DEF CallStack
  <1>7. p # << >>
    BY <1>1, <1>4
  <1> QED BY <1>2, <1>3, <1>4, <1>6, <1>7 DEF Op

(* A constructor uses another module. *)
LEMMA CallsDeeper ==
  ASSUME NEW q, NEW G, CallStack(q, G), q # << >>, q[1].op = "use",
         NEW f \in Frames, f.op = "use", f.step = "look"
  PROVE  CallStack(<<f>> \o q, G) /\ Op(<<f>> \o q) = "use"
  <1>1. q \in Seq(Frames) /\ Len(q) \in Nat
    BY DEF CallStack
  <1> DEFINE p == <<f>> \o q
  <1>2. /\ p \in Seq(Frames) /\ Len(p) = Len(q) + 1 /\ p[1] = f
        /\ \A i \in 2..Len(p) : p[i] = q[i - 1] /\ i - 1 \in 1..Len(q)
    BY <1>1
  <1> HIDE DEF p
  <1>3. \A i \in 1..Len(q) : q[i].op = "use"
    <2>1. \A i \in 1..Len(q) : i = 1 \/ i \in 2..Len(q)
      BY <1>1
    <2> QED BY <2>1 DEF CallStack
  <1>4. \A i \in 2..Len(p) : p[i].op = "use"
    BY <1>2, <1>3
  <1>5. \A i \in 1..Len(p) : p[i].step = "keep" => Used(p[i].m) \subseteq G
    <2>1. \A i \in 1..Len(p) : i = 1 \/ i \in 2..Len(p)
      BY <1>1, <1>2
    <2>2. \A i \in 1..Len(q) : q[i].step = "keep" => Used(q[i].m) \subseteq G
      BY DEF CallStack
    <2> QED BY <1>2, <2>1, <2>2
  <1>6. p # << >>
    BY <1>1, <1>2
  <1> QED BY <1>2, <1>4, <1>5, <1>6 DEF CallStack, Op, p

LEMMA CallsWithMore ==
  ASSUME NEW q, NEW G, NEW H, CallStack(q, G), G \subseteq H
  PROVE  CallStack(q, H)
  BY DEF CallStack

(* A module that is not there goes behind those it uses. *)
LEMMA OneMore ==
  ASSUME NEW list, InOrder(list), NEW m \in Things, m \notin Members(list),
         Used(m) \subseteq Members(list)
  PROVE  InOrder(Append(list, m)) /\ Members(Append(list, m)) = Members(list) \cup {m}
  <1>1. list \in Seq(Things) /\ Len(list) \in Nat
    BY DEF InOrder
  <1> DEFINE p == Append(list, m)
  <1>2. /\ p \in Seq(Things) /\ Len(p) = Len(list) + 1 /\ p[Len(p)] = m
        /\ \A i \in 1..Len(list) : p[i] = list[i]
    BY <1>1
  <1> HIDE DEF p
  <1>3. \A i \in 1..Len(p) : i = Len(p) \/ i \in 1..Len(list)
    BY <1>1, <1>2
  <1>4. Members(p) = Members(list) \cup {m}
    <2>1. Len(p) \in 1..Len(p) /\ 1..Len(list) \subseteq 1..Len(p)
      BY <1>1, <1>2
    <2> QED BY <1>2, <1>3, <2>1 DEF Members
  <1>5. ASSUME NEW i \in 1..Len(p), NEW j \in 1..Len(p), p[i] = p[j]
        PROVE  i = j
    BY <1>2, <1>3, <1>5 DEF InOrder, Members
  <1>6. ASSUME NEW i \in 1..Len(p), NEW n \in Used(p[i])
        PROVE  \E j \in 1..(i - 1) : p[j] = n
    <2>1. CASE i = Len(p)
      <3>1. n \in Members(list) /\ i - 1 = Len(list)
        BY <1>1, <1>2, <1>6, <2>1
      <3> QED BY <1>2, <3>1 DEF Members
    <2>2. CASE i \in 1..Len(list)
      <3>1. PICK j \in 1..(i - 1) : list[j] = n
        BY <1>2, <1>6, <2>2 DEF InOrder
      <3>2. j \in 1..Len(list)
        BY <1>1, <2>2
      <3> QED BY <1>2, <3>1, <3>2
    <2> QED BY <1>3, <2>1, <2>2
  <1>7. InOrder(p)
    BY <1>2, <1>5, <1>6 DEF InOrder
  <1> QED BY <1>4, <1>7 DEF p

(* What is left of the invariant when the calls of one thread go on. *)
LEMMA OneGoesOn ==
  ASSUME NEW s, RegistryGood(s), NEW n \in Registries, NEW t \in Users, NEW q,
         n.stack = [s.stack EXCEPT ![t] = q], CallStack(q, n.given), s.given \subseteq n.given,
         Op(q) \in {"none", "use", Op(s.stack[t])},
         n.started => s.started \/ (Op(s.stack[t]) = "startup" /\ Op(q) \in {"none", "use"})
  PROVE  (\A u \in Users : CallStack(n.stack[u], n.given)) /\ Alone(n)
  <1>1. s.stack \in [Users -> Seq(Frames)]
    BY DEF RegistryGood, Registries
  <1>2. n.stack[t] = q /\ \A u \in Users : u # t => n.stack[u] = s.stack[u]
    BY <1>1
  <1>3. \A u \in Users : CallStack(n.stack[u], n.given)
    BY <1>2, CallsWithMore DEF RegistryGood
  <1>4. \A u \in Users : Op(n.stack[u]) \in {"add", "startup"} => Op(n.stack[u]) = Op(s.stack[u])
    BY <1>2
  <1>5. /\ \A u \in Users : Op(s.stack[u]) \in {"add", "startup"} => ~s.started
        /\ \A u, v \in Users :
              Op(s.stack[u]) = "startup" /\ Op(s.stack[v]) \in {"add", "startup"} => u = v
    BY DEF RegistryGood, Alone
  <1>6. \A u \in Users : Op(n.stack[u]) \in {"add", "startup"} => ~n.started
    <2> SUFFICES ASSUME NEW u \in Users, Op(n.stack[u]) \in {"add", "startup"}, n.started
                 PROVE  FALSE
      OBVIOUS
    <2>1. Op(s.stack[u]) \in {"add", "startup"} /\ ~s.started
      BY <1>4, <1>5
    <2>2. Op(s.stack[t]) = "startup" /\ Op(q) \in {"none", "use"}
      BY <2>1
    <2>3. u = t
      BY <1>5, <2>1, <2>2
    <2> QED BY <1>2, <2>2, <2>3
  <1>7. \A u, v \in Users :
           Op(n.stack[u]) = "startup" /\ Op(n.stack[v]) \in {"add", "startup"} => u = v
    BY <1>4, <1>5
  <1> QED BY <1>3, <1>6, <1>7 DEF Alone

\* Two states of the registry with the same modules in the same state.
ModulesAs(n, s) ==
    n.list = s.list /\ n.started = s.started /\ n.up = s.up /\ n.twice = s.twice /\ n.bad = s.bad

(* A call that changes only what is under way. *)
LEMMA NothingElse ==
  ASSUME NEW s, RegistryGood(s), NEW n \in Registries, NEW t \in Users, NEW q,
         n.stack = [s.stack EXCEPT ![t] = q], CallStack(q, n.given), ModulesAs(n, s),
         s.given \subseteq n.given, n.given \subseteq Members(s.list),
         Op(q) \in {"none", "use", Op(s.stack[t])}
  PROVE  RegistryGood(n)
  <1>1. (\A u \in Users : CallStack(n.stack[u], n.given)) /\ Alone(n)
    <2>1. n.started => s.started
      BY DEF ModulesAs
    <2> QED BY <2>1, OneGoesOn
  <1>2. InOrder(n.list) /\ Listed(n)
    BY DEF RegistryGood, Listed, ModulesAs
  <1> QED BY <1>1, <1>2 DEF RegistryGood

LEMMA TopIs ==
  ASSUME NEW t \in Users, NEW op, NEW step, RegistryGood(registry), At(t, op, step)
  PROVE  /\ registry.stack[t] \in Seq(Frames) /\ registry.stack[t] # << >>
         /\ registry.stack[t][1] \in Frames /\ registry.stack[t][1].m \in Things
         /\ Top(t) = registry.stack[t][1]
         /\ registry.stack[t][1].op = op /\ registry.stack[t][1].step = step
         /\ Op(registry.stack[t]) = op
         /\ CallStack(registry.stack[t], registry.given)
         /\ registry \in Registries
  <1>1. registry.stack[t] \in Seq(Frames) /\ registry.stack[t] # << >>
    BY DEF RegistryGood, Registries, At
  <1>2. Len(registry.stack[t]) >= 1
    BY <1>1
  <1>3. registry.stack[t][1] \in Frames
    BY <1>1, <1>2
  <1>4. Top(t) = registry.stack[t][1]
    BY <1>1, HeadTailProperties DEF Top
  <1>5. registry.stack[t][1].m \in Things
    BY <1>3 DEF Frames
  <1> QED BY <1>1, <1>3, <1>4, <1>5 DEF At, Op, RegistryGood

(* A call that goes on to another step, with the mutex or without. *)
LEMMA GoesTo ==
  ASSUME NEW t \in Users, RegistryGood(registry), registry.stack[t] # << >>,
         NEW x \in {"look", "make", "keep", "begin", "stuck"},
         x = "keep" => Used(registry.stack[t][1].m) \subseteq registry.given,
         \/ registry' = To(registry, t, x)
         \/ registry' = [To(registry, t, x) EXCEPT !.lock = t]
  PROVE  RegistryGood(registry')
  <1> DEFINE q == [registry.stack[t] EXCEPT ![1].step = x]
             n == To(registry, t, x)
  <1>1. registry \in Registries /\ CallStack(registry.stack[t], registry.given)
        /\ registry.given \subseteq Members(registry.list)
    BY DEF RegistryGood, Listed
  <1>2. CallStack(q, registry.given) /\ Op(q) = Op(registry.stack[t])
    BY <1>1, CallsGoOn
  <1>3. n = [registry EXCEPT !.stack[t] = q]
    BY DEF To
  <1>4. q \in Seq(Frames)
    BY <1>2 DEF CallStack
  <1> DEFINE k == [registry.stack EXCEPT ![t] = q]
  <1> HIDE DEF q
  <1>7. k \in [Users -> Seq(Frames)]
    BY <1>1, <1>4 DEF Registries
  <1>8. n = [registry EXCEPT !.stack = k]
    BY <1>3
  <1> HIDE DEF n, k
  <1>5. /\ n \in Registries /\ n.stack = k /\ n.given = registry.given
        /\ ModulesAs(n, registry)
    BY <1>1, <1>7, <1>8 DEF Registries, ModulesAs
  <1>6. /\ registry' \in Registries /\ registry'.stack = k
        /\ registry'.given = registry.given /\ ModulesAs(registry', registry)
    <2>1. CASE registry' = n
      BY <1>5, <2>1
    <2>2. CASE registry' = [n EXCEPT !.lock = t]
      <3>1. registry' \in Registries
        BY <1>5, <2>2 DEF Registries
      <3>2. /\ registry'.stack = n.stack /\ registry'.given = n.given /\ registry'.list = n.list
            /\ registry'.started = n.started /\ registry'.up = n.up
            /\ registry'.twice = n.twice /\ registry'.bad = n.bad
        BY <1>5, <2>2 DEF Registries
      <3> QED BY <1>5, <3>1, <3>2 DEF ModulesAs
    <2> QED BY <2>1, <2>2 DEF n
  <1> QED BY <1>1, <1>2, <1>6, NothingElse DEF k

(* A call that ends, and leaves the modules as it should. *)
LEMMA CallReturns ==
  ASSUME NEW t \in Users, RegistryGood(registry), registry.stack[t] # << >>,
         NEW s \in Registries, s.stack = registry.stack, registry.given \subseteq s.given,
         InOrder(s.list), Listed(s),
         s.started => registry.started \/ Op(registry.stack[t]) = "startup",
         registry' = Returned(s, t)
  PROVE  RegistryGood(registry')
  <1> DEFINE q == Tail(registry.stack[t])
             k == [registry.stack EXCEPT ![t] = q]
  <1>1. CallStack(registry.stack[t], s.given)
    BY CallsWithMore DEF RegistryGood
  <1>2. CallStack(q, s.given) /\ Op(q) \in {"none", "use"}
    BY <1>1, CallsReturned
  <1>3. q \in Seq(Frames)
    BY <1>2 DEF CallStack
  <1>4. registry' = [s EXCEPT !.stack = k]
    BY DEF Returned
  <1> HIDE DEF q
  <1>5. k \in [Users -> Seq(Frames)]
    BY <1>3 DEF Registries, RegistryGood
  <1> HIDE DEF k
  <1>6. /\ registry' \in Registries /\ registry'.stack = k /\ registry'.given = s.given
        /\ ModulesAs(registry', s)
    BY <1>4, <1>5 DEF Registries, ModulesAs
  <1>7. (\A u \in Users : CallStack(registry'.stack[u], registry'.given)) /\ Alone(registry')
    <2>1. registry'.started => registry.started \/ Op(registry.stack[t]) = "startup"
      BY <1>6 DEF ModulesAs
    <2>2. registry'.stack = [registry.stack EXCEPT ![t] = q]
      BY <1>6 DEF k
    <2> QED BY <1>2, <1>6, <2>1, <2>2, OneGoesOn
  <1>8. InOrder(registry'.list) /\ Listed(registry')
    BY <1>6 DEF Listed, ModulesAs
  <1> QED BY <1>6, <1>7, <1>8 DEF RegistryGood

(* use_module gives a module that is in the list. *)
LEMMA Gives ==
  ASSUME NEW t \in Users, RegistryGood(registry), registry.stack[t] # << >>,
         NEW s \in Registries, s.stack = registry.stack, registry.given = s.given,
         InOrder(s.list), Listed(s), s.started => registry.started,
         registry.stack[t][1].m \in Members(s.list),
         registry' = Give(s, t)
  PROVE  RegistryGood(registry')
  <1> DEFINE g == s.given \cup {registry.stack[t][1].m}
             n == [s EXCEPT !.lock = Nobody, !.given = g]
  <1>1. registry' = Returned(n, t)
    BY DEF Give
  <1>2. g \subseteq Members(s.list) /\ g \subseteq Things /\ s.given \subseteq g
    <2>1. s.list \in Seq(Things)
      BY DEF Registries
    <2> QED BY <2>1, MembersAre DEF Listed
  <1> HIDE DEF g
  <1>3. n \in Registries /\ n.stack = s.stack /\ n.given = g /\ ModulesAs(n, s)
    BY <1>2 DEF Registries, ModulesAs
  <1> HIDE DEF n
  <1>4. InOrder(n.list) /\ Listed(n) /\ (n.started => registry.started)
    BY <1>2, <1>3 DEF Listed, ModulesAs
  <1> QED BY <1>1, <1>2, <1>3, <1>4, CallReturns

LEMMA HasIs ==
  ASSUME NEW s \in Registries, NEW m
  PROVE  Has(s, m) <=> m \in Members(s.list)
  <1>1. s.list \in Seq(Things)
    BY DEF Registries
  <1> QED BY <1>1, MembersAre DEF Has, Members

LEMMA LooksWell ==
  ASSUME NEW t \in Users, RegistryGood(registry), use_module_Look(t)
  PROVE  RegistryGood(registry')
  <1>1. At(t, "use", "look")
    BY DEF use_module_Look
  <1>2. /\ registry.stack[t] # << >> /\ Top(t) = registry.stack[t][1]
        /\ registry \in Registries /\ InOrder(registry.list) /\ Listed(registry)
    BY <1>1, TopIs DEF RegistryGood
  <1>3. CASE Has(registry, Top(t).m)
    <2>1. registry' = Give(registry, t)
      BY <1>3 DEF use_module_Look
    <2>2. registry.stack[t][1].m \in Members(registry.list)
      BY <1>2, <1>3, HasIs
    <2> QED BY <1>2, <2>1, <2>2, Gives
  <1>4. CASE ~Has(registry, Top(t).m)
    <2>1. registry' = To(registry, t, "make")
      BY <1>4 DEF use_module_Look
    <2> QED BY <1>2, <2>1, GoesTo
  <1> QED BY <1>3, <1>4

LEMMA MakesWell ==
  ASSUME NEW t \in Users, RegistryGood(registry), use_module_Make(t)
  PROVE  RegistryGood(registry')
  <1>1. At(t, "use", "make")
    BY DEF use_module_Make
  <1>2. /\ registry.stack[t] # << >> /\ Top(t) = registry.stack[t][1]
        /\ registry \in Registries /\ Listed(registry) /\ registry.stack[t][1].op = "use"
        /\ registry.stack[t] \in Seq(Frames) /\ Op(registry.stack[t]) = "use"
        /\ CallStack(registry.stack[t], registry.given)
    BY <1>1, TopIs DEF RegistryGood
  <1> DEFINE need == Used(Top(t).m) \ registry.given
  <1>3. CASE need = {}
    <2>1. registry' = To(registry, t, "keep")
      BY <1>3 DEF use_module_Make
    <2>2. Used(registry.stack[t][1].m) \subseteq registry.given
      BY <1>2, <1>3
    <2> QED BY <1>2, <2>1, <2>2, GoesTo
  <1>4. CASE need # {}
    <2> DEFINE m == CHOOSE m \in need : TRUE
               f == Frame("use", "look", m)
               q == <<f>> \o registry.stack[t]
               k == [registry.stack EXCEPT ![t] = q]
    <2>1. m \in Things
      <3>1. m \in need
        BY <1>4
      <3> QED BY <3>1, UsedAreModules DEF Things
    <2>2. registry' = [registry EXCEPT !.stack = k]
      BY <1>4 DEF use_module_Make
    <2> HIDE DEF m
    <2>3. f \in Frames /\ f.op = "use" /\ f.step = "look"
      BY <2>1 DEF Frame, Frames
    <2> HIDE DEF f
    <2>4. CallStack(q, registry.given) /\ Op(q) = "use"
      BY <1>2, <2>3, CallsDeeper
    <2> HIDE DEF q
    <2>5. k \in [Users -> Seq(Frames)]
      BY <1>2, <2>4 DEF Registries, CallStack
    <2> HIDE DEF k
    <2>6. /\ registry' \in Registries /\ registry'.stack = k /\ registry'.given = registry.given
          /\ ModulesAs(registry', registry)
      BY <1>2, <2>2, <2>5 DEF Registries, ModulesAs
    <2>7. registry.given \subseteq Members(registry.list)
      BY <1>2 DEF Listed
    <2>8. registry'.stack = [registry.stack EXCEPT ![t] = q]
      BY <2>6 DEF k
    <2> QED BY <2>4, <2>6, <2>7, <2>8, NothingElse
  <1> QED BY <1>3, <1>4

(* The module is kept, and started if the others were. *)
LEMMA KeptIs ==
  ASSUME RegistryGood(registry), NEW m \in Things, NEW ok \in BOOLEAN,
         Used(m) \subseteq registry.given
  PROVE  LET s == Kept(registry, m, ok)
         IN  /\ s \in Registries /\ s.stack = registry.stack /\ s.given = registry.given
             /\ InOrder(s.list) /\ Listed(s) /\ s.started = registry.started
             /\ m \in Members(s.list)
  <1> DEFINE s == Kept(registry, m, ok)
             l == Append(registry.list, m)
             k == [registry EXCEPT !.list = l]
  <1>1. /\ registry \in Registries /\ InOrder(registry.list) /\ Listed(registry)
        /\ registry.list \in Seq(Things)
    BY DEF RegistryGood, InOrder
  <1>2. CASE Has(registry, m)
    BY <1>1, <1>2, HasIs DEF Kept
  <1>3. CASE ~Has(registry, m)
    <2>1. m \notin Members(registry.list) /\ Used(m) \subseteq Members(registry.list)
      BY <1>1, <1>3, HasIs DEF Listed
    <2>2. InOrder(l) /\ Members(l) = Members(registry.list) \cup {m}
      BY <1>1, <2>1, OneMore
    <2> HIDE DEF l
    <2>3. l \in Seq(Things)
      BY <2>2 DEF InOrder
    <2>4. /\ k \in Registries /\ k.list = l /\ k.stack = registry.stack /\ k.given = registry.given
          /\ k.started = registry.started /\ k.up = registry.up /\ k.twice = registry.twice
          /\ k.bad = registry.bad
      BY <1>1, <2>3 DEF Registries
    <2>5. s = IF ~registry.started THEN k
              ELSE IF ok THEN StartedUp(k, {m}) ELSE [k EXCEPT !.bad = @ \cup {m}]
      BY <1>3 DEF Kept, l
    <2> HIDE DEF k, s
    <2>6. CASE ~registry.started
      <3>1. s = k
        BY <2>5, <2>6
      <3> QED BY <1>1, <2>2, <2>4, <2>6, <3>1 DEF Listed, s
    <2>7. CASE registry.started /\ ok
      <3> DEFINE p == k.up \cup {m}
                 w == (k.twice \/ {m} \cap k.up # {})
      <3>1. s = [k EXCEPT !.up = p, !.twice = w]
        BY <2>5, <2>7 DEF StartedUp
      <3>2. p \in SUBSET Things /\ w = FALSE
        BY <1>1, <2>1, <2>4 DEF Listed, Registries
      <3> HIDE DEF p, w
      <3>3. /\ s \in Registries /\ s.list = l /\ s.stack = registry.stack
            /\ s.given = registry.given /\ s.started = registry.started /\ s.up = p
            /\ s.twice = FALSE /\ s.bad = registry.bad
        BY <2>4, <3>1, <3>2 DEF Registries
      <3>4. Listed(s)
        BY <1>1, <2>2, <2>4, <2>7, <3>3 DEF Listed, p
      <3> QED BY <2>2, <3>3, <3>4 DEF s
    <2>8. CASE registry.started /\ ~ok
      <3> DEFINE b == k.bad \cup {m}
      <3>1. s = [k EXCEPT !.bad = b]
        BY <2>5, <2>8
      <3>2. b \in SUBSET Things
        BY <2>4 DEF Registries
      <3> HIDE DEF b
      <3>3. /\ s \in Registries /\ s.list = l /\ s.stack = registry.stack
            /\ s.given = registry.given /\ s.started = registry.started /\ s.up = registry.up
            /\ s.twice = registry.twice /\ s.bad = b
        BY <2>4, <3>1, <3>2 DEF Registries
      <3>4. Listed(s)
        BY <1>1, <2>2, <2>4, <2>8, <3>3 DEF Listed, b
      <3> QED BY <2>2, <3>3, <3>4 DEF s
    <2> QED BY <2>6, <2>7, <2>8
  <1> QED BY <1>2, <1>3

LEMMA KeepsWell ==
  ASSUME NEW t \in Users, RegistryGood(registry), use_module_Keep(t)
  PROVE  RegistryGood(registry')
  <1>1. At(t, "use", "keep")
    BY DEF use_module_Keep
  <1> DEFINE m == registry.stack[t][1].m
  <1>2. /\ registry.stack[t] # << >> /\ Top(t) = registry.stack[t][1]
        /\ registry.stack[t] \in Seq(Frames) /\ registry.stack[t][1].step = "keep"
        /\ m \in Things /\ CallStack(registry.stack[t], registry.given)
    BY <1>1, TopIs
  <1>3. Used(m) \subseteq registry.given
    <2>1. 1 \in 1..Len(registry.stack[t])
      BY <1>2
    <2> QED BY <1>2, <2>1 DEF CallStack
  <1>4. PICK ok \in BOOLEAN :
           \/ registry' = [To(registry, t, "stuck") EXCEPT !.lock = t]
           \/ registry' = Give(Kept(registry, m, ok), t)
    BY <1>2 DEF use_module_Keep
  <1>5. CASE registry' = [To(registry, t, "stuck") EXCEPT !.lock = t]
    BY <1>2, <1>5, GoesTo
  <1>6. CASE registry' = Give(Kept(registry, m, ok), t)
    <2> HIDE DEF m
    <2>1. PICK s : s = Kept(registry, m, ok)
      OBVIOUS
    <2>2. /\ s \in Registries /\ s.stack = registry.stack /\ registry.given = s.given
          /\ InOrder(s.list) /\ Listed(s) /\ s.started = registry.started /\ m \in Members(s.list)
      BY <1>2, <1>3, <2>1, KeptIs
    <2>3. registry' = Give(s, t)
      BY <1>6, <2>1
    <2> QED BY <1>2, <2>2, <2>3, Gives DEF m
  <1> QED BY <1>4, <1>5, <1>6

LEMMA AddsWell ==
  ASSUME NEW t \in Users, RegistryGood(registry), add_module(t)
  PROVE  RegistryGood(registry')
  <1>1. At(t, "add", "look")
    BY DEF add_module
  <1> DEFINE m == registry.stack[t][1].m
  <1>2. /\ registry.stack[t] # << >> /\ Top(t) = registry.stack[t][1]
        /\ Op(registry.stack[t]) = "add" /\ m \in Things
        /\ registry \in Registries /\ InOrder(registry.list) /\ Listed(registry)
    BY <1>1, TopIs DEF RegistryGood
  <1>3. ~registry.started
    BY <1>2 DEF RegistryGood, Alone
  <1>4. CASE registry' = Returned(registry, t)
    BY <1>2, <1>4, CallReturns
  <1>5. CASE registry' # Returned(registry, t)
    <2> DEFINE l == Append(registry.list, m)
               n == [registry EXCEPT !.list = l]
    <2>1. /\ ~Has(registry, m) /\ Used(m) \subseteq registry.given
          /\ registry' = Returned(n, t)
      BY <1>2, <1>5 DEF add_module
    <2>2. m \notin Members(registry.list) /\ Used(m) \subseteq Members(registry.list)
      BY <1>2, <2>1, HasIs DEF Listed
    <2>3. InOrder(l) /\ Members(l) = Members(registry.list) \cup {m}
      BY <1>2, <2>2, OneMore
    <2> HIDE DEF l, m
    <2>4. l \in Seq(Things)
      BY <2>3 DEF InOrder
    <2>5. /\ n \in Registries /\ n.list = l /\ n.stack = registry.stack /\ n.given = registry.given
          /\ n.started = registry.started /\ n.up = registry.up /\ n.twice = registry.twice
      BY <1>2, <2>4 DEF Registries
    <2> HIDE DEF n
    <2>6. InOrder(n.list) /\ Listed(n)
      BY <1>2, <1>3, <2>3, <2>5 DEF Listed
    <2> QED BY <1>2, <1>3, <2>1, <2>5, <2>6, CallReturns
  <1> QED BY <1>4, <1>5

LEMMA StartsWell ==
  ASSUME NEW t \in Users, RegistryGood(registry), startup(t)
  PROVE  RegistryGood(registry')
  <1>1. At(t, "startup", "begin")
    BY DEF startup
  <1>2. /\ registry.stack[t] # << >> /\ Op(registry.stack[t]) = "startup"
        /\ registry \in Registries /\ InOrder(registry.list) /\ Listed(registry)
        /\ registry.list \in Seq(Things)
    BY <1>1, TopIs DEF RegistryGood, InOrder
  <1>3. ~registry.started /\ registry.up = {} /\ registry.twice = FALSE
    <2>1. ~registry.started
      BY <1>2 DEF RegistryGood, Alone
    <2> QED BY <1>2, <2>1 DEF Listed, Registries
  <1>4. PICK n \in 1..(Len(registry.list) + 1) :
           \/ registry' = [To(registry, t, "stuck") EXCEPT !.lock = t]
           \/ registry' = Returned(startup_Failed(registry, n), t)
           \/ registry' = Returned([StartedUp(registry, ToSet(registry.list))
                                              EXCEPT !.started = TRUE], t)
    BY DEF startup
  <1>5. CASE registry' = [To(registry, t, "stuck") EXCEPT !.lock = t]
    BY <1>2, <1>5, GoesTo
  <1>6. CASE registry' = Returned(startup_Failed(registry, n), t)
    <2> DEFINE ms == {registry.list[i] : i \in 1..(n - 1)}
               w == (registry.twice \/ ms \cap registry.up # {})
               p == registry.up \cup ms
               s == [[registry EXCEPT !.up = p, !.twice = w] EXCEPT !.up = registry.up]
    <2>1. registry' = Returned(s, t)
      BY <1>6 DEF startup_Failed, StartedUp
    <2>2. w = FALSE
      BY <1>3
    <2> HIDE DEF p, w
    <2>3. s \in Registries /\ s.stack = registry.stack /\ s.given = registry.given /\ ModulesAs(s, registry)
      BY <1>2, <1>3, <2>2 DEF Registries, ModulesAs
    <2> HIDE DEF s
    <2>4. InOrder(s.list) /\ Listed(s) /\ ~s.started
      BY <1>2, <1>3, <2>3 DEF Listed, ModulesAs
    <2> QED BY <1>2, <2>1, <2>3, <2>4, CallReturns
  <1>7. CASE registry' = Returned([StartedUp(registry, ToSet(registry.list))
                                              EXCEPT !.started = TRUE], t)
    <2> DEFINE ms == ToSet(registry.list)
               w == (registry.twice \/ ms \cap registry.up # {})
               p == registry.up \cup ms
               s == [[registry EXCEPT !.up = p, !.twice = w] EXCEPT !.started = TRUE]
    <2>1. registry' = Returned(s, t)
      BY <1>7 DEF StartedUp
    <2>2. w = FALSE /\ p = Members(registry.list) /\ p \in SUBSET Things
      BY <1>2, <1>3, MembersAre
    <2> HIDE DEF p, w
    <2>3. /\ s \in Registries /\ s.stack = registry.stack /\ s.given = registry.given
          /\ s.list = registry.list /\ s.up = p /\ s.twice = FALSE /\ s.started = TRUE
      BY <1>2, <2>2 DEF Registries
    <2> HIDE DEF s
    <2>4. InOrder(s.list) /\ Listed(s)
      BY <1>2, <2>2, <2>3 DEF Listed
    <2> QED BY <1>2, <2>1, <2>3, <2>4, CallReturns
  <1> QED BY <1>4, <1>5, <1>6, <1>7

LEMMA ShutsDownWell ==
  ASSUME NEW t \in Users, RegistryGood(registry), shutdown(t)
  PROVE  RegistryGood(registry')
  <1>1. At(t, "shutdown", "begin")
    BY DEF shutdown
  <1>2. /\ registry.stack[t] # << >> /\ registry \in Registries
        /\ InOrder(registry.list) /\ Listed(registry) /\ registry.list \in Seq(Things)
    BY <1>1, TopIs DEF RegistryGood, InOrder
  <1>3. CASE ~registry.started
    <2>1. registry' = Returned(registry, t)
      BY <1>3 DEF shutdown
    <2> QED BY <1>2, <2>1, CallReturns
  <1>4. CASE registry.started
    <2> DEFINE p == registry.up \ ToSet(registry.list)
               s == [registry EXCEPT !.up = p, !.started = FALSE, !.bad = {}]
    <2>1. registry' = Returned(s, t)
      BY <1>4 DEF shutdown
    <2>2. p = {}
      BY <1>2, MembersAre DEF Listed
    <2> HIDE DEF p
    <2>3. /\ s \in Registries /\ s.stack = registry.stack /\ s.given = registry.given
          /\ s.list = registry.list /\ s.up = {} /\ s.twice = registry.twice /\ s.started = FALSE
      BY <1>2, <2>2 DEF Registries
    <2> HIDE DEF s
    <2>4. InOrder(s.list) /\ Listed(s)
      BY <1>2, <2>3 DEF Listed
    <2> QED BY <1>2, <2>1, <2>3, <2>4, CallReturns
  <1> QED BY <1>3, <1>4

(* A thread that calls nothing calls something. *)
LEMMA CallsWell ==
  ASSUME RegistryInUse, NEW t \in Users, RegistryGood(registry), Call(t)
  PROVE  RegistryGood(registry')
  <1>1. PICK f : /\ f \in {Frame("use", "look", m) : m \in Modules}
                         \cup {Frame("add", "look", m) : m \in Modules}
                         \cup {Frame(op, "begin", Nobody) : op \in {"startup", "shutdown"}}
                 /\ f.op \in {"add", "startup"} => ~Starting
                 /\ f.op = "startup" => ~Adding
                 /\ registry' = [registry EXCEPT !.stack[t] = <<f>>, !.calls = @ + 1]
    BY DEF Call, RegistryInUse
  <1>2. f \in Frames /\ f.step # "keep"
    BY <1>1 DEF Frame, Frames, Things
  <1>3. registry.stack[t] = << >> /\ registry \in Registries
    BY DEF Call, RegistryGood
  <1> DEFINE q == <<f>>
             k == [registry.stack EXCEPT ![t] = q]
             c == registry.calls + 1
  <1>4. q \in Seq(Frames) /\ Len(q) = 1 /\ q[1] = f /\ q # << >>
    BY <1>2
  <1>5. CallStack(q, registry.given) /\ Op(q) = f.op
    BY <1>2, <1>4 DEF CallStack, Op
  <1>6. registry' = [registry EXCEPT !.stack = k, !.calls = c]
    BY <1>1
  <1> HIDE DEF q
  <1>7. k \in [Users -> Seq(Frames)] /\ c \in Nat
    BY <1>3, <1>4 DEF Registries
  <1> HIDE DEF c
  <1>8. k[t] = q /\ \A u \in Users : u # t => k[u] = registry.stack[u]
    BY <1>3 DEF Registries
  <1> HIDE DEF k
  <1>9. /\ registry' \in Registries /\ registry'.stack = k /\ registry'.given = registry.given
        /\ ModulesAs(registry', registry)
    BY <1>3, <1>6, <1>7 DEF Registries, ModulesAs
  <1>10. \A u \in Users : CallStack(registry'.stack[u], registry'.given)
    BY <1>5, <1>8, <1>9 DEF RegistryGood
  <1>11. InOrder(registry'.list) /\ Listed(registry')
    BY <1>9 DEF RegistryGood, Listed, ModulesAs
  <1>12. \A u \in Users : /\ Op(registry.stack[u]) = "startup" => Starting
                          /\ Op(registry.stack[u]) = "add" => Adding
    <2> SUFFICES ASSUME NEW u \in Users, registry.stack[u] # << >>
                 PROVE  /\ registry.stack[u][1].op = "startup" => Starting
                        /\ registry.stack[u][1].op = "add" => Adding
      BY DEF Op
    <2>1. registry.stack[u] \in Seq(Frames)
      BY <1>3 DEF Registries
    <2>2. Top(u) = registry.stack[u][1]
      BY <2>1, HeadTailProperties DEF Top
    <2> QED BY <2>2 DEF Starting, Adding
  <1>13. registry.started => Starting
    BY DEF Starting
  <1>14. Alone(registry)
    BY DEF RegistryGood
  <1>15. Alone(registry')
    <2>1. registry'.started = registry.started
      BY <1>9 DEF ModulesAs
    <2>2. ASSUME NEW u \in Users, Op(k[u]) \in {"add", "startup"}
          PROVE  ~registry.started
      BY <1>1, <1>5, <1>8, <1>13, <1>14, <2>2 DEF Alone
    <2>3. ASSUME NEW u \in Users, NEW v \in Users, Op(k[u]) = "startup",
                 Op(k[v]) \in {"add", "startup"}
          PROVE  u = v
      <3>1. CASE u = t
        BY <1>1, <1>5, <1>8, <1>12, <2>3, <3>1
      <3>2. CASE v = t
        BY <1>1, <1>5, <1>8, <1>12, <2>3, <3>2
      <3>3. CASE u # t /\ v # t
        BY <1>8, <1>14, <2>3, <3>3 DEF Alone
      <3> QED BY <3>1, <3>2, <3>3
    <2> QED BY <1>9, <2>1, <2>2, <2>3 DEF Alone
  <1> QED BY <1>9, <1>10, <1>11, <1>15 DEF RegistryGood

LEMMA RegistryStarts ==
  ASSUME RegistryInit
  PROVE  RegistryGood(registry)
  <1> DEFINE k == [t \in Users |-> << >>]
  <1>1. registry = [list |-> << >>, started |-> FALSE, lock |-> Nobody, stack |-> k,
                    up |-> {}, twice |-> FALSE, bad |-> {}, given |-> {}, calls |-> 0]
    BY DEF RegistryInit
  <1>2. k \in [Users -> Seq(Frames)] /\ << >> \in Seq(Things) /\ Len(<< >>) = 0
        /\ << >> \in Seq(Frames)
    OBVIOUS
  <1>3. \A t \in Users : k[t] = << >>
    OBVIOUS
  <1> HIDE DEF k
  <1>4. registry \in Registries
    BY <1>1, <1>2 DEF Registries
  <1>5. InOrder(registry.list)
    BY <1>1, <1>2 DEF InOrder
  <1>6. (\A t \in Users : CallStack(registry.stack[t], registry.given)) /\ Alone(registry)
    BY <1>1, <1>2, <1>3 DEF CallStack, Alone, Op
  <1>7. Listed(registry)
    BY <1>1, <1>2 DEF Listed, Members
  <1> QED BY <1>4, <1>5, <1>6, <1>7 DEF RegistryGood

LEMMA RegistryKeeps ==
  ASSUME RegistryInUse, RegistryGood(registry), [RegistryNext]_registry
  PROVE  RegistryGood(registry')
  <1>1. CASE registry' = registry
    BY <1>1
  <1>2. CASE RegistryNext
    <2>1. PICK t \in Users : Call(t) \/ RegistryStep(t)
      BY <1>2 DEF RegistryNext
    <2> QED
      BY <2>1, CallsWell, LooksWell, MakesWell, KeepsWell, AddsWell, StartsWell, ShutsDownWell
      DEF RegistryStep
  <1> QED BY <1>1, <1>2

LEMMA RegistryIsOfAKind ==
  ASSUME RegistryGood(registry)
  PROVE  ModulesAreOne
  <1>1. /\ InOrder(registry.list) /\ Listed(registry) /\ registry.list \in Seq(Things)
    BY DEF RegistryGood, InOrder
  <1>2. DOMAIN registry.list = 1..Len(registry.list) /\ ToSet(registry.list) = Members(registry.list)
    BY <1>1, MembersAre
  <1>3. /\ \A i, j \in 1..Len(registry.list) : registry.list[i] = registry.list[j] => i = j
        /\ \A i \in 1..Len(registry.list) : \A m \in Used(registry.list[i]) :
              \E j \in 1..(i - 1) : registry.list[j] = m
    BY <1>1 DEF InOrder
  <1>4. /\ registry.started => ToSet(registry.list) \ registry.bad \subseteq registry.up
        /\ ~registry.started => registry.up = {}
        /\ ~registry.twice /\ registry.given \subseteq ToSet(registry.list)
    BY <1>1, <1>2 DEF Listed
  <1> QED BY <1>2, <1>3, <1>4 DEF OneOfAKind, ModulesAreOne

(* There is one module of a kind, behind those its constructor uses; while the registry   *)
(* is started all of them are, but those whose startup failed, and none twice: for any    *)
(* threads, modules and calls, nested and interleaved (ModuleRegistry.h:64-123).            *)
THEOREM ModulesStayOne ==
  RegistryInUse =>
      (RegistryInit /\ [][RegistryNext]_registry => []ModulesAreOne)
  <1> SUFFICES ASSUME RegistryInUse
               PROVE  RegistryInit /\ [][RegistryNext]_registry
                          => []ModulesAreOne
    OBVIOUS
  <1>1. RegistryInit => RegistryGood(registry)
    BY RegistryStarts
  <1>2. RegistryGood(registry) /\ [RegistryNext]_registry => RegistryGood(registry)'
    BY RegistryKeeps
  <1>3. RegistryGood(registry) => ModulesAreOne
    BY RegistryIsOfAKind
  <1> QED BY <1>1, <1>2, <1>3, PTL
=============================================================================
