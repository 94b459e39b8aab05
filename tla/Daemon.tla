-------------------------------- MODULE Daemon --------------------------------
(***************************************************************************)
(* The start and stop of src/daemon/Daemon.cpp: the thread that owns a      *)
(* Daemon, the threads of its pool and the io_service they run.             *)
(*                                                                         *)
(* The io_service is modelled by its outstanding work: the work object, the *)
(* handlers queued or running, and the operations modules have under way.   *)
(* When the last of it goes, the io_service stops, and run() returns in     *)
(* every thread until reset().  ModuleRegistry::startup and shutdown are    *)
(* taken whole: they hold the registry's mutex from beginning to end.       *)
(***************************************************************************)
EXTENDS Naturals, Sequences

CONSTANTS
    Pool,           \* the threads start(concurrency, ec) creates
    HoldsWork,      \* started modules keep an operation under way
    MaxStarts,      \* bound: calls of start
    MaxPosts        \* bound: calls of post_stop

Owner == "owner"

ASSUME DaemonAssumption ==
    /\ Owner \notin Pool /\ HoldsWork \in BOOLEAN
    /\ MaxStarts \in Nat /\ MaxPosts \in Nat

VARIABLES
    pooled,         \* the daemon is started with concurrency # 0
    caller,         \* where the owner's thread is
    call,           \* the function it is in
    doing,          \* what each thread does in io_service::run
    io_work, stopped, queue,
    is_started,     \* ModuleRegistry::is_started_
    pending,        \* a module's operation is under way
    starts, posts   \* calls of start, post_stop so far

io_svc == <<io_work, stopped, queue>>
counts == <<starts, posts>>
vars == <<pooled, caller, call, doing, io_svc, is_started, pending, counts>>

Threads == Pool \cup {Owner}
Handlers == {"startup", "shutdown", "stop", "completion"}

Init ==
    /\ pooled \in BOOLEAN
    /\ caller = "outside" /\ call = "none"
    /\ doing = [t \in Threads |-> "out"]
    /\ io_work = FALSE /\ stopped = FALSE /\ queue = <<>>
    /\ is_started = FALSE /\ pending = FALSE
    /\ starts = 0 /\ posts = 0

-----------------------------------------------------------------------------
(* The io_service.                                                          *)

\* The last outstanding work that goes stops the io_service.
Drained ==
    /\ ~io_work /\ queue = <<>> /\ ~pending
    /\ \A t \in Threads : doing[t] \notin Handlers
StopsWhenDrained == stopped' = (stopped \/ Drained')

Take(t) ==
    /\ doing[t] = "poll" /\ ~stopped /\ queue # <<>>
    /\ doing' = [doing EXCEPT ![t] = Head(queue)] /\ queue' = Tail(queue)
    /\ UNCHANGED <<pooled, caller, call, io_work, stopped, is_started, pending, counts>>

Leave(t) ==
    /\ t # Owner /\ doing[t] = "poll" /\ stopped
    /\ doing' = [doing EXCEPT ![t] = "out"]
    /\ UNCHANGED <<pooled, caller, call, io_svc, is_started, pending, counts>>

Runs(t, handler) ==
    /\ doing[t] = handler /\ doing' = [doing EXCEPT ![t] = "poll"]
    /\ UNCHANGED <<pooled, counts>>

\* A module's operation completes.
Completes ==
    /\ pending /\ pending' = FALSE
    /\ queue' = Append(queue, "completion")
    /\ UNCHANGED <<pooled, caller, call, doing, io_work, stopped, is_started, counts>>

\* Its handler starts the next one, unless the module has been shut down.
RunCompletion(t) ==
    /\ Runs(t, "completion")
    /\ pending' = (pending \/ is_started)
    /\ UNCHANGED <<caller, call, io_work, queue, is_started>>
    /\ StopsWhenDrained

-----------------------------------------------------------------------------
(* ModuleRegistry.                                                          *)

Started == is_started' = TRUE /\ pending' = HoldsWork /\ UNCHANGED queue

\* A module fails: those started before it are shut down again.
RolledBack ==
    /\ is_started' = FALSE /\ pending' = FALSE
    /\ queue' = queue \/ (HoldsWork /\ queue' = Append(queue, "completion"))

\* shutdown cancels what the modules have under way, which then completes.
Shutdown ==
    /\ is_started' = FALSE /\ pending' = FALSE
    /\ queue' = IF pending THEN Append(queue, "completion") ELSE queue

-----------------------------------------------------------------------------
(* Daemon::start and Daemon::run.                                           *)

Enter(f, place) == call' = f /\ caller' = place
Return == Enter("none", "outside")

\* run() without a pool: the owner's thread enters io_service::run.
RunHere(f) == Enter(f, "running") /\ doing' = [doing EXCEPT ![Owner] = "poll"]

StartHere ==
    /\ caller = "outside" /\ ~pooled /\ ~is_started /\ starts < MaxStarts
    /\ starts' = starts + 1
    /\ \/ /\ Started /\ io_work' = TRUE
          /\ UNCHANGED <<caller, call, doing>>
       \/ /\ RolledBack /\ io_work' = FALSE
          /\ RunHere("start")
    /\ UNCHANGED <<pooled, posts>>
    /\ StopsWhenDrained

\* The startup is posted, and waited for with the mutex that finish_notify
\* takes.
StartPool ==
    /\ caller = "outside" /\ pooled /\ ~is_started /\ starts < MaxStarts
    /\ starts' = starts + 1
    /\ io_work' = TRUE
    /\ queue' = Append(queue, "startup")
    /\ doing' = [t \in Threads |-> IF t \in Pool THEN "poll" ELSE doing[t]]
    /\ Enter("start", "waiting")
    /\ UNCHANGED <<pooled, stopped, is_started, pending, posts>>

RunStartup(t) ==
    /\ caller = "waiting" /\ Runs(t, "startup")
    /\ \/ Started /\ Return
       \/ RolledBack /\ Enter("start", "failed")
    /\ UNCHANGED <<io_work, stopped>>

StartFailed ==
    /\ caller = "failed" /\ Enter("start", "joining")
    /\ io_work' = FALSE
    /\ UNCHANGED <<pooled, doing, queue, is_started, pending, counts>>
    /\ StopsWhenDrained

Run ==
    /\ caller = "outside" /\ ~pooled /\ is_started
    /\ RunHere("run")
    /\ UNCHANGED <<pooled, io_work, queue, is_started, pending, counts>>
    /\ StopsWhenDrained

Reset_Forgotten == UNCHANGED stopped
Reset == stopped' = FALSE

RunReturns ==
    /\ caller = "running" /\ doing[Owner] = "poll" /\ stopped
    /\ doing' = [doing EXCEPT ![Owner] = "out"]
    /\ Reset /\ Return
    /\ UNCHANGED <<pooled, io_work, queue, is_started, pending, counts>>

Joined_AtOnce == TRUE
Joined == \A t \in Pool : doing[t] = "out"

JoinReturns ==
    /\ caller = "joining" /\ Joined
    /\ Reset
    /\ IF call = "destroy" THEN Enter("none", "gone") ELSE Return
    /\ UNCHANGED <<pooled, doing, io_work, queue, is_started, pending, counts>>

-----------------------------------------------------------------------------
(* Daemon::stop, post_stop and the destructor.                              *)

DeleteWork_Kept == UNCHANGED io_work
DeleteWork == io_work' = FALSE

\* stop(true) of a daemon with a pool, called from outside its threads.
Stop ==
    /\ caller = "outside" /\ pooled /\ is_started
    /\ Enter("stop", "stopping")
    /\ DeleteWork
    /\ UNCHANGED <<pooled, doing, queue, is_started, pending, counts>>
    /\ StopsWhenDrained

StopPosts ==
    /\ caller = "stopping" /\ Enter("stop", "waiting")
    /\ queue' = Append(queue, "shutdown")
    /\ UNCHANGED <<pooled, doing, io_work, stopped, is_started, pending, counts>>

RunShutdown(t) ==
    /\ caller = "waiting" /\ Runs(t, "shutdown")
    /\ Shutdown /\ Enter("stop", "joining")
    /\ UNCHANGED io_work /\ StopsWhenDrained

PostStop ==
    /\ ~pooled /\ caller # "gone" /\ posts < MaxPosts
    /\ posts' = posts + 1
    /\ queue' = Append(queue, "stop")
    /\ UNCHANGED <<pooled, caller, call, doing, io_work, stopped, is_started, pending, starts>>

\* stop(false), posted by post_stop: without a pool the shutdown is called,
\* not posted.
ShutdownHere == Shutdown
RunStop(t) ==
    /\ Runs(t, "stop")
    /\ DeleteWork
    /\ IF is_started THEN ShutdownHere ELSE UNCHANGED <<is_started, pending, queue>>
    /\ UNCHANGED <<caller, call>>
    /\ StopsWhenDrained

\* ~Daemon: quick_stop().
Destroy ==
    /\ caller = "outside"
    /\ io_work' = FALSE /\ stopped' = TRUE
    /\ IF pooled /\ starts > 0 THEN Enter("destroy", "joining") ELSE Enter("none", "gone")
    /\ UNCHANGED <<pooled, doing, queue, is_started, pending, counts>>

-----------------------------------------------------------------------------
Thread(t) ==
    \/ Take(t) \/ Leave(t) \/ RunCompletion(t) \/ RunStartup(t) \/ RunShutdown(t) \/ RunStop(t)
Returns == StartFailed \/ StopPosts \/ RunReturns \/ JoinReturns
Calls == StartHere \/ StartPool \/ Run \/ Stop \/ PostStop \/ Destroy

Next == Calls \/ Returns \/ Completes \/ \E t \in Threads : Thread(t)

\* Every thread runs, the owner's too while it is in a call; a call is never
\* owed.
Fairness == WF_vars(Returns) /\ \A t \in Threads : WF_vars(Thread(t))

Spec == Init /\ [][Next]_vars
FairSpec == Spec /\ Fairness

-----------------------------------------------------------------------------
(* Properties.                                                              *)

TypeOK ==
    /\ pooled \in BOOLEAN
    /\ caller \in {"outside", "waiting", "failed", "running", "joining", "stopping", "gone"}
    /\ call \in {"none", "start", "run", "stop", "destroy"}
    /\ doing \in [Threads -> {"out", "poll"} \cup Handlers]
    /\ doing[Owner] \notin {"startup", "shutdown"}
    /\ io_work \in BOOLEAN /\ stopped \in BOOLEAN
    /\ queue \in Seq(Handlers)
    /\ is_started \in BOOLEAN /\ pending \in BOOLEAN
    /\ starts \in 0 .. MaxStarts /\ posts \in 0 .. MaxPosts

\* When a call has returned and the daemon is not started, nothing of the last
\* start is left that could run, or keep the next one from running: no thread
\* in the io_service, no work, no operation of a module, and no handler but a
\* post_stop that came too late.
NothingLeft ==
    caller = "outside" /\ ~is_started =>
        /\ \A t \in Threads : doing[t] = "out"
        /\ ~stopped /\ ~pending
        /\ \A i \in DOMAIN queue : queue[i] = "stop"

\* No thread runs a handler in a daemon that has been destroyed.
GoneIsQuiet == caller = "gone" => \A t \in Threads : doing[t] = "out"

\* Between its calls, and after them, a daemon that is not started is at rest.
AtRest == TypeOK /\ NothingLeft /\ GoneIsQuiet

\* start(concurrency, ec) returns, whether the modules start or not
\* (Daemon.h:55, 56: it comes back when it is done, and waits for the
\* io_service to end when it fails).
StartReturns == call = "start" ~> call # "start"

\* stop(true) stops the daemon and waits for its io_service to end
\* (Daemon.h:54).
StopReturns == call = "stop" ~> call # "stop"

\* A stop posted to a running daemon ends its run().
PostedStopEndsRun ==
    call = "run" /\ (\E i \in DOMAIN queue : queue[i] = "stop") ~> call # "run"

\* Both ways to stop a daemon stop it.
StopsEnd == StopReturns /\ PostedStopEndsRun
=============================================================================
