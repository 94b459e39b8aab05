---------------------------- MODULE ModuleRegistry ----------------------------
(***************************************************************************)
(* util::daemon::detail::ModuleRegistry: the modules of a Daemon, in the order    *)
(* they were made.  use_module makes a module with the mutex unlocked, so that     *)
(* its constructor may use others; startup and shutdown call the modules with      *)
(* the mutex locked.                                                              *)
(***************************************************************************)
EXTENDS Naturals, Sequences, FiniteSets, SequencesExt

CONSTANTS
    Users,          \* the threads
    Uses,           \* pairs of a module and one its constructor uses
    StartupUses,    \* modules whose startup uses another module
    Late,           \* of "add" and "startup", those called also once the modules are or may be started
    MaxCalls,       \* bound: calls of the threads
    Absent          \* the registry of a behaviour that has none, where it is one of several parts

Modules == {u[1] : u \in Uses} \cup {u[2] : u \in Uses}
Nobody == "nobody"

\* [list: first_module_ to last_module_, started: is_started_, lock: who has the mutex,
\*  stack: of each thread, what it does, the innermost first: an operation, its step and its module,
\*  up: modules that were started and not shut down, twice: one was so again, bad: those whose startup failed,
\*  given: what calls returned, calls]
VARIABLE registry

RegistryInit ==
    registry = [list |-> << >>, started |-> FALSE, lock |-> Nobody, stack |-> [t \in Users |-> << >>],
                up |-> {}, twice |-> FALSE, bad |-> {}, given |-> {}, calls |-> 0]

Frame(op, step, m) == [op |-> op, step |-> step, m |-> m]
Top(t) == Head(registry.stack[t])
At(t, op, step) == registry.stack[t] # << >> /\ Top(t).op = op /\ Top(t).step = step
To(s, t, step) == [s EXCEPT !.stack[t][1].step = step]
Returned(s, t) == [s EXCEPT !.stack[t] = Tail(@)]
Has(s, m) == \E i \in DOMAIN s.list : s.list[i] = m
Used(m) == {u[2] : u \in {u \in Uses : u[1] = m}}
StartedUp(s, ms) == [s EXCEPT !.up = @ \cup ms, !.twice = @ \/ ms \cap s.up # {}]

Free == registry.lock = Nobody
Give(s, t) == Returned([s EXCEPT !.lock = Nobody, !.given = @ \cup {s.stack[t][1].m}], t)

\* a thread may start the modules, or has
Starting == registry.started \/ \E t \in Users : registry.stack[t] # << >> /\ Top(t).op = "startup"
Adding == \E t \in Users : registry.stack[t] # << >> /\ Top(t).op = "add"

Call(t) ==
    /\ registry.stack[t] = << >> /\ registry.calls < MaxCalls
    /\ \E f \in {Frame("use", "look", m) : m \in Modules} \cup {Frame("add", "look", m) : m \in Modules}
               \cup {Frame(op, "begin", Nobody) : op \in {"startup", "shutdown"}} :
           /\ f.op \in {"add", "startup"} /\ Starting => f.op \in Late
           /\ f.op = "startup" /\ Adding => "add" \in Late
           /\ registry' = [registry EXCEPT !.stack[t] = <<f>>, !.calls = @ + 1]

\* mutant: the module is made with the mutex locked
use_module_Look_Locked(t) ==
    /\ At(t, "use", "look") /\ Free
    /\ registry' = IF Has(registry, Top(t).m) THEN Give(registry, t) ELSE [To(registry, t, "make") EXCEPT !.lock = t]

\* the first look for it, under the mutex; it is unlocked before the module is made
use_module_Look(t) ==
    /\ At(t, "use", "look") /\ Free
    /\ registry' = IF Has(registry, Top(t).m) THEN Give(registry, t) ELSE To(registry, t, "make")

\* its constructor uses another module, or is done
use_module_Make(t) ==
    /\ At(t, "use", "make")
    /\ LET need == Used(Top(t).m) \ registry.given
       IN  registry' = IF need = {} THEN To(registry, t, "keep")
                       ELSE [registry EXCEPT !.stack[t] = <<Frame("use", "look", CHOOSE m \in need : TRUE)>> \o @]

\* mutant: what another thread has made meanwhile is not looked for
Kept_Unseen(s, m, ok) ==
    LET k == [s EXCEPT !.list = Append(@, m)]
    IN  IF ~s.started THEN k ELSE IF ok THEN StartedUp(k, {m}) ELSE [k EXCEPT !.bad = @ \cup {m}]

\* it goes into the list unless another thread has made one, and is started if the others were
Kept(s, m, ok) ==
    LET k == [s EXCEPT !.list = Append(@, m)]
    IN  IF Has(s, m) THEN s
        ELSE IF ~s.started THEN k ELSE IF ok THEN StartedUp(k, {m}) ELSE [k EXCEPT !.bad = @ \cup {m}]

use_module_Keep(t) ==
    /\ At(t, "use", "keep") /\ Free
    /\ \E ok \in BOOLEAN :
           registry' = IF registry.started /\ ~Has(registry, Top(t).m) /\ Top(t).m \in StartupUses
                       THEN [To(registry, t, "stuck") EXCEPT !.lock = t]
                       ELSE Give(Kept(registry, Top(t).m, ok), t)

\* the caller has made the module, with what its constructor uses
add_module(t) ==
    /\ At(t, "add", "look") /\ Free
    /\ registry' = IF Has(registry, Top(t).m) \/ ~Used(Top(t).m) \subseteq registry.given THEN Returned(registry, t)
                   ELSE Returned([registry EXCEPT !.list = Append(@, Top(t).m)], t)

\* the first n - 1 are started, the next fails, and they are shut down again
startup_Failed(s, n) == [StartedUp(s, {s.list[i] : i \in 1..(n - 1)}) EXCEPT !.up = s.up]

\* the modules are started in their order; n is the one that fails, the last but one is none
startup(t) ==
    /\ At(t, "startup", "begin") /\ Free
    /\ \E n \in 1..(Len(registry.list) + 1) :
           LET stuck == \E i \in 1..n : i <= Len(registry.list) /\ registry.list[i] \in StartupUses
           IN  registry' = IF stuck THEN [To(registry, t, "stuck") EXCEPT !.lock = t]
                           ELSE IF n <= Len(registry.list) THEN Returned(startup_Failed(registry, n), t)
                           ELSE Returned([StartedUp(registry, ToSet(registry.list)) EXCEPT !.started = TRUE], t)

\* each is shut down, the last one first
shutdown(t) ==
    /\ At(t, "shutdown", "begin") /\ Free
    /\ registry' = IF ~registry.started THEN Returned(registry, t)
                   ELSE Returned([registry EXCEPT !.up = @ \ ToSet(registry.list), !.started = FALSE, !.bad = {}], t)

RegistryStep(t) ==
    \/ use_module_Look(t) \/ use_module_Make(t) \/ use_module_Keep(t) \/ add_module(t)
    \/ startup(t) \/ shutdown(t)
RegistryNext == \E t \in Users : Call(t) \/ RegistryStep(t)
-----------------------------------------------------------------------------
(* There is one module of a kind, behind those its constructor uses, so that they  *)
(* start before it and stop behind it; while the registry is started all of them   *)
(* are, but those whose startup failed; none is started twice                       *)
(* (ModuleRegistry.h:64-123, ModuleRegistry.cpp:33-80).                            *)
OneOfAKind ==
    LET s == registry
    IN  /\ \A i, j \in DOMAIN s.list : s.list[i] = s.list[j] => i = j
        /\ \A i \in DOMAIN s.list : \A m \in Used(s.list[i]) : \E j \in 1..(i - 1) : s.list[j] = m
        /\ s.started => ToSet(s.list) \ s.bad \subseteq s.up
        /\ ~s.started => s.up = {}
        /\ ~s.twice
        /\ s.given \subseteq ToSet(s.list)

(* So it is of a registry that is one of several parts (ModuleRegistry.h:85-132). *)
ModulesAreOne == registry # Absent => OneOfAKind

(* Every call comes back.                                                        *)
CallsReturn == \A t \in Users : registry.stack[t] = << >>
=============================================================================
