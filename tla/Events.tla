-------------------------------- MODULE Events --------------------------------
(***************************************************************************)
(* util::event: an Event with its list of listeners and the raises of it that are *)
(* under way, one in another where a listener raises it again; and the Observables *)
(* that are found by name.  A raise steps to the next listener before it calls    *)
(* one, so that this one may leave the list; a new one comes in front and is not   *)
(* met by the raises under way.                                                   *)
(***************************************************************************)
EXTENDS Naturals, Sequences, FiniteSets, SequencesExt

CONSTANTS
    Listeners,
    Leaves,         \* of "self", "passed" and "coming", what a listener takes off while it is called
    MaxRaises,      \* bound: raises one in another
    LeavesNested,   \* listeners also leave while a raise is within another
    Names,          \* of Observables
    MaxObservables, \* bound: Observables made
    MaxSteps        \* bound: operations

End == "end"
Gone == "gone"      \* a node that was freed

\* [listeners, raises: the innermost first, each with the node it goes on with, who it calls, whom it called and
\*  those that were there and still are, obs: name to Observable, made: Observables, found: what get gave
\*  last, events: names registered, steps, broken]
VARIABLE events

EventsInit ==
    events = [listeners |-> << >>, raises |-> << >>, obs |-> [n \in {} |-> 0], made |-> 0,
              found |-> 0, name |-> "", registered |-> FALSE, steps |-> 0, broken |-> FALSE]

Step(s) == [s EXCEPT !.steps = @ + 1]
MoreSteps == events.steps < MaxSteps
\* the program's own code runs: outside of a raise, or in a listener
Running == events.raises # << >> => Head(events.raises).calls # End

First(ls) == IF ls = << >> THEN End ELSE Head(ls)
After(ls, l) == LET i == CHOOSE i \in DOMAIN ls : ls[i] = l IN IF i = Len(ls) THEN End ELSE ls[i + 1]
Listens(l) == l \in ToSet(events.listeners)

on(s, l) == [s EXCEPT !.listeners = <<l>> \o @]

\* the node is freed, a raise that would go on with it does not know
un(s, l) == [s EXCEPT !.listeners = SelectSeq(@, LAMBDA x : x # l),
                      !.raises = [i \in DOMAIN @ |-> [@[i] EXCEPT !.next = IF @ = l THEN Gone ELSE @,
                                                                  !.stay = @ \ {l}]]]

\* mutant: it steps on when the listener has returned
raise_StepLate(s) ==
    LET r == Head(s.raises)
    IN  IF r.calls = End THEN [s EXCEPT !.raises[1] = [r EXCEPT !.calls = r.next, !.called = Append(@, r.next)]]
        ELSE [s EXCEPT !.raises[1] = [r EXCEPT !.calls = End, !.next = IF Listens(r.calls) THEN After(s.listeners, r.calls)
                                                                     ELSE Gone]]

\* the innermost raise calls the next listener, having stepped on, or that has returned
raise_Goes(s) ==
    LET r == Head(s.raises)
    IN  IF r.calls = End
        THEN [s EXCEPT !.raises[1] = [r EXCEPT !.calls = r.next, !.next = After(s.listeners, r.next),
                                               !.called = Append(@, r.next)]]
        ELSE [s EXCEPT !.raises[1] = [r EXCEPT !.calls = End]]

\* Observable::on: without an event of the name nothing is done
AddListener(l) ==
    /\ MoreSteps /\ Running /\ ~Listens(l)
    /\ events' = IF events.registered THEN Step(on(events, l)) ELSE Step(events)

MayLeave(l) ==
    events.raises # << >> =>
        /\ Len(events.raises) > 1 => LeavesNested
        /\ LET r == Head(events.raises)
           IN  IF l = r.calls THEN "self" \in Leaves
               ELSE IF l \in ToSet(r.called) THEN "passed" \in Leaves ELSE "coming" \in Leaves

RemoveListener(l) ==
    /\ MoreSteps /\ Running /\ Listens(l) /\ MayLeave(l)
    /\ events' = Step(un(events, l))

raise ==
    /\ MoreSteps /\ Running /\ Len(events.raises) < MaxRaises
    /\ events' = Step([events EXCEPT !.raises = <<[next |-> First(events.listeners), calls |-> End, called |-> << >>,
                                                   stay |-> ToSet(events.listeners)]>> \o @])

Goes ==
    /\ events.raises # << >>
    /\ LET r == Head(events.raises)
       IN  events' = IF r.calls = End /\ r.next = End THEN [events EXCEPT !.raises = Tail(@)]
                     ELSE IF r.calls = End /\ r.next = Gone THEN [events EXCEPT !.broken = TRUE, !.raises = Tail(@)]
                     ELSE raise_Goes(events)

register_event == /\ MoreSteps /\ ~events.registered
                  /\ events' = Step([events EXCEPT !.registered = TRUE])

\* an Observable is known by its name, the last one of it
Observable(s, n) == [s EXCEPT !.made = @ + 1, !.obs = [m \in DOMAIN @ \cup {n} |-> IF m = n THEN s.made + 1 ELSE @[m]]]

MakeObservable(n) == /\ events.made < MaxObservables /\ events' = Observable(events, n)

\* an unknown name gives one without a name, made with the first such call
get(s, n) == IF n \in DOMAIN s.obs THEN [s EXCEPT !.found = s.obs[n], !.name = n]
             ELSE [Observable(s, "") EXCEPT !.found = s.made + 1, !.name = ""]
Find(n) == /\ MoreSteps
           /\ n \in DOMAIN events.obs \/ events.made < MaxObservables
           /\ events' = Step(get(events, n))

EventsNext ==
    \/ \E l \in Listeners : AddListener(l) \/ RemoveListener(l)
    \/ raise \/ Goes \/ register_event
    \/ \E n \in Names : MakeObservable(n) \/ Find(n)
-----------------------------------------------------------------------------
(* A raise calls each listener that is there from its begin to its end once, and  *)
(* none twice, whoever comes or leaves and whatever is raised meanwhile; it never  *)
(* goes on with one that has left.  What a name gives is the Observable made      *)
(* with it last (Event.cpp:22-47, Observable.cpp:19-36).                          *)
RaisesMeetAll ==
    /\ ~events.broken
    /\ events.name # "" => events.found = events.obs[events.name] \/ events.made > events.found
    /\ \A i \in DOMAIN events.raises :
           LET r == events.raises[i]
               ahead == IF r.next = End \/ ~Listens(r.next) THEN {}
                        ELSE LET k == CHOOSE k \in DOMAIN events.listeners : events.listeners[k] = r.next
                             IN  {events.listeners[j] : j \in k..Len(events.listeners)}
           IN  /\ IsInjective(r.called)
               /\ r.stay = (ToSet(r.called) \cap r.stay) \cup ahead
               /\ ahead \cap ToSet(r.called) = {}
=============================================================================
