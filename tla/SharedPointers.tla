--------------------------- MODULE SharedPointers ----------------------------
(***************************************************************************)
(* What streams share by counting: the deque of a StreamBuffers               *)
(* (src/stream/StreamBuffers.h), copied before it is changed; the handler in    *)
(* a StreamHandler (src/stream/StreamHandler.h); an object that hands out        *)
(* pointers to itself (src/tools/RefThis.h).  A handle is what holds a pointer.   *)
(***************************************************************************)
EXTENDS Naturals, Sequences, SequencesExt, FiniteSets

CONSTANTS
    Handles,
    Objects,    \* the addresses new may give
    Blocks,     \* the buffers that are put into a StreamBuffers
    MaxBlocks,  \* bound: buffers of one StreamBuffers
    Early       \* may ref_this() run before anything holds the object, as in its constructor

Null == 0
None == [kind |-> "none", nref |-> 0, buf |-> << >>]

\* [at: [Handles -> the object held], object: [Objects -> what lives there],
\*  meant: [Handles -> the bytes the holder put there]]
VARIABLE shared

SharedInit ==
    shared = [at |-> [h \in Handles |-> Null], object |-> [o \in Objects |-> None],
              meant |-> [h \in Handles |-> << >>]]

Fresh(s) == {o \in Objects : s.object[o].kind = "none"}
Kind(s, h) == IF s.at[h] = Null THEN "none" ELSE s.object[s.at[h]].kind
MayHold(s, h, kind) == Kind(s, h) = "none" \/ kind \in {"none", Kind(s, h)}    \* handles are typed
Held(s, h) == IF s.at[h] = Null THEN << >> ELSE s.object[s.at[h]].buf

\* intrusive_ptr_add_ref, intrusive_ptr_release
add_ref(s, o) == IF o = Null THEN s ELSE [s EXCEPT !.object[o].nref = @ + 1]

release(s, o) ==
    IF o = Null THEN s
    ELSE IF s.object[o].nref = 1 THEN [s EXCEPT !.object[o] = None]
    ELSE [s EXCEPT !.object[o].nref = @ - 1]

\* assignment of an intrusive_ptr: the new object is held before the old one is let go
Set(s, h, o) == [release(add_ref(s, o), s.at[h]) EXCEPT !.at[h] = o]

New(s, h, o, kind, buf) == Set([s EXCEPT !.object[o] = [kind |-> kind, nref |-> 0, buf |-> buf]], h, o)
-----------------------------------------------------------------------------
(* StreamBuffers *)

\* StreamBuffers(buffers): nothing is made for no buffers
Make(h, o, blocks) ==
    /\ o \in Fresh(shared) /\ MayHold(shared, h, "buffers")
    /\ shared' = [(IF blocks = << >> THEN Set(shared, h, Null) ELSE New(shared, h, o, "buffers", blocks))
                    EXCEPT !.meant[h] = FlattenSeq(blocks)]

\* copies, operator=, reset(r)
Assign(h, g) ==
    /\ MayHold(shared, h, Kind(shared, g))
    /\ shared' = [Set(shared, h, shared.at[g]) EXCEPT !.meant[h] = shared.meant[g]]

Reset(h) == shared' = [Set(shared, h, Null) EXCEPT !.meant[h] = << >>]

\* mutant: shared buffers are changed where they are
before_modify_InPlace(s, h, o) ==
    IF s.at[h] = Null THEN New(s, h, o, "buffers", << >>) ELSE s
before_modify(s, h, o) ==
    IF s.at[h] = Null THEN New(s, h, o, "buffers", << >>)
    ELSE IF s.object[s.at[h]].nref > 1 THEN New(s, h, o, "buffers", Held(s, h))
    ELSE s

Modify(h, o, buf) ==
    /\ Kind(shared, h) \in {"none", "buffers"} /\ o \in Fresh(shared)
    /\ LET s == before_modify(shared, h, o)
       IN  shared' = [s EXCEPT !.object[s.at[h]].buf = buf, !.meant[h] = FlattenSeq(buf)]

PushFront(h, o, b) == Len(Held(shared, h)) < MaxBlocks /\ Modify(h, o, << b >> \o Held(shared, h))
PushBack(h, o, b)  == Len(Held(shared, h)) < MaxBlocks /\ Modify(h, o, Append(Held(shared, h), b))
PopFront(h, o) == Held(shared, h) # << >> /\ Modify(h, o, Tail(Held(shared, h)))
PopBack(h, o)  == Held(shared, h) # << >> /\ Modify(h, o, Front(Held(shared, h)))

\* while n >= the size of front(), pop_front: all that is there must not be consumed, for then
\* front() of nothing is read
RECURSIVE consumed(_, _)
consumed(buf, n) ==
    IF n >= Len(buf[1]) THEN consumed(Tail(buf), n - Len(buf[1]))
    ELSE << SubSeq(buf[1], n + 1, Len(buf[1])) >> \o Tail(buf)

Consume(h, o, n) ==
    /\ Kind(shared, h) \in {"none", "buffers"} /\ o \in Fresh(shared)
    /\ n < Len(FlattenSeq(Held(shared, h)))
    /\ LET s == before_modify(shared, h, o)
       IN  shared' = [s EXCEPT !.object[s.at[h]].buf = consumed(Held(s, h), n),
                               !.meant[h] = SubSeq(@, n + 1, Len(@))]

Clear(h) ==
    /\ Kind(shared, h) \in {"none", "buffers"}
    /\ shared' = [(IF shared.at[h] = Null THEN shared
                   ELSE IF shared.object[shared.at[h]].nref > 1 THEN Set(shared, h, Null)
                   ELSE [shared EXCEPT !.object[shared.at[h]].buf = << >>])
                    EXCEPT !.meant[h] = << >>]
-----------------------------------------------------------------------------
(* StreamHandler, RefThis *)

\* StreamHandler(handler): create
Hold(h, o) ==
    /\ o \in Fresh(shared) /\ MayHold(shared, h, "handler")
    /\ shared' = [New(shared, h, o, "handler", << >>) EXCEPT !.meant[h] = << >>]

\* ref_this() as a temporary
ref_this(s, o) == release(add_ref(s, o), o)

\* a RefThis is made, and the first pointer of it
HoldThis(h, o, early) ==
    /\ o \in Fresh(shared) /\ MayHold(shared, h, "this") /\ (early => Early)
    /\ LET s == [shared EXCEPT !.object[o] = [None EXCEPT !.kind = "this"]]
       IN  shared' = [Set(IF early THEN ref_this(s, o) ELSE s, h, o) EXCEPT !.meant[h] = << >>]

\* ref_this() in a method that runs through a pointer
RefThis(h) ==
    /\ Kind(shared, h) = "this"
    /\ shared' = ref_this(shared, shared.at[h])

SharedNext ==
    \/ \E h \in Handles, o \in Objects :
        \/ \E blocks \in {<< >>} \cup {<< b >> : b \in Blocks} : Make(h, o, blocks)
        \/ \E b \in Blocks : PushFront(h, o, b) \/ PushBack(h, o, b)
        \/ PopFront(h, o) \/ PopBack(h, o)
        \/ \E n \in 0 .. MaxBlocks : Consume(h, o, n)
        \/ Hold(h, o) \/ \E early \in BOOLEAN : HoldThis(h, o, early)
    \/ \E h, g \in Handles : Assign(h, g)
    \/ \E h \in Handles : Reset(h) \/ Clear(h) \/ RefThis(h)
-----------------------------------------------------------------------------
(* Each holder finds what it put there whatever the others do, and an object lives *)
(* while, and only while, something holds it (StreamBuffers.h:191, :64).             *)
HoldersKeepTheirs ==
    /\ \A h \in Handles : /\ FlattenSeq(Held(shared, h)) = shared.meant[h]
                          /\ shared.at[h] # Null => Kind(shared, h) # "none"
    /\ \A o \in Objects : shared.object[o].nref = Cardinality({h \in Handles : shared.at[h] = o})
    /\ \A o \in Objects : shared.object[o].kind # "none" => shared.object[o].nref > 0
=============================================================================
