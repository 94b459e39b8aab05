------------------------------ MODULE BoundedPipe ------------------------------
(***************************************************************************)
(* What moving a stream through a buffer promises: bytes come out in the    *)
(* order and number they went in, never more than Capacity of them are in   *)
(* between, and once the transfer is done nothing moves any more.  Bytes    *)
(* are counted; the order is the order of the counts.                       *)
(***************************************************************************)
EXTENDS Naturals

CONSTANT Capacity       \* a natural number

VARIABLES
    got,    \* bytes taken from the source, those in the buffer at first included
    put,    \* bytes given to the sink
    done    \* the transfer has called its handler

vars == <<got, put, done>>

Init == got \in 0 .. Capacity /\ put = 0 /\ done = FALSE

Move ==
    /\ ~done /\ done' \in BOOLEAN
    /\ got' \in Nat /\ got <= got'
    /\ put' \in Nat /\ put <= put'
    /\ put' <= got' /\ got' <= put' + Capacity

Spec == Init /\ [][Move]_vars
=============================================================================
