---------------------------- MODULE BoundedFifo ----------------------------
(***************************************************************************)
(* What a queue of network buffers (net/nbuf.cpp) promises: what is taken  *)
(* out is what was put in, in the same order, except what was dropped; and *)
(* something is dropped only when more than High wait, or, from then on,   *)
(* until fewer than Low do.                                                *)
(***************************************************************************)
EXTENDS Naturals, Sequences

CONSTANTS Data, Low, High

VARIABLES waiting,   \* the data put in and not yet taken out
          full

fifo == <<waiting, full>>

Refusing == (full /\ Len(waiting) >= Low) \/ Len(waiting) > High

Init == waiting = <<>> /\ full = FALSE

Accept(x) == /\ ~Refusing
             /\ waiting' = Append(waiting, x) /\ full' = FALSE

Drop == Refusing /\ full' = TRUE /\ UNCHANGED waiting

Take == /\ waiting # <<>>
        /\ waiting' = Tail(waiting) /\ UNCHANGED full

Reset == waiting' = <<>> /\ full' = FALSE

Next == Drop \/ Take \/ Reset \/ \E x \in Data : Accept(x)

Spec == Init /\ [][Next]_fifo
=============================================================================
