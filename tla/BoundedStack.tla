---------------------------- MODULE BoundedStack ----------------------------
(* What a queue of mbuf.c promises its callers, whoever they are and however *)
(* they block: a stack of at most Size elements, changed one push or one pop *)
(* at a time.  MQueue is shown to implement it.                              *)
EXTENDS Naturals, Sequences

CONSTANTS Elems,  \* the buffers that can be queued
          Size    \* the capacity given to mqueue_new / miovq_new

VARIABLE stack

Init == stack \in Seq(Elems) /\ Len(stack) <= Size

Push == /\ Len(stack) < Size
        /\ \E e \in Elems : stack' = Append(stack, e)

Pop == /\ stack # << >>
       /\ stack' = SubSeq(stack, 1, Len(stack) - 1)

Next == Push \/ Pop

Spec == Init /\ [][Next]_stack
=============================================================================
