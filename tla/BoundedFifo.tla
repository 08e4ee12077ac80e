----------------------------- MODULE BoundedFifo -----------------------------
(***************************************************************************)
(* What a message queue of the control plane promises: the elements come   *)
(* out in the order they went in, each goes to one consumer, and an        *)
(* element that meets a full queue is lost (fifo_add_msg tells nobody).    *)
(***************************************************************************)
EXTENDS Naturals, Sequences

CONSTANTS Capacity,    \* P4_BG_QUEUE_SIZE
          Consumers,   \* the threads that take elements
          NULL         \* what a consumer has while it has no element

VARIABLES items,   \* the queued elements, oldest first
          taken,   \* the element each consumer is working on
          added    \* how many elements were offered: the n-th is the number n

vars == <<items, taken, added>>

Init == /\ items = <<>>
        /\ taken = [c \in Consumers |-> NULL]
        /\ added = 0

Put == /\ added' = added + 1
       /\ items' = IF Len(items) < Capacity THEN Append(items, added') ELSE items
       /\ UNCHANGED taken

Take(c) == /\ items # <<>>
           /\ taken' = [taken EXCEPT ![c] = Head(items)]
           /\ items' = Tail(items)
           /\ UNCHANGED added

Finish(c) == /\ taken' = [taken EXCEPT ![c] = NULL]
             /\ UNCHANGED <<items, added>>

Next == \/ Put
        \/ \E c \in Consumers : Take(c) \/ Finish(c)

Spec == Init /\ [][Next]_vars
=============================================================================
