------------------------------ MODULE TableView ------------------------------
(***************************************************************************)
(* What the control plane promises the lcores about a lookup table: every  *)
(* lcore sees the updates one after the other, in the order in which they  *)
(* were made, each as a whole, and the control plane does not make an      *)
(* update before every lcore has seen the one before it.                   *)
(***************************************************************************)
EXTENDS Naturals, Sequences

CONSTANT Lcores      \* the lcores that look up

VARIABLES updates,   \* how many updates were made: the n-th is the number n
          seen       \* the updates in the table each lcore looks up in

vars == <<updates, seen>>

Init == /\ updates = 0
        /\ seen = [l \in Lcores |-> <<>>]

Make == /\ \A l \in Lcores : Len(seen[l]) = updates
        /\ updates' = updates + 1
        /\ UNCHANGED seen

See(l) == /\ Len(seen[l]) < updates
          /\ seen' = [seen EXCEPT ![l] = Append(@, Len(@) + 1)]
          /\ UNCHANGED updates

Next == \/ Make
        \/ \E l \in Lcores : See(l)

Spec == Init /\ [][Next]_vars
=============================================================================
