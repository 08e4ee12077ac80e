--------------------------- MODULE MCReplicaTables ---------------------------
(* Three lcores on two of three sockets, and four updates: every replica   *)
(* becomes active and is left again, twice.                                *)
EXTENDS ReplicaTables

MCSocketOf == [l \in Lcores |-> IF l = 1 THEN 2 ELSE 0]
=============================================================================
