----------------------------- MODULE MCController -----------------------------
(* Two connections, that is two switches or one that connects again; the   *)
(* queues have one slot, so that init and the digests overflow them.  The  *)
(* threads are interchangeable.                                            *)
EXTENDS Controller, TLC

Symmetry == Permutations(PoolThreads)
=============================================================================
