-------------------------- MODULE MCCtrlPlaneBackend --------------------------
(* Few cells, so that digests and messages exhaust them.  Cells and lcores *)
(* are interchangeable where only safety is checked.                       *)
EXTENDS CtrlPlaneBackend, TLC

Symmetry == Permutations(Cells) \union Permutations(Lcores)
=============================================================================
