---------------------------- MODULE MCMemCellPool ----------------------------
(* MemCellPool with five cells.                                            *)
EXTENDS MemCellPool
=============================================================================
