------------------------------ MODULE CellPool ------------------------------
(***************************************************************************)
(* What the memory pool of the switch's control-plane backend promises its *)
(* callers: a call of touch lends out some cell that nobody holds, and     *)
(* fails only when every cell is lent; a call of detouch takes back a cell *)
(* that is lent.  How the pool keeps track of its cells is the business of *)
(* MemCellPool, which implements this module; CtrlPlaneBackend relies on   *)
(* nothing more than what is said here.                                    *)
(***************************************************************************)
EXTENDS Naturals

CONSTANTS Cells,   \* the memory cells of the pool
          NULL     \* the null pointer, what a failed touch returns

VARIABLES free,    \* the cells that nobody holds
          result,  \* what the last call of touch returned
          turn     \* flipped by every call of touch, so that none is a stutter

vars == <<free, result, turn>>

Init == /\ free = Cells
        /\ result = NULL
        /\ turn = 0

Flip == turn' = 1 - turn

Lend(c) == /\ c \in free
           /\ free' = free \ {c}
           /\ result' = c
           /\ Flip

Refuse == /\ free = {}
          /\ result' = NULL
          /\ Flip
          /\ UNCHANGED free

TakeBack(c) == /\ c \in Cells \ free
               /\ free' = free \union {c}
               /\ UNCHANGED <<result, turn>>

Next == \/ \E c \in Cells : Lend(c) \/ TakeBack(c)
        \/ Refuse

Spec == Init /\ [][Next]_vars
=============================================================================
