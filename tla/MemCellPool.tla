----------------------------- MODULE MemCellPool -----------------------------
(***************************************************************************)
(* The memory pool of ctrl_plane_backend.c, at the level of its pointers:  *)
(* create_backend links the cells into the unused list, touch_mem_cell     *)
(* moves the head of that list to the used list, detouch_mem_cell unlinks  *)
(* a cell from anywhere in the used list, and destroy_backend frees both   *)
(* lists.  touch and detouch run under memlock, so each is one step here.  *)
(*                                                                         *)
(* The unused list is only ever popped and pushed at its head, and         *)
(* create_backend never sets a prev pointer, so the prev pointers of that  *)
(* list are stale; only the used list relies on them.                      *)
(*                                                                         *)
(* Abstracted: the data buffer of a cell, and the condition variables      *)
(* mem_empty and mem_not_empty, on which no thread ever waits.             *)
(***************************************************************************)
EXTENDS Naturals, FiniteSets

CONSTANTS PoolSize,   \* queue_size of create_backend: the number of cells
          NULL        \* the null pointer

ASSUME PoolSizeAssumption == PoolSize \in Nat \ {0}

\* Cell i is the i-th one create_backend allocates.
Cells == 1 .. PoolSize

ASSUME NULLAssumption == NULL \notin Cells

VARIABLES unused_head, used_head, next, prev,   \* the two lists
          held,     \* the cells that callers got from touch and still use
          result,   \* what the last call of touch returned
          turn,     \* flipped by every call of touch (see CellPool)
          frees,    \* how often each cell was passed to free()
          destroyed \* destroy_backend was called, the pool does not exist

vars == <<unused_head, used_head, next, prev, held, result, turn, frees,
          destroyed>>

Pointer == Cells \union {NULL}

(* The cells a walk along the next pointers meets, in the order of the     *)
(* walk: Walk(h)[i] is the pointer after i steps from the pointer h.       *)
Walk(h) ==
  LET node[i \in 0 .. PoolSize] ==
        IF i = 0 THEN h
        ELSE IF node[i - 1] = NULL THEN NULL ELSE next[node[i - 1]]
  IN  node

UnusedList == {Walk(unused_head)[i] : i \in 0 .. PoolSize} \ {NULL}
UsedList   == {Walk(used_head)[i] : i \in 0 .. PoolSize} \ {NULL}

-----------------------------------------------------------------------------

\* The loop of create_backend pushes cell 1, then cell 2, ...
Init == /\ unused_head = PoolSize
        /\ used_head = NULL
        /\ next = [c \in Cells |-> IF c = 1 THEN NULL ELSE c - 1]
        /\ prev = [c \in Cells |-> NULL]
        /\ held = {}
        /\ result = NULL
        /\ turn = 0
        /\ frees = [c \in Cells |-> 0]
        /\ destroyed = FALSE

\* Seeded bug: the old head of the used list does not learn its predecessor.
touch_mem_cell_no_prev ==
  /\ ~destroyed
  /\ unused_head # NULL
  /\ result' = unused_head
  /\ turn' = 1 - turn
  /\ unused_head' = next[unused_head]
  /\ used_head' = unused_head
  /\ next' = [next EXCEPT ![unused_head] = used_head]
  /\ held' = held \union {unused_head}
  /\ UNCHANGED <<prev, frees, destroyed>>

\* Seeded bug: the cell is not taken off the unused list.
touch_mem_cell_no_pop ==
  /\ ~destroyed
  /\ unused_head # NULL
  /\ result' = unused_head
  /\ turn' = 1 - turn
  /\ used_head' = unused_head
  /\ held' = held \union {unused_head}
  /\ UNCHANGED <<unused_head, next, prev, frees, destroyed>>

\* The three pointers that link p in front of the list that starts at h.
touch_mem_cell ==
  /\ ~destroyed
  /\ unused_head # NULL
  /\ result' = unused_head
  /\ turn' = 1 - turn
  /\ unused_head' = next[unused_head]
  /\ used_head' = unused_head
  /\ next' = [next EXCEPT ![unused_head] = used_head]
  /\ prev' = [c \in Cells |-> IF c = used_head THEN unused_head
                              ELSE IF c = next[unused_head] THEN NULL
                              ELSE prev[c]]
  /\ held' = held \union {unused_head}
  /\ UNCHANGED <<frees, destroyed>>

touch_mem_cell_fails ==
  /\ ~destroyed
  /\ unused_head = NULL
  /\ result' = NULL
  /\ turn' = 1 - turn
  /\ UNCHANGED <<unused_head, used_head, next, prev, held, frees,
                 destroyed>>

\* Seeded bug: the predecessor of the cell is not linked to its successor.
detouch_mem_cell_no_unlink(cell) ==
  /\ ~destroyed
  /\ cell \in held
  /\ used_head' = IF used_head = cell THEN next[cell] ELSE used_head
  /\ next' = [next EXCEPT ![cell] = unused_head]
  /\ prev' = [prev EXCEPT ![cell] = NULL]
  /\ unused_head' = cell
  /\ held' = held \ {cell}
  /\ UNCHANGED <<result, turn, frees, destroyed>>

\* The caller gives back a cell it holds.  prev[cell] is dereferenced only
\* when the cell is not the head of the used list.
detouch_mem_cell(cell) ==
  /\ ~destroyed
  /\ cell \in held
  /\ used_head' = IF used_head = cell THEN next[cell] ELSE used_head
  /\ next' = [c \in Cells |-> IF c = cell THEN unused_head
                              ELSE IF used_head # cell /\ c = prev[cell]
                                   THEN next[cell]
                              ELSE next[c]]
  /\ prev' = [c \in Cells |-> IF c = cell THEN NULL
                              ELSE IF c = unused_head THEN cell
                              ELSE IF c = next[cell] THEN prev[cell]
                              ELSE prev[c]]
  /\ unused_head' = cell
  /\ held' = held \ {cell}
  /\ UNCHANGED <<result, turn, frees, destroyed>>

Visits(h, c) == Cardinality({i \in 0 .. PoolSize : Walk(h)[i] = c})

\* destroy_backend walks both lists and frees every cell it meets.
destroy_backend ==
  /\ ~destroyed
  /\ destroyed' = TRUE
  /\ frees' = [c \in Cells |-> Visits(used_head, c) + Visits(unused_head, c)]
  /\ used_head' = NULL
  /\ unused_head' = NULL
  /\ UNCHANGED <<next, prev, held, result, turn>>

Next == \/ touch_mem_cell
        \/ touch_mem_cell_fails
        \/ \E cell \in Cells : detouch_mem_cell(cell)
        \/ destroy_backend

Spec == Init /\ [][Next]_vars

-----------------------------------------------------------------------------

(* Every pointer of the pool is a cell or null.                            *)
TypeOK == /\ unused_head \in Pointer
          /\ used_head \in Pointer
          /\ next \in [Cells -> Pointer]
          /\ prev \in [Cells -> Pointer]
          /\ held \in SUBSET Cells
          /\ result \in Pointer
          /\ turn \in {0, 1}
          /\ frees \in [Cells -> Nat]
          /\ destroyed \in BOOLEAN

(* The two lists of ctrl_plane_backend.c:44-45 partition the cells exactly *)
(* as the callers see it: the used list holds the cells that are lent, the *)
(* unused list all the others, whatever the order in which touch and       *)
(* detouch were called; and destroy_backend, which walks both, frees every *)
(* cell once, those still lent included.                                   *)
ListsPartitionCells ==
  IF destroyed
  THEN \A c \in Cells : frees[c] = 1
  ELSE UsedList = held /\ UnusedList = Cells \ held

(* The prev pointers that detouch_mem_cell follows are right for every     *)
(* cell of the used list: a cell other than the head has a predecessor in  *)
(* the list whose next pointer is that cell, and a link points back.       *)
UsedListLinked ==
  ~destroyed =>
    \A c \in held : /\ c # used_head => /\ prev[c] \in held
                                        /\ next[prev[c]] = c
                    /\ next[c] # NULL => prev[next[c]] = c

\* The pool keeps the promises of CellPool.
Pool == INSTANCE CellPool WITH free <- Cells \ held
ImplementsCellPool == Pool!Spec
=============================================================================
