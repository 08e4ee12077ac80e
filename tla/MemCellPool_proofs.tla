------------------------- MODULE MemCellPool_proofs -------------------------
(***************************************************************************)
(* Theorems about MemCellPool, for every number of cells.  The inductive   *)
(* invariant says that each of the two lists is a chain through exactly    *)
(* the cells that belong to it, and that the prev pointers of the used     *)
(* list are right.  A chain is described by the rank of each cell, its     *)
(* distance from the null pointer, which needs no recursion; that a walk   *)
(* along the pointers meets what the ranks say comes after it.             *)
(***************************************************************************)
EXTENDS MemCellPool, FiniteSetTheorems, WellFoundedInduction, TLAPS

(* The pointers nx lead from h through all the cells of S, each of them    *)
(* once, to NULL; rank d of a cell is its distance from NULL.              *)
Chain(nx, S, h, d) ==
  /\ d \in [Cells -> Nat]
  /\ (S = {}) <=> (h = NULL)
  /\ h # NULL => h \in S /\ \A c \in S : d[c] <= d[h]
  /\ \A c \in S : /\ d[c] >= 1
                  /\ IF d[c] = 1 THEN nx[c] = NULL
                     ELSE nx[c] \in S /\ d[nx[c]] = d[c] - 1
  /\ \A c, e \in S : (d[c] = d[e]) => (c = e)

IsChain(nx, S, h) == \E d \in [Cells -> Nat] : Chain(nx, S, h, d)

-----------------------------------------------------------------------------
(* What the pool does to a chain.                                          *)

(* Taking the head off.                                                    *)
LEMMA ChainPop ==
  ASSUME NEW nx, NEW ny, NEW S \in SUBSET Cells, NEW h \in Cells,
         IsChain(nx, S, h),
         \A c \in S \ {h} : ny[c] = nx[c]
  PROVE  IsChain(ny, S \ {h}, nx[h])
<1>1. PICK d \in [Cells -> Nat] : Chain(nx, S, h, d)
  BY DEF IsChain
<1>2. h \in S /\ \A c \in S : d[c] <= d[h]
  BY <1>1, NULLAssumption DEF Chain
<1>3. \A c \in S \ {h} : d[c] < d[h]
  BY <1>1, <1>2 DEF Chain
<1>4. \A c \in S \ {h} : ny[c] # h
  <2> SUFFICES ASSUME NEW c \in S \ {h}, nx[c] = h
               PROVE  FALSE
    OBVIOUS
  <2>1. d[h] = d[c] - 1
    BY <1>1, NULLAssumption DEF Chain
  <2> QED
    BY <1>3, <2>1
<1>5. CASE d[h] = 1
  <2>1. nx[h] = NULL /\ S \ {h} = {}
    <3>1. \A c \in S : d[c] >= 1
      BY <1>1 DEF Chain
    <3> QED
      BY <1>1, <1>2, <1>3, <1>5, <3>1 DEF Chain
  <2> QED
    BY <2>1 DEF IsChain, Chain
<1>6. CASE d[h] # 1
  <2>1. nx[h] \in S \ {h} /\ d[nx[h]] = d[h] - 1
    BY <1>1, <1>2, <1>6 DEF Chain
  <2>2. \A c \in S \ {h} : d[c] <= d[nx[h]]
    BY <1>3, <2>1
  <2>3. \A c \in S \ {h} : IF d[c] = 1 THEN ny[c] = NULL
                           ELSE ny[c] \in S \ {h} /\ d[ny[c]] = d[c] - 1
    BY <1>1, <1>4 DEF Chain
  <2>4. Chain(ny, S \ {h}, nx[h], d)
    BY <1>1, <2>1, <2>2, <2>3, NULLAssumption DEF Chain
  <2> QED
    BY <2>4 DEF IsChain
<1> QED
  BY <1>5, <1>6

(* Putting a new cell in front.                                            *)
LEMMA ChainPush ==
  ASSUME NEW nx, NEW ny, NEW S \in SUBSET Cells, NEW h, NEW x \in Cells \ S,
         IsChain(nx, S, h),
         ny[x] = h,
         \A c \in S : ny[c] = nx[c]
  PROVE  IsChain(ny, S \union {x}, x)
<1>1. PICK d \in [Cells -> Nat] : Chain(nx, S, h, d)
  BY DEF IsChain
<1> DEFINE top == IF h = NULL THEN 1 ELSE d[h] + 1
           e == [d EXCEPT ![x] = top]
<1>2. h # NULL => h \in S
  BY <1>1 DEF Chain
<1>3. top \in Nat /\ top >= 1
  BY <1>1, <1>2
<1>4. e \in [Cells -> Nat] /\ e[x] = top /\ \A c \in S : e[c] = d[c]
  BY <1>3
<1>5. \A c \in S : d[c] < top
  BY <1>1, <1>2 DEF Chain
<1>6. IF top = 1 THEN ny[x] = NULL ELSE ny[x] \in S /\ d[ny[x]] = top - 1
  BY <1>1, <1>2 DEF Chain
<1> HIDE DEF top, e
<1>7. \A c \in S \union {x} :
        /\ e[c] >= 1
        /\ IF e[c] = 1 THEN ny[c] = NULL
           ELSE ny[c] \in S \union {x} /\ e[ny[c]] = e[c] - 1
  <2>1. ASSUME NEW c \in S
        PROVE  /\ e[c] >= 1
               /\ IF e[c] = 1 THEN ny[c] = NULL
                  ELSE ny[c] \in S /\ e[ny[c]] = e[c] - 1
    BY <1>1, <1>4 DEF Chain
  <2> QED
    BY <1>3, <1>4, <1>6, <2>1
<1>8. \A c, g \in S \union {x} : (e[c] = e[g]) => (c = g)
  <2>1. \A c, g \in S : (e[c] = e[g]) => (c = g)
    BY <1>1, <1>4 DEF Chain
  <2>2. \A c \in S : e[c] # e[x]
    BY <1>3, <1>4, <1>5
  <2> QED
    BY <2>1, <2>2
<1>9. \A c \in S \union {x} : e[c] <= e[x]
  BY <1>3, <1>4, <1>5
<1> QED
  BY <1>4, <1>7, <1>8, <1>9, NULLAssumption DEF IsChain, Chain

(* Taking a cell x out whose predecessor is p.                             *)
LEMMA ChainCut ==
  ASSUME NEW nx, NEW ny, NEW S \in SUBSET Cells, NEW h \in Cells,
         NEW x \in S, x # h, NEW p \in S, nx[p] = x,
         IsChain(nx, S, h),
         ny[p] = nx[x],
         \A c \in S \ {x, p} : ny[c] = nx[c]
  PROVE  IsChain(ny, S \ {x}, h)
<1>1. PICK d \in [Cells -> Nat] : Chain(nx, S, h, d)
  BY DEF IsChain
<1> DEFINE e == [c \in Cells |-> IF d[c] > d[x] THEN d[c] - 1 ELSE d[c]]
<1>2. \A c \in S : d[c] \in Nat /\ d[c] >= 1
  BY <1>1 DEF Chain
<1>3. e \in [Cells -> Nat]
  BY DEF Chain
<1>4. \A c \in S : e[c] = IF d[c] > d[x] THEN d[c] - 1 ELSE d[c]
  OBVIOUS
<1> HIDE DEF e
<1>5. d[p] = d[x] + 1 /\ p # x
  BY <1>1, <1>2, NULLAssumption DEF Chain
<1>6. h \in S /\ \A c \in S : d[c] <= d[h]
  BY <1>1, NULLAssumption DEF Chain
<1>7. \A c \in S \ {x} : d[c] # d[x]
  BY <1>1 DEF Chain
<1>8. \A c \in S \ {x} : e[c] <= e[h]
  BY <1>2, <1>4, <1>6, <1>7
<1>9. \A c, g \in S \ {x} : (e[c] = e[g]) => (c = g)
  <2>1. \A c, g \in S : (d[c] = d[g]) => (c = g)
    BY <1>1 DEF Chain
  <2> QED
    BY <1>2, <1>4, <1>7, <2>1
<1>10. ASSUME NEW c \in S \ {x}
       PROVE  /\ e[c] >= 1
              /\ IF e[c] = 1 THEN ny[c] = NULL
                 ELSE ny[c] \in S \ {x} /\ e[ny[c]] = e[c] - 1
  <2>1. IF d[c] = 1 THEN nx[c] = NULL ELSE nx[c] \in S /\ d[nx[c]] = d[c] - 1
    BY <1>1 DEF Chain
  <2>2. IF d[x] = 1 THEN nx[x] = NULL ELSE nx[x] \in S /\ d[nx[x]] = d[x] - 1
    BY <1>1 DEF Chain
  <2>3. CASE c = p
    <3>1. e[c] = d[x] /\ ny[c] = nx[x]
      BY <1>2, <1>4, <1>5, <2>3
    <3>2. CASE d[x] = 1
      BY <2>2, <3>1, <3>2
    <3>3. CASE d[x] # 1
      <4>1. nx[x] \in S /\ d[nx[x]] = d[x] - 1
        BY <2>2, <3>3
      <4>2. nx[x] # x /\ e[nx[x]] = d[x] - 1
        BY <1>2, <1>4, <4>1
      <4> QED
        BY <1>2, <3>1, <3>3, <4>1, <4>2
    <3> QED
      BY <3>2, <3>3
  <2>4. CASE c # p
    <3>1. ny[c] = nx[c]
      BY <2>4
    <3>2. nx[c] # x
      <4> SUFFICES ASSUME nx[c] = x
                   PROVE  FALSE
        OBVIOUS
      <4>1. d[c] = d[p]
        BY <1>2, <1>5, <2>1, NULLAssumption
      <4> QED
        BY <1>1, <2>4, <4>1 DEF Chain
    <3>3. CASE d[c] > d[x]
      <4>1. nx[c] \in S \ {x} /\ d[nx[c]] = d[c] - 1
        BY <1>2, <2>1, <3>2, <3>3
      <4>2. d[nx[c]] > d[x]
        BY <1>2, <1>7, <3>3, <4>1
      <4>3. e[c] = d[c] - 1 /\ e[nx[c]] = d[c] - 2
        BY <1>2, <1>4, <3>3, <4>1, <4>2
      <4> QED
        BY <1>2, <3>1, <3>3, <4>1, <4>2, <4>3
    <3>4. CASE d[c] < d[x]
      <4>1. e[c] = d[c]
        BY <1>2, <1>4, <3>4
      <4>2. d[c] # 1 => nx[c] \in S \ {x} /\ e[nx[c]] = d[c] - 1
        BY <1>2, <1>4, <2>1, <3>2, <3>4
      <4> QED
        BY <1>2, <2>1, <3>1, <4>1, <4>2
    <3> QED
      BY <1>2, <1>7, <3>3, <3>4
  <2> QED
    BY <2>3, <2>4
<1> QED
  BY <1>3, <1>6, <1>8, <1>9, <1>10, NULLAssumption DEF IsChain, Chain

-----------------------------------------------------------------------------
(* Type correctness.                                                       *)

(* Walking a list visits a cell a natural number of times.                 *)
LEMMA VisitsType ==
  ASSUME NEW h, NEW c
  PROVE  Visits(h, c) \in Nat
<1>1. IsFiniteSet(0 .. PoolSize)
  BY FS_Interval, PoolSizeAssumption
<1>2. {i \in 0 .. PoolSize : Walk(h)[i] = c} \in SUBSET (0 .. PoolSize)
  OBVIOUS
<1>3. IsFiniteSet({i \in 0 .. PoolSize : Walk(h)[i] = c})
  BY <1>1, <1>2, FS_Subset
<1> QED
  BY <1>3, FS_CardinalityType DEF Visits

(* Every pointer of the pool is a cell or null, and null is never          *)
(* dereferenced: what touch and detouch follow are always cells.           *)
THEOREM TypeCorrect == Spec => []TypeOK
<1>1. Init => TypeOK
  <2>1. PoolSize \in Cells
    BY PoolSizeAssumption DEF Cells
  <2>2. \A c \in Cells : c # 1 => c - 1 \in Cells
    BY PoolSizeAssumption DEF Cells
  <2> SUFFICES ASSUME Init
               PROVE  TypeOK
    OBVIOUS
  <2>3. next \in [Cells -> Pointer]
    BY <2>2 DEF Init, Pointer
  <2>4. prev \in [Cells -> Pointer] /\ frees \in [Cells -> Nat]
    BY DEF Init, Pointer
  <2> QED
    BY <2>1, <2>3, <2>4 DEF Init, TypeOK, Pointer
<1>2. TypeOK /\ [Next]_vars => TypeOK'
  <2> SUFFICES ASSUME TypeOK, [Next]_vars
               PROVE  TypeOK'
    OBVIOUS
  <2>1. CASE touch_mem_cell
    <3>1. unused_head \in Cells
      BY <2>1 DEF touch_mem_cell, TypeOK, Pointer
    <3> QED
      BY <2>1, <3>1 DEF touch_mem_cell, TypeOK, Pointer
  <2>2. CASE touch_mem_cell_fails
    BY <2>2 DEF touch_mem_cell_fails, TypeOK, Pointer
  <2>3. ASSUME NEW cell \in Cells, detouch_mem_cell(cell)
        PROVE  TypeOK'
    BY <2>3 DEF detouch_mem_cell, TypeOK, Pointer
  <2>4. CASE destroy_backend
    BY <2>4, VisitsType DEF destroy_backend, TypeOK, Pointer
  <2>5. CASE UNCHANGED vars
    BY <2>5 DEF vars, TypeOK
  <2> QED
    BY <2>1, <2>2, <2>3, <2>4, <2>5 DEF Next
<1> QED
  BY <1>1, <1>2, PTL DEF Spec

-----------------------------------------------------------------------------
(* The inductive invariant.                                                *)

Unused == Cells \ held

UnusedChain == IsChain(next, Unused, unused_head)
UsedChain   == IsChain(next, held, used_head)
HeadPrevs   == /\ unused_head # NULL => prev[unused_head] = NULL
               /\ used_head # NULL => prev[used_head] = NULL
LinkedBack  == \A c \in held : /\ c # used_head => /\ prev[c] \in held
                                                   /\ next[prev[c]] = c
                               /\ next[c] # NULL => prev[next[c]] = c

PoolInv == ~destroyed => UnusedChain /\ UsedChain /\ HeadPrevs /\ LinkedBack

(* create_backend links all the cells into the unused list, the last one   *)
(* first.                                                                  *)
LEMMA PoolInvInit == Init => PoolInv
<1> SUFFICES ASSUME Init
             PROVE  UnusedChain /\ UsedChain /\ HeadPrevs /\ LinkedBack
  BY DEF PoolInv
<1>1. UnusedChain
  <2> DEFINE d == [c \in Cells |-> c]
  <2>1. d \in [Cells -> Nat] /\ \A c \in Cells : d[c] = c
    BY DEF Cells
  <2> HIDE DEF d
  <2>2. Unused = Cells /\ unused_head = PoolSize /\ PoolSize \in Cells
    BY PoolSizeAssumption DEF Init, Unused, Cells
  <2>3. \A c \in Cells : IF c = 1 THEN next[c] = NULL
                         ELSE next[c] \in Cells /\ next[c] = c - 1
    BY PoolSizeAssumption DEF Init, Cells
  <2>4. Chain(next, Unused, unused_head, d)
    BY <2>1, <2>2, <2>3, PoolSizeAssumption, NULLAssumption DEF Chain, Cells
  <2> QED
    BY <2>1, <2>4 DEF UnusedChain, IsChain
<1>2. UsedChain
  <2>1. [c \in Cells |-> 1] \in [Cells -> Nat]
    OBVIOUS
  <2> QED
    BY <2>1 DEF Init, UsedChain, IsChain, Chain
<1> QED
  BY <1>1, <1>2, PoolSizeAssumption DEF Init, HeadPrevs, LinkedBack, Cells

(* touch_mem_cell pops the unused chain and pushes the used one.           *)
LEMMA PoolInvTouch ==
  TypeOK /\ PoolInv /\ touch_mem_cell => PoolInv'
<1> SUFFICES ASSUME TypeOK, PoolInv, touch_mem_cell
             PROVE  UnusedChain' /\ UsedChain' /\ HeadPrevs' /\ LinkedBack'
  BY DEF PoolInv
<1> DEFINE u == unused_head
<1>1. /\ u \in Cells /\ unused_head' = next[u] /\ used_head' = u
      /\ next' = [next EXCEPT ![u] = used_head]
      /\ prev' = [c \in Cells |-> IF c = used_head THEN u
                                  ELSE IF c = next[u] THEN NULL ELSE prev[c]]
      /\ held' = held \union {u}
  BY DEF touch_mem_cell, TypeOK, Pointer
<1>2. UnusedChain /\ UsedChain /\ HeadPrevs /\ LinkedBack
  BY DEF touch_mem_cell, PoolInv
<1>3. u \in Unused /\ Unused' = Unused \ {u} /\ Unused \in SUBSET Cells
      /\ held \in SUBSET Cells
  BY <1>1, <1>2, NULLAssumption
  DEF UnusedChain, IsChain, Chain, Unused, TypeOK
<1>4. next'[u] = used_head /\ \A c \in Cells \ {u} : next'[c] = next[c]
  BY <1>1 DEF TypeOK
<1>5. UnusedChain'
  <2>1. IsChain(next', Unused \ {u}, next[u])
    BY <1>1, <1>2, <1>3, <1>4, ChainPop DEF UnusedChain
  <2> QED
    BY <1>1, <1>3, <2>1 DEF UnusedChain
<1>6. UsedChain'
  <2>1. u \in Cells \ held
    BY <1>3 DEF Unused
  <2>2. IsChain(next', held \union {u}, u)
    BY <1>2, <1>3, <1>4, <2>1, ChainPush DEF UsedChain
  <2> QED
    BY <1>1, <2>2 DEF UsedChain
<1>7. used_head # NULL => used_head \in held
  BY <1>2 DEF UsedChain, IsChain, Chain
<1>8. next[u] # NULL => next[u] \in Unused \ {u}
  BY <1>1, <1>3, <1>5 DEF UnusedChain, IsChain, Chain
<1>9. \A c \in held : next[c] # NULL => next[c] \in held
  BY <1>2 DEF UsedChain, IsChain, Chain
<1>10. HeadPrevs'
  BY <1>1, <1>2, <1>3, <1>7, <1>8, NULLAssumption
  DEF HeadPrevs, TypeOK, Pointer, Unused
<1>11. LinkedBack'
  <2> SUFFICES ASSUME NEW c \in held \union {u}
               PROVE  /\ c # u => /\ prev'[c] \in held \union {u}
                                  /\ next'[prev'[c]] = c
                      /\ next'[c] # NULL => prev'[next'[c]] = c
    BY <1>1 DEF LinkedBack
  <2>1. CASE c = u
    BY <1>1, <1>4, <1>7, <2>1, NULLAssumption DEF TypeOK
  <2>2. CASE c # u
    <3>1. c \in held /\ c # next[u]
      BY <1>8, <2>2, NULLAssumption DEF Unused, TypeOK
    <3>2. /\ prev'[c] \in held \union {u}
          /\ next'[prev'[c]] = c
      <4>1. CASE c = used_head
        BY <1>1, <1>4, <3>1, <4>1 DEF TypeOK
      <4>2. CASE c # used_head
        <5>1. prev[c] \in held /\ next[prev[c]] = c
          BY <1>2, <3>1, <4>2 DEF LinkedBack
        <5>2. prev'[c] = prev[c] /\ prev[c] # u
          BY <1>1, <1>3, <3>1, <4>2, <5>1 DEF Unused, TypeOK
        <5> QED
          BY <1>3, <1>4, <5>1, <5>2
      <4> QED
        BY <4>1, <4>2
    <3>3. next'[c] # NULL => prev'[next'[c]] = c
      <4> SUFFICES ASSUME next[c] # NULL
                   PROVE  prev'[next[c]] = c
        BY <1>3, <1>4, <2>2, <3>1
      <4>1. next[c] \in held /\ prev[next[c]] = c
        BY <1>2, <1>9, <3>1 DEF LinkedBack
      <4>2. next[c] # used_head
        BY <1>2, <1>3, <3>1, <4>1, NULLAssumption DEF HeadPrevs
      <4>3. next[c] # next[u]
        BY <1>8, <4>1, NULLAssumption DEF Unused
      <4> QED
        BY <1>1, <1>3, <4>1, <4>2, <4>3
    <3> QED
      BY <3>2, <3>3
  <2> QED
    BY <2>1, <2>2
<1> QED
  BY <1>5, <1>6, <1>10, <1>11

(* detouch_mem_cell takes the cell out of the used chain, wherever it is,  *)
(* and pushes it on the unused one.                                        *)
LEMMA PoolInvDetouch ==
  ASSUME NEW cell \in Cells
  PROVE  TypeOK /\ PoolInv /\ detouch_mem_cell(cell) => PoolInv'
<1> SUFFICES ASSUME TypeOK, PoolInv, detouch_mem_cell(cell)
             PROVE  UnusedChain' /\ UsedChain' /\ HeadPrevs' /\ LinkedBack'
  BY DEF PoolInv
<1> DEFINE u == unused_head
           rest == held \ {cell}
<1>1. /\ cell \in held /\ held' = rest /\ unused_head' = cell
      /\ used_head' = IF used_head = cell THEN next[cell] ELSE used_head
      /\ next' = [c \in Cells |-> IF c = cell THEN u
                                  ELSE IF used_head # cell /\ c = prev[cell]
                                       THEN next[cell]
                                  ELSE next[c]]
      /\ prev' = [c \in Cells |-> IF c = cell THEN NULL
                                  ELSE IF c = u THEN cell
                                  ELSE IF c = next[cell] THEN prev[cell]
                                  ELSE prev[c]]
  BY DEF detouch_mem_cell
<1>2. UnusedChain /\ UsedChain /\ HeadPrevs /\ LinkedBack
  BY DEF detouch_mem_cell, PoolInv
<1>3. /\ held \in SUBSET Cells /\ Unused \in SUBSET Cells
      /\ Unused' = Unused \union {cell} /\ cell \notin Unused
  BY <1>1 DEF TypeOK, Unused
<1>4. u # NULL => u \in Unused
  BY <1>2 DEF UnusedChain, IsChain, Chain
<1>5. used_head \in held
  BY <1>1, <1>2, NULLAssumption DEF UsedChain, IsChain, Chain
<1>6. \A c \in held : next[c] # NULL => next[c] \in held
  BY <1>2 DEF UsedChain, IsChain, Chain
<1>7. next'[cell] = u /\ \A c \in Unused : next'[c] = next[c]
  <2>1. used_head # cell => prev[cell] \in held
    BY <1>1, <1>2 DEF LinkedBack
  <2> QED
    BY <1>1, <1>3, <2>1 DEF Unused
<1>8. UnusedChain'
  <2>1. cell \in Cells \ Unused
    BY <1>3
  <2>2. IsChain(next', Unused \union {cell}, cell)
    BY <1>2, <1>3, <1>7, <2>1, ChainPush DEF UnusedChain
  <2> QED
    BY <1>1, <1>3, <2>2 DEF UnusedChain
<1>9. \A c \in rest : next[c] = cell => used_head # cell /\ c = prev[cell]
  BY <1>1, <1>2, <1>3, NULLAssumption DEF LinkedBack, HeadPrevs
<1>10. \A c \in rest : c = prev[cell] => used_head = cell \/ next[c] = cell
  BY <1>1, <1>2 DEF LinkedBack
<1>11. UsedChain'
  <2>1. CASE used_head = cell
    <3>1. \A c \in held \ {cell} : next'[c] = next[c]
      BY <1>1, <1>3, <2>1
    <3>2. IsChain(next', held \ {cell}, next[cell])
      BY <1>2, <1>3, <2>1, <3>1, ChainPop DEF UsedChain
    <3> QED
      BY <1>1, <2>1, <3>2 DEF UsedChain
  <2>2. CASE used_head # cell
    <3> DEFINE p == prev[cell]
    <3>1. p \in held /\ next[p] = cell
      BY <1>1, <1>2, <2>2 DEF LinkedBack
    <3>2. p # cell
      <4>1. PICK d \in [Cells -> Nat] : Chain(next, held, used_head, d)
        BY <1>2 DEF UsedChain, IsChain
      <4>2. d[cell] = d[p] - 1 /\ d[p] \in Nat
        BY <1>3, <3>1, <4>1, NULLAssumption DEF Chain
      <4> QED
        BY <4>2
    <3>3. next'[p] = next[cell] /\ \A c \in held \ {cell, p} : next'[c] = next[c]
      BY <1>1, <1>3, <2>2, <3>1, <3>2
    <3>4. IsChain(next', held \ {cell}, used_head)
      BY <1>1, <1>2, <1>3, <1>5, <2>2, <3>1, <3>3, ChainCut DEF UsedChain
    <3> QED
      BY <1>1, <2>2, <3>4 DEF UsedChain
  <2> QED
    BY <2>1, <2>2
<1>12. HeadPrevs'
  <2>1. prev'[unused_head'] = NULL
    BY <1>1
  <2>2. used_head' # NULL => used_head' \in rest
    BY <1>1, <1>11 DEF UsedChain, IsChain, Chain
  <2>3. used_head' # NULL => prev'[used_head'] = NULL
    <3> SUFFICES ASSUME used_head' # NULL
                 PROVE  prev'[used_head'] = NULL
      OBVIOUS
    <3>1. used_head' \in rest /\ used_head' # u /\ used_head' \in Cells
      BY <1>3, <1>4, <2>2, NULLAssumption DEF Unused
    <3>2. CASE used_head = cell
      BY <1>1, <1>2, <3>1, <3>2, NULLAssumption DEF HeadPrevs
    <3>3. CASE used_head # cell
      <4>1. used_head' = used_head /\ used_head # next[cell]
        BY <1>1, <1>2, <1>3, <3>1, <3>3, NULLAssumption DEF HeadPrevs, LinkedBack
      <4> QED
        BY <1>1, <1>2, <3>1, <4>1, NULLAssumption DEF HeadPrevs
    <3> QED
      BY <3>2, <3>3
  <2> QED
    BY <2>1, <2>3 DEF HeadPrevs
<1>13. LinkedBack'
  <2>0. held' = rest
    BY <1>1
  <2> HIDE DEF rest
  <2> SUFFICES ASSUME NEW c \in rest
               PROVE  /\ c # used_head' => /\ prev'[c] \in rest
                                           /\ next'[prev'[c]] = c
                      /\ next'[c] # NULL => prev'[next'[c]] = c
    BY <2>0 DEF LinkedBack
  <2> USE DEF rest
  <2>1. c \in held /\ c # cell /\ c # u /\ c \in Cells
    BY <1>3, <1>4, NULLAssumption DEF Unused
  <2>2. ASSUME c # used_head'
        PROVE  prev'[c] \in rest /\ next'[prev'[c]] = c
    <3>1. CASE c = next[cell]
      <4>1. used_head # cell /\ prev'[c] = prev[cell]
        BY <1>1, <2>1, <2>2, <3>1
      <4>2. prev[cell] \in held /\ next[prev[cell]] = cell
        BY <1>1, <1>2, <4>1 DEF LinkedBack
      <4>3. prev[cell] # cell
        BY <2>1, <3>1, <4>2
      <4> QED
        BY <1>1, <1>3, <3>1, <4>1, <4>2, <4>3
    <3>2. CASE c # next[cell]
      <4>1. c # used_head
        BY <1>1, <2>1, <2>2
      <4>2. prev[c] \in held /\ next[prev[c]] = c /\ prev'[c] = prev[c]
        BY <1>1, <1>2, <2>1, <3>2, <4>1 DEF LinkedBack
      <4>3. prev[c] # cell
        BY <3>2, <4>2
      <4>4. used_head # cell => prev[c] # prev[cell]
        BY <1>1, <1>2, <2>1, <4>2 DEF LinkedBack
      <4> QED
        BY <1>1, <1>3, <4>2, <4>3, <4>4
    <3> QED
      BY <3>1, <3>2
  <2>3. ASSUME next'[c] # NULL
        PROVE  prev'[next'[c]] = c
    <3>1. CASE used_head # cell /\ c = prev[cell]
      <4>1. next'[c] = next[cell] /\ next[cell] \in held
        BY <1>1, <1>6, <2>1, <2>3, <3>1
      <4>2. next[cell] # cell
        BY <1>1, <1>2, <2>1, <3>1, <4>1, NULLAssumption, <1>3 DEF LinkedBack
      <4>3. next[cell] # u
        BY <1>3, <1>4, <4>1, NULLAssumption DEF Unused
      <4> QED
        BY <1>1, <1>3, <3>1, <4>1, <4>2, <4>3
    <3>2. CASE ~(used_head # cell /\ c = prev[cell])
      <4>1. next'[c] = next[c] /\ next[c] # cell
        BY <1>1, <1>9, <2>1, <3>2
      <4>2. next[c] \in held /\ prev[next[c]] = c
        BY <1>2, <1>6, <2>1, <2>3, <4>1 DEF LinkedBack
      <4>3. next[c] # u
        BY <1>3, <1>4, <4>2, NULLAssumption DEF Unused
      <4>4. next[c] # next[cell]
        BY <1>1, <1>2, <2>1, <2>3, <4>1, <4>2 DEF LinkedBack
      <4> QED
        BY <1>1, <1>3, <4>1, <4>2, <4>3, <4>4
    <3> QED
      BY <3>1, <3>2
  <2> QED
    BY <2>2, <2>3
<1> QED
  BY <1>8, <1>11, <1>12, <1>13

(* In every reachable state, whatever the order of the calls, each list is *)
(* a chain through exactly its cells: no cell is lost, none is in both.    *)
THEOREM ListsAreChains == Spec => []PoolInv
<1>1. TypeOK /\ PoolInv /\ [Next]_vars => PoolInv'
  <2> SUFFICES ASSUME TypeOK, PoolInv, [Next]_vars
               PROVE  PoolInv'
    OBVIOUS
  <2>1. CASE touch_mem_cell
    BY <2>1, PoolInvTouch
  <2>2. ASSUME NEW cell \in Cells, detouch_mem_cell(cell)
        PROVE  PoolInv'
    BY <2>2, PoolInvDetouch
  <2>3. CASE destroy_backend
    BY <2>3 DEF destroy_backend, PoolInv
  <2>4. CASE UNCHANGED <<unused_head, used_head, next, prev, held, destroyed>>
    BY <2>4
    DEF PoolInv, UnusedChain, UsedChain, HeadPrevs, LinkedBack, Unused
  <2> QED
    BY <2>1, <2>2, <2>3, <2>4 DEF Next, touch_mem_cell_fails, vars
<1> QED
  BY <1>1, PoolInvInit, TypeCorrect, PTL DEF Spec

(* The prev pointers that detouch_mem_cell follows are right.              *)
THEOREM UsedListIsLinked == Spec => []UsedListLinked
<1>1. PoolInv => UsedListLinked
  BY DEF PoolInv, LinkedBack, UsedListLinked
<1> QED
  BY <1>1, ListsAreChains, PTL

(* The two pointer lists keep what CellPool promises: touch lends a cell   *)
(* that nobody holds, and fails only when every cell is lent.              *)
THEOREM PoolImplementsCellPool == Spec => ImplementsCellPool
<1>1. Init => Pool!Init
  BY DEF Init, Pool!Init
<1>2. TypeOK /\ PoolInv /\ [Next]_vars => [Pool!Next]_(Pool!vars)
  <2> SUFFICES ASSUME TypeOK, PoolInv, [Next]_vars
               PROVE  Pool!Next \/ UNCHANGED Pool!vars
    BY DEF Pool!vars
  <2>1. CASE touch_mem_cell
    <3>1. unused_head \in Cells \ held
      BY <2>1 DEF touch_mem_cell, PoolInv, UnusedChain, IsChain, Chain, Unused
    <3>2. Pool!Lend(unused_head)
      BY <2>1, <3>1 DEF touch_mem_cell, Pool!Lend, Pool!Flip
    <3> QED
      BY <3>1, <3>2 DEF Pool!Next
  <2>2. CASE touch_mem_cell_fails
    <3>1. Cells \ held = {}
      BY <2>2 DEF touch_mem_cell_fails, PoolInv, UnusedChain, IsChain, Chain,
                  Unused
    <3>2. Pool!Refuse
      BY <2>2, <3>1 DEF touch_mem_cell_fails, Pool!Refuse, Pool!Flip
    <3> QED
      BY <3>2 DEF Pool!Next
  <2>3. ASSUME NEW cell \in Cells, detouch_mem_cell(cell)
        PROVE  Pool!Next
    <3>1. Pool!TakeBack(cell)
      BY <2>3 DEF detouch_mem_cell, Pool!TakeBack, TypeOK
    <3> QED
      BY <3>1 DEF Pool!Next
  <2>4. CASE UNCHANGED <<held, result, turn>>
    BY <2>4 DEF Pool!vars
  <2> QED
    BY <2>1, <2>2, <2>3, <2>4 DEF Next, destroy_backend, vars
<1> QED
  BY <1>1, <1>2, TypeCorrect, ListsAreChains, PTL
  DEF Spec, ImplementsCellPool, Pool!Spec

-----------------------------------------------------------------------------
(* What a walk along a chain meets.  It is defined by recursion on the     *)
(* number of steps; the inductions take the first step that goes wrong.    *)

(* The order of the natural numbers has no infinite descent.               *)
LEMMA NatWF == IsWellFoundedOn({ss \in Nat \X Nat : ss[1] < ss[2]}, Nat)
  BY NatLessThanWellFounded DEF OpToRel

(* Every set of natural numbers has a least one.                           *)
LEMMA LeastNatural ==
  ASSUME NEW U, U \subseteq Nat, U # {}
  PROVE  \E n \in U : \A m \in U : n <= m
<1> DEFINE R == {ss \in Nat \X Nat : ss[1] < ss[2]}
<1>1. IsWellFoundedOn(R, Nat)
  BY NatWF
<1> HIDE DEF R
<1>2. PICK n \in U : \A m \in U : ~(<<m, n>> \in R)
  BY <1>1, WFMin
<1>3. \A m \in U : m \in Nat /\ n \in Nat /\ ~(m < n)
  BY <1>2 DEF R
<1> QED
  BY <1>3

(* The number of steps to NULL.                                            *)
Length(h, d) == IF h = NULL THEN 0 ELSE d[h]

(* The ranks of a chain have no gap: after i steps there is a cell.        *)
LEMMA ChainHasAll ==
  ASSUME NEW S \in SUBSET Cells, NEW h, NEW d \in [Cells -> Nat],
         Chain(next, S, h, d)
  PROVE  \A i \in 0 .. Length(h, d) - 1 : \E c \in S : d[c] = Length(h, d) - i
<1> DEFINE top == Length(h, d)
           U == {i \in 0 .. top - 1 : ~ \E c \in S : d[c] = top - i}
<1>1. top \in Nat /\ U \subseteq Nat
  BY DEF Chain, Length
<1>2. SUFFICES ASSUME U # {}
               PROVE  FALSE
  BY <1>1
<1>3. PICK i \in U : \A m \in U : i <= m
  BY <1>1, <1>2, LeastNatural
<1>4. i \in 0 .. top - 1 /\ ~ \E c \in S : d[c] = top - i
  BY <1>3
<1>5. h # NULL /\ h \in S /\ top = d[h]
  BY <1>4 DEF Chain, Length
<1>6. i # 0
  BY <1>1, <1>4, <1>5
<1>7. i - 1 \in 0 .. top - 1 /\ i - 1 \notin U
  BY <1>1, <1>3, <1>4, <1>6
<1>8. PICK c \in S : d[c] = top - (i - 1)
  BY <1>7
<1>9. next[c] \in S /\ d[next[c]] = d[c] - 1
  BY <1>1, <1>4, <1>8 DEF Chain
<1>10. d[next[c]] = top - i
  BY <1>1, <1>4, <1>8, <1>9
<1> QED
  BY <1>4, <1>9, <1>10

(* There are at most as many steps as cells in the pool.                   *)
LEMMA ChainIsShort ==
  ASSUME NEW S \in SUBSET Cells, NEW h, NEW d \in [Cells -> Nat],
         Chain(next, S, h, d)
  PROVE  Length(h, d) \in 0 .. PoolSize
<1> DEFINE top == Length(h, d)
           at == [i \in 0 .. top - 1 |-> CHOOSE c \in S : d[c] = top - i]
<1>1. top \in Nat
  BY DEF Chain, Length
<1>2. SUFFICES ASSUME top > PoolSize
               PROVE  FALSE
  BY <1>1, PoolSizeAssumption
<1>3. \A i \in 0 .. top - 1 : at[i] \in S /\ d[at[i]] = top - i
  BY ChainHasAll
<1>4. at \in [0 .. top - 1 -> Cells]
  BY <1>3
<1>5. /\ IsFiniteSet(0 .. top - 1) /\ Cardinality(0 .. top - 1) = top
      /\ IsFiniteSet(Cells) /\ Cardinality(Cells) = PoolSize
  <2> HIDE DEF top
  <2>1. top - 1 \in Int /\ PoolSize \in Int
    BY <1>1, PoolSizeAssumption
  <2>2. /\ IsFiniteSet(0 .. top - 1)
        /\ Cardinality(0 .. top - 1) = IF 0 > top - 1 THEN 0 ELSE top - 1 - 0 + 1
    BY <2>1, FS_Interval
  <2>3. /\ IsFiniteSet(1 .. PoolSize)
        /\ Cardinality(1 .. PoolSize) = IF 1 > PoolSize THEN 0 ELSE PoolSize - 1 + 1
    BY <2>1, FS_Interval
  <2> QED
    BY <1>1, <2>2, <2>3, PoolSizeAssumption DEF Cells
<1> HIDE DEF at, top
<1>6. PICK i, j \in 0 .. top - 1 : i # j /\ at[i] = at[j]
  BY <1>1, <1>2, <1>4, <1>5, FS_PigeonHole, PoolSizeAssumption
<1>7. top - i = top - j
  BY <1>3, <1>6
<1> QED
  BY <1>1, <1>6, <1>7

(* The i-th cell of the walk along a chain is the one i steps from the head, *)
(* and there is nothing after the last one.                                *)
LEMMA WalkMeetsChain ==
  ASSUME NEW S \in SUBSET Cells, NEW h, NEW d \in [Cells -> Nat],
         Chain(next, S, h, d),
         NEW i \in 0 .. PoolSize
  PROVE  IF i < Length(h, d)
         THEN Walk(h)[i] \in S /\ d[Walk(h)[i]] = Length(h, d) - i
         ELSE Walk(h)[i] = NULL
<1> DEFINE top == Length(h, d)
           at(n) == CHOOSE c \in S : d[c] = top - n
           step(f, n) == IF n = 0 THEN h
                         ELSE IF f[n - 1] = NULL THEN NULL ELSE next[f[n - 1]]
           w == [n \in 0 .. PoolSize |-> IF n < top THEN at(n) ELSE NULL]
<1>1. top \in 0 .. PoolSize
  BY ChainIsShort
<1>2. \A n \in 0 .. top - 1 : at(n) \in S /\ d[at(n)] = top - n
  BY ChainHasAll
<1>3. /\ \A n \in 0 .. top - 1 : w[n] \in S /\ d[w[n]] = top - n
      /\ \A n \in top .. PoolSize : w[n] = NULL
  BY <1>1, <1>2, PoolSizeAssumption
<1>4. w = [n \in 0 .. PoolSize |-> w[n]]
  OBVIOUS
<1> HIDE DEF w, at
<1>5. ASSUME NEW n \in 0 .. PoolSize
      PROVE  w[n] = step(w, n)
  <2>1. CASE n = 0
    <3>1. CASE h = NULL
      BY <1>1, <1>3, <2>1, <3>1 DEF Length
    <3>2. CASE h # NULL
      <4>1. h \in S /\ top = d[h] /\ d[h] >= 1
        BY <3>2 DEF Chain, Length
      <4>2. w[0] \in S /\ d[w[0]] = top
        BY <1>1, <1>3, <4>1
      <4> QED
        BY <2>1, <4>1, <4>2 DEF Chain
    <3> QED
      BY <3>1, <3>2
  <2>2. CASE n # 0 /\ n - 1 < top
    <3>1. n - 1 \in 0 .. top - 1
      BY <1>1, <2>2
    <3>2. w[n - 1] \in S /\ d[w[n - 1]] = top - (n - 1) /\ w[n - 1] # NULL
      BY <1>3, <3>1, NULLAssumption
    <3>3. CASE n = top
      <4>1. d[w[n - 1]] = 1
        BY <1>1, <3>2, <3>3
      <4>2. next[w[n - 1]] = NULL
        BY <3>2, <4>1 DEF Chain
      <4> QED
        BY <1>1, <1>3, <2>2, <3>2, <3>3, <4>2
    <3>4. CASE n # top
      <4>1. n \in 0 .. top - 1
        BY <1>1, <2>2, <3>4
      <4>2. d[w[n - 1]] # 1
        BY <1>1, <3>2, <4>1
      <4>3. next[w[n - 1]] \in S /\ d[next[w[n - 1]]] = d[w[n - 1]] - 1
        BY <3>2, <4>2 DEF Chain
      <4>4. w[n] \in S /\ d[w[n]] = top - n
        BY <1>3, <4>1
      <4>5. d[next[w[n - 1]]] = d[w[n]]
        BY <1>1, <3>2, <4>1, <4>3, <4>4
      <4>6. next[w[n - 1]] = w[n]
        BY <4>3, <4>4, <4>5 DEF Chain
      <4> QED
        BY <2>2, <3>2, <4>6
    <3> QED
      BY <3>3, <3>4
  <2>3. CASE n # 0 /\ n - 1 >= top
    <3>1. n - 1 \in top .. PoolSize /\ n \in top .. PoolSize
      <4> HIDE DEF top
      <4> QED
        BY <1>1, <2>3, PoolSizeAssumption
    <3> QED
      BY <1>3, <2>3, <3>1
  <2> QED
    BY <1>1, <2>1, <2>2, <2>3
<1>6. w = [n \in 0 .. PoolSize |-> step(w, n)]
  BY <1>4, <1>5
<1> DEFINE v == Walk(h)
<1>7. v = [n \in 0 .. PoolSize |-> step(v, n)]
  BY <1>6 DEF Walk
<1>8. \A n \in 0 .. PoolSize : v[n] = step(v, n)
  BY <1>7
<1> HIDE DEF v
<1>9. v[i] = w[i]
  <2> DEFINE U == {n \in 0 .. PoolSize : v[n] # w[n]}
  <2>1. SUFFICES ASSUME U # {}
                 PROVE  FALSE
    OBVIOUS
  <2>2. U \subseteq Nat
    OBVIOUS
  <2>3. PICK n \in U : \A m \in U : n <= m
    BY <2>1, <2>2, LeastNatural
  <2>4. n \in 0 .. PoolSize /\ v[n] # w[n]
    BY <2>3
  <2>5. v[n] = step(v, n) /\ w[n] = step(w, n)
    BY <1>5, <1>8, <2>4
  <2>6. n # 0
    BY <2>4, <2>5
  <2>7. n - 1 \in 0 .. PoolSize /\ n - 1 \notin U
    BY <2>3, <2>4, <2>6, PoolSizeAssumption
  <2>8. v[n - 1] = w[n - 1]
    BY <2>7
  <2> QED
    BY <2>4, <2>5, <2>8
<1>10. i < top => i \in 0 .. top - 1
  BY <1>1
<1>11. ~(i < top) => i \in top .. PoolSize
  BY <1>1
<1> QED
  BY <1>3, <1>9, <1>10, <1>11 DEF v

(* The cells that a walk meets.                                            *)
Met(h) == {Walk(h)[i] : i \in 0 .. PoolSize} \ {NULL}

(* So it meets the cells of the chain and no others, each of them once.    *)
LEMMA WalkVisitsChain ==
  ASSUME NEW S \in SUBSET Cells, NEW h, IsChain(next, S, h)
  PROVE  /\ Met(h) = S
         /\ \A c \in Cells : Visits(h, c) = IF c \in S THEN 1 ELSE 0
<1>1. PICK d \in [Cells -> Nat] : Chain(next, S, h, d)
  BY DEF IsChain
<1> DEFINE top == Length(h, d)
           v == Walk(h)
<1>2. top \in 0 .. PoolSize
  BY <1>1, ChainIsShort
<1>3. \A i \in 0 .. PoolSize : IF i < top THEN v[i] \in S /\ d[v[i]] = top - i
                              ELSE v[i] = NULL
  BY <1>1, WalkMeetsChain
<1> HIDE DEF v
<1>4. ASSUME NEW c \in S
      PROVE  \E i \in 0 .. PoolSize : {j \in 0 .. PoolSize : v[j] = c} = {i}
  <2>1. h # NULL /\ top = d[h] /\ d[c] <= top /\ d[c] >= 1 /\ c # NULL
    BY <1>1, NULLAssumption DEF Chain, Length
  <2> DEFINE i == top - d[c]
  <2>2. i \in 0 .. PoolSize /\ i < top
    <3> HIDE DEF top
    <3>1. d[c] \in Nat
      OBVIOUS
    <3> QED
      BY <1>2, <2>1, <3>1, PoolSizeAssumption
  <2>3. v[i] \in S /\ d[v[i]] = d[c]
    BY <1>2, <1>3, <2>1, <2>2
  <2>4. v[i] = c
    BY <1>1, <2>3 DEF Chain
  <2>5. \A j \in 0 .. PoolSize : v[j] = c => j = i
    BY <1>2, <1>3, <2>1, <2>2
  <2> QED
    BY <2>2, <2>4, <2>5
<1>5. ASSUME NEW c \in Cells, c \notin S
      PROVE  {j \in 0 .. PoolSize : v[j] = c} = {}
  <2>1. \A j \in 0 .. PoolSize : v[j] \in S \/ v[j] = NULL
    BY <1>3
  <2> QED
    BY <1>5, <2>1, NULLAssumption
<1>6. Met(h) = S
  <2>1. \A i \in 0 .. PoolSize : v[i] # NULL => v[i] \in S
    BY <1>3
  <2>2. \A c \in S : c # NULL /\ \E i \in 0 .. PoolSize : v[i] = c
    BY <1>4, NULLAssumption
  <2>3. {v[i] : i \in 0 .. PoolSize} \ {NULL} = S
    BY <2>1, <2>2
  <2> QED
    BY <2>3 DEF Met, v
<1>7. ASSUME NEW c \in Cells
      PROVE  Visits(h, c) = IF c \in S THEN 1 ELSE 0
  <2>1. Visits(h, c) = Cardinality({j \in 0 .. PoolSize : v[j] = c})
    BY DEF Visits, v
  <2>2. CASE c \in S
    <3>1. PICK i \in 0 .. PoolSize : {j \in 0 .. PoolSize : v[j] = c} = {i}
      BY <1>4, <2>2
    <3>2. Cardinality({i}) = 1
      BY FS_Singleton
    <3> QED
      BY <2>1, <2>2, <3>1, <3>2
  <2>3. CASE c \notin S
    BY <1>5, <2>1, <2>3, FS_EmptySet
  <2> QED
    BY <2>2, <2>3
<1> QED
  BY <1>6, <1>7 DEF v

(* In every reachable state the walks along the two lists meet the cells   *)
(* that callers have, and the others; and destroy_backend, which walks     *)
(* both, frees each cell once.                                             *)
THEOREM ListsArePartition == Spec => []ListsPartitionCells
<1>1. TypeOK /\ PoolInv /\ ~destroyed
        => /\ UsedList = held /\ UnusedList = Unused
           /\ \A c \in Cells : Visits(used_head, c) + Visits(unused_head, c) = 1
  <2> SUFFICES ASSUME TypeOK, PoolInv, ~destroyed
               PROVE  /\ UsedList = held /\ UnusedList = Unused
                      /\ \A c \in Cells :
                            Visits(used_head, c) + Visits(unused_head, c) = 1
    OBVIOUS
  <2>1. held \in SUBSET Cells /\ Unused \in SUBSET Cells
    BY DEF TypeOK, Unused
  <2>2. IsChain(next, held, used_head) /\ IsChain(next, Unused, unused_head)
    BY DEF PoolInv, UsedChain, UnusedChain
  <2>3. UsedList = held /\ UnusedList = Unused
    <3>1. UsedList = Met(used_head) /\ UnusedList = Met(unused_head)
      BY DEF UsedList, UnusedList, Met
    <3>2. Met(used_head) = held
      BY <2>1, <2>2, WalkVisitsChain
    <3>3. Met(unused_head) = Unused
      BY <2>1, <2>2, WalkVisitsChain
    <3> QED
      BY <3>1, <3>2, <3>3
  <2>4. \A c \in Cells : /\ Visits(used_head, c) = IF c \in held THEN 1 ELSE 0
                         /\ Visits(unused_head, c) = IF c \in Unused THEN 1 ELSE 0
    BY <2>1, <2>2, WalkVisitsChain
  <2>5. \A c \in Cells : (c \in held) <=> (c \notin Unused)
    BY DEF Unused
  <2> QED
    BY <2>3, <2>4, <2>5
<1> DEFINE Freed == destroyed => \A c \in Cells : frees[c] = 1
<1>2. Init => Freed
  BY DEF Init
<1>3. TypeOK /\ PoolInv /\ Freed /\ [Next]_vars => Freed'
  <2> SUFFICES ASSUME TypeOK, PoolInv, Freed, [Next]_vars
               PROVE  Freed'
    OBVIOUS
  <2>1. CASE destroy_backend
    BY <1>1, <2>1 DEF destroy_backend
  <2>2. CASE UNCHANGED <<frees, destroyed>>
    BY <2>2
  <2> QED
    BY <2>1, <2>2
    DEF Next, touch_mem_cell, touch_mem_cell_fails, detouch_mem_cell, vars
<1>4. TypeOK /\ PoolInv /\ Freed => ListsPartitionCells
  BY <1>1 DEF ListsPartitionCells, Unused
<1> QED
  BY <1>2, <1>3, <1>4, TypeCorrect, ListsAreChains, PTL DEF Spec
=============================================================================
