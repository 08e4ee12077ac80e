----------------------- MODULE CtrlPlaneBackend_proofs -----------------------
(***************************************************************************)
(* Theorems about CtrlPlaneBackend, for every pool of cells, every set of  *)
(* lcores, every size of the queues and every number of messages.          *)
(***************************************************************************)
EXTENDS CtrlPlaneBackend, FiniteSetTheorems, SequenceTheorems, TLAPS

(* The places of the loops at which a thread holds a cell.                 *)
Holding == {"read", "add", "use", "detouch", "send"}

(* A thread has a cell exactly at those places.  This is what makes the    *)
(* dereferences of mem_cell safe, and TypeOK inductive: what is put into a *)
(* queue is a cell.                                                        *)
CellHeld == \A t \in Threads : (cell[t] # NULL) <=> (pc[t] \in Holding)

(* What is under way to the switch was sent.                               *)
SentBound == Len(to_switch) <= sent

TypeInv == TypeOK /\ CellHeld /\ SentBound

(* The service threads have different names.                               *)
LEMMA ThreadNames ==
  /\ {"receiver", "input", "output"} \subseteq Threads
  /\ Lcores \subseteq Threads
  /\ \A l \in Lcores : l \notin {"receiver", "input", "output"}
  /\ \A w \in Workers : w \in Threads /\ w \in {"input", "output"}
  BY BackendAssumption DEF Threads, Services, Workers

(* No thread has a cell when the backend starts.                           *)
LEMMA TypeInvInit == Init => TypeInv
<1> SUFFICES ASSUME Init
             PROVE  TypeInv
  OBVIOUS
<1>1. queue \in [Workers -> Seq(Cells)] /\ data \in [Cells -> Int]
  BY DEF Init
<1>2. cell \in [Threads -> Cells \union {NULL}]
  BY DEF Init
<1>3. \A t \in Threads : pc[t] \in {"idle", "none"} /\ cell[t] = NULL
  BY DEF Init
<1>4. pc \in [Threads -> {"none", "loop", "touch", "read", "add", "use",
                         "detouch", "idle", "send", "done"}]
  BY DEF Init
<1>5. TypeOK
  <2>1. launch \in Services \union {"connect", "returned"} /\ free \in SUBSET Cells
    BY DEF Init
  <2>2. /\ to_switch \in Seq(Int) /\ to_controller \in Seq(Int)
        /\ handled \in Seq(Int) /\ queued \in Seq(Int) /\ written \in Seq(Int)
    BY DEF Init
  <2> QED
    BY <1>1, <1>2, <1>4, <2>1, <2>2 DEF Init, TypeOK
<1> QED
  BY <1>3, <1>5 DEF Init, TypeInv, CellHeld, SentBound, Holding

-----------------------------------------------------------------------------
(* The steps of each thread keep TypeInv.                                  *)

(* launch_backend gives a thread its loop, and no cell.                    *)
LEMMA TypeInvLaunch == TypeInv /\ Launch => TypeInv'
<1> SUFFICES ASSUME TypeInv, Launch
             PROVE  TypeInv'
  OBVIOUS
<1> USE DEF TypeInv, TypeOK, CellHeld, SentBound, Holding, main, pool, network, history
<1>1. CASE launch_connects
  BY <1>1 DEF launch_connects, Services
<1>2. CASE launch_is_refused
  BY <1>2 DEF launch_is_refused
<1>3. CASE launch_dispatches
  BY <1>3, ThreadNames DEF launch_dispatches, Goto, Services, Workers
<1> QED
  BY <1>1, <1>2, <1>3 DEF Launch

(* backend_processor has a cell while it reads, fills and adds it.         *)
LEMMA TypeInvReceiver == TypeInv /\ Receiver => TypeInv'
<1> SUFFICES ASSUME TypeInv, Receiver
             PROVE  TypeInv'
  OBVIOUS
<1> USE ThreadNames DEF TypeInv, TypeOK, CellHeld, SentBound, Holding, Goto, Drop, main, pool,
                        network, history
<1>1. CASE receiver_selects
  BY <1>1 DEF receiver_selects
<1>2. CASE receiver_stops
  BY <1>2 DEF receiver_stops
<1>3. CASE receiver_touches
  BY <1>3, BackendAssumption DEF receiver_touches, Touch
<1>4. CASE receiver_reads
  <2>1. Head(to_switch) \in Int /\ Tail(to_switch) \in Seq(Int)
    BY <1>4, HeadTailProperties DEF receiver_reads
  <2> QED
    BY <1>4, <2>1 DEF receiver_reads
<1>5. CASE receiver_meets_eof
  BY <1>5 DEF receiver_meets_eof
<1>6. CASE receiver_meets_error
  BY <1>6 DEF receiver_meets_error
<1>7. CASE receiver_adds
  <2>1. cell["receiver"] \in Cells /\ queue["input"] \in Seq(Cells)
    BY <1>7 DEF receiver_adds, Workers
  <2>2. fifo_add_msg(queue["input"], cell["receiver"]) \in Seq(Cells)
    BY <2>1 DEF fifo_add_msg
  <2> QED
    BY <1>7, <2>2 DEF receiver_adds
<1> QED
  BY <1>1, <1>2, <1>3, <1>4, <1>5, <1>6, <1>7 DEF Receiver

(* A worker has a cell from fifo_remove_msg to detouch_mem_cell.           *)
LEMMA TypeInvWorker ==
  ASSUME NEW w \in Workers
  PROVE  TypeInv /\ Worker(w) => TypeInv'
<1> SUFFICES ASSUME TypeInv, Worker(w)
             PROVE  TypeInv'
  OBVIOUS
<1> USE ThreadNames DEF TypeInv, TypeOK, CellHeld, SentBound, Holding, Goto, main, pool,
                        network, history
<1>1. CASE worker_stops(w)
  <2>1. queue[w] # <<>> => Tail(queue[w]) \in Seq(Cells)
    BY HeadTailProperties
  <2> QED
    BY <1>1, <2>1 DEF worker_stops
<1>2. CASE worker_takes(w)
  <2>1. Head(queue[w]) \in Cells /\ Tail(queue[w]) \in Seq(Cells)
    BY <1>2, HeadTailProperties DEF worker_takes
  <2> QED
    BY <1>2, <2>1, BackendAssumption DEF worker_takes
<1>3. CASE worker_detouches(w)
  <2>1. cell[w] \in Cells
    BY <1>3 DEF worker_detouches
  <2> QED
    BY <1>3, <2>1 DEF worker_detouches
<1> QED
  BY <1>1, <1>2, <1>3 DEF Worker

(* The callback and write leave the cell where it is.                      *)
LEMMA TypeInvIO == TypeInv /\ (input_handles \/ output_writes) => TypeInv'
<1> SUFFICES ASSUME TypeInv, input_handles \/ output_writes
             PROVE  TypeInv'
  OBVIOUS
<1> USE ThreadNames DEF TypeInv, TypeOK, CellHeld, SentBound, Holding, Goto, main, pool,
                        network, history
<1>1. CASE input_handles
  <2>1. data[cell["input"]] \in Int
    BY <1>1 DEF input_handles
  <2> QED
    BY <1>1, <2>1 DEF input_handles
<1>2. CASE output_writes
  <2>1. data[cell["output"]] \in Int
    BY <1>2 DEF output_writes
  <2> QED
    BY <1>2, <2>1 DEF output_writes
<1> QED
  BY <1>1, <1>2

(* An lcore has a cell between create_digest and send_digest.              *)
LEMMA TypeInvLcore ==
  ASSUME NEW l \in Lcores
  PROVE  TypeInv /\ Lcore(l) => TypeInv'
<1> SUFFICES ASSUME TypeInv, Lcore(l)
             PROVE  TypeInv'
  OBVIOUS
<1> USE ThreadNames DEF TypeInv, TypeOK, CellHeld, SentBound, Holding, Goto, main, pool,
                        network, history
<1>1. CASE create_digest(l)
  BY <1>1, BackendAssumption DEF create_digest, Touch
<1>2. CASE send_digest(l)
  <2>1. cell[l] \in Cells /\ queue["output"] \in Seq(Cells)
    BY <1>2 DEF send_digest, Workers
  <2>2. fifo_add_msg(queue["output"], cell[l]) \in Seq(Cells)
    BY <2>1 DEF fifo_add_msg
  <2>3. data[cell[l]] \in Int
    BY <2>1
  <2>4. queue' \in [Workers -> Seq(Cells)]
    BY <1>2, <2>2 DEF send_digest
  <2>5. queued' \in Seq(Int)
    BY <1>2, <2>3 DEF send_digest
  <2> QED
    BY <1>2, <2>4, <2>5, BackendAssumption DEF send_digest, Drop
<1> QED
  BY <1>1, <1>2 DEF Lcore

(* Nobody else touches a cell.                                             *)
LEMMA TypeInvRest ==
  TypeInv /\ (Controller \/ stop_backend \/ dies \/ UNCHANGED vars) => TypeInv'
<1> SUFFICES ASSUME TypeInv,
                    Controller \/ stop_backend \/ dies \/ UNCHANGED vars
             PROVE  TypeInv'
  OBVIOUS
<1> USE BackendAssumption DEF TypeInv, TypeOK, CellHeld, SentBound, Holding, main, pool,
                              network, history
<1>1. CASE controller_sends
  BY <1>1 DEF controller_sends
<1>2. CASE controller_reads
  BY <1>2, HeadTailProperties DEF controller_reads
<1>3. CASE controller_disconnects
  <2>1. PICK n \in 0 .. Len(to_switch) :
          /\ to_switch' = SubSeq(to_switch, 1, n)
          /\ sent' = sent - (Len(to_switch) - n)
    BY <1>3 DEF controller_disconnects
  <2>2. to_switch' \in Seq(Int) /\ Len(to_switch') = n /\ n \in Nat
    BY <2>1
  <2>3. sent' \in Nat /\ Len(to_switch') <= sent'
    BY <2>1, <2>2
  <2> QED
    BY <1>3, <2>2, <2>3, SMTT(30) DEF controller_disconnects
<1>4. CASE stop_backend \/ dies \/ UNCHANGED vars
  BY <1>4 DEF stop_backend, dies, vars
<1> QED
  BY <1>1, <1>2, <1>3, <1>4 DEF Controller

(* The threads keep the types of what they share; in particular whatever   *)
(* is put into a queue is a cell, and no thread uses a cell it has not.    *)
THEOREM TypeCorrect == Spec => []TypeInv
<1>1. TypeInv /\ [Next]_vars => TypeInv'
  <2>1. "input" \in Workers /\ "output" \in Workers
    BY DEF Workers
  <2> QED
    BY <2>1, TypeInvLaunch, TypeInvReceiver, TypeInvWorker, TypeInvIO,
       TypeInvLcore, TypeInvRest
    DEF Next, Input, Output
<1> QED
  BY <1>1, TypeInvInit, PTL DEF Spec

COROLLARY TypesAreKept == Spec => []TypeOK
<1>1. TypeInv => TypeOK
  BY DEF TypeInv
<1> QED
  BY <1>1, TypeCorrect, PTL

-----------------------------------------------------------------------------
(* Every cell is in one place.                                             *)

Distinct(q) == \A i, j \in DOMAIN q : (q[i] = q[j]) => (i = j)

(* What a queue holds after fifo_add_msg.                                  *)
LEMMA CellsInAdd ==
  ASSUME NEW q \in Seq(Cells), NEW c \in Cells
  PROVE  /\ CellsIn(fifo_add_msg(q, c)) \subseteq CellsIn(q) \union {c}
         /\ Distinct(q) /\ c \notin CellsIn(q) => Distinct(fifo_add_msg(q, c))
<1>1. CASE full(q)
  BY <1>1 DEF fifo_add_msg
<1>2. CASE ~full(q)
  <2>1. fifo_add_msg(q, c) = Append(q, c)
    BY <1>2 DEF fifo_add_msg
  <2>2. /\ DOMAIN Append(q, c) = 1 .. Len(q) + 1 /\ DOMAIN q = 1 .. Len(q)
        /\ \A i \in 1 .. Len(q) : Append(q, c)[i] = q[i]
        /\ Append(q, c)[Len(q) + 1] = c
    OBVIOUS
  <2>3. \A i \in 1 .. Len(q) + 1 : i \in 1 .. Len(q) \/ i = Len(q) + 1
    OBVIOUS
  <2> QED
    BY <2>1, <2>2, <2>3 DEF CellsIn, Distinct
<1> QED
  BY <1>1, <1>2

(* What a queue without a cell twice holds after fifo_remove_msg.          *)
LEMMA CellsInTail ==
  ASSUME NEW q \in Seq(Cells), q # <<>>
  PROVE  /\ CellsIn(Tail(q)) \subseteq CellsIn(q)
         /\ Head(q) \in CellsIn(q)
         /\ Distinct(q) => Distinct(Tail(q)) /\ Head(q) \notin CellsIn(Tail(q))
<1>1. /\ Len(q) \in Nat \ {0} /\ DOMAIN q = 1 .. Len(q)
      /\ DOMAIN Tail(q) = 1 .. Len(q) - 1
      /\ \A i \in 1 .. Len(q) - 1 : Tail(q)[i] = q[i + 1]
      /\ Head(q) = q[1]
  BY HeadTailProperties, EmptySeq
<1>2. \A i \in 1 .. Len(q) - 1 : i + 1 \in 1 .. Len(q) /\ i + 1 # 1
  BY <1>1
<1>3. 1 \in 1 .. Len(q)
  BY <1>1
<1>4. \A i, j \in 1 .. Len(q) - 1 : (i + 1 = j + 1) => (i = j)
  BY <1>1
<1> QED
  BY <1>1, <1>2, <1>3, <1>4 DEF CellsIn, Distinct

(* The conjuncts of CellsAreExclusive.                                     *)
LEMMA ExclusiveParts ==
  CellsAreExclusive <=>
    /\ \A t \in Threads : cell[t] # NULL =>
         /\ cell[t] \notin free
         /\ \A w \in Workers : cell[t] \notin CellsIn(queue[w])
         /\ \A u \in Threads \ {t} : cell[u] # cell[t]
    /\ \A w \in Workers : CellsIn(queue[w]) \cap free = {} /\ Distinct(queue[w])
    /\ CellsIn(queue["input"]) \cap CellsIn(queue["output"]) = {}
  BY DEF CellsAreExclusive, Distinct

(* Thread t takes a cell from the pool.                                    *)
LEMMA ExclusiveTouch ==
  ASSUME TypeInv, CellsAreExclusive, NEW t \in Threads, NEW c \in free,
         cell' = [cell EXCEPT ![t] = c], free' = free \ {c}, queue' = queue
  PROVE  CellsAreExclusive'
  BY DEF TypeInv, TypeOK, CellsAreExclusive

(* Thread t forgets its cell.                                              *)
LEMMA ExclusiveDrop ==
  ASSUME TypeInv, CellsAreExclusive, NEW t \in Threads,
         cell' = [cell EXCEPT ![t] = NULL], UNCHANGED <<free, queue>>
  PROVE  CellsAreExclusive'
  BY DEF TypeInv, TypeOK, CellsAreExclusive

(* Thread t gives its cell back.                                           *)
LEMMA ExclusiveDetouch ==
  ASSUME TypeInv, CellsAreExclusive, NEW t \in Threads, cell[t] # NULL,
         cell' = [cell EXCEPT ![t] = NULL], free' = free \union {cell[t]},
         queue' = queue
  PROVE  CellsAreExclusive'
  BY DEF TypeInv, TypeOK, CellsAreExclusive

(* Thread t passes its cell to queue w.                                    *)
LEMMA ExclusiveAdd ==
  ASSUME TypeInv, CellsAreExclusive, NEW t \in Threads, cell[t] # NULL,
         NEW w \in Workers,
         queue' = [queue EXCEPT ![w] = fifo_add_msg(@, cell[t])],
         cell' = [cell EXCEPT ![t] = NULL], free' = free
  PROVE  CellsAreExclusive'
<1> DEFINE q == fifo_add_msg(queue[w], cell[t])
<1>1. /\ CellsIn(q) \subseteq CellsIn(queue[w]) \union {cell[t]}
      /\ Distinct(q)
  BY CellsInAdd, ExclusiveParts DEF TypeInv, TypeOK
<1>2. queue'[w] = q /\ \A v \in Workers \ {w} : queue'[v] = queue[v]
  BY DEF TypeInv, TypeOK
<1>3. cell'[t] = NULL /\ \A u \in Threads \ {t} : cell'[u] = cell[u]
  BY DEF TypeInv, TypeOK
<1> HIDE DEF q
<1>4. \A v \in Workers : CellsIn(queue'[v]) \subseteq CellsIn(queue[v]) \union {cell[t]}
  BY <1>1, <1>2
<1>5. \A v \in Workers : CellsIn(queue'[v]) \cap free' = {} /\ Distinct(queue'[v])
  BY <1>1, <1>2, <1>4, ExclusiveParts
<1>6. CellsIn(queue'["input"]) \cap CellsIn(queue'["output"]) = {}
  BY <1>1, <1>2, ExclusiveParts DEF Workers
<1>7. \A u \in Threads : cell'[u] # NULL =>
         /\ cell'[u] \notin free'
         /\ \A v \in Workers : cell'[u] \notin CellsIn(queue'[v])
         /\ \A y \in Threads \ {u} : cell'[y] # cell'[u]
  BY <1>3, <1>4, ExclusiveParts
<1> QED
  BY <1>5, <1>6, <1>7 DEF CellsAreExclusive, Distinct

(* Thread w takes the oldest cell of its queue.                            *)
LEMMA ExclusiveTake ==
  ASSUME TypeInv, CellsAreExclusive, NEW w \in Workers, queue[w] # <<>>,
         queue' = [queue EXCEPT ![w] = Tail(@)],
         cell' = [cell EXCEPT ![w] = Head(queue[w])] \/ cell' = cell,
         free' = free
  PROVE  CellsAreExclusive'
<1> DEFINE q == Tail(queue[w])
           c == Head(queue[w])
<1>1. /\ CellsIn(q) \subseteq CellsIn(queue[w]) /\ c \in CellsIn(queue[w])
      /\ Distinct(q) /\ c \notin CellsIn(q)
  BY CellsInTail, ExclusiveParts DEF TypeInv, TypeOK
<1>2. queue'[w] = q /\ \A v \in Workers \ {w} : queue'[v] = queue[v]
  BY DEF TypeInv, TypeOK
<1>3. \A u \in Threads : cell'[u] = cell[u] \/ (u = w /\ cell'[u] = c)
  BY ThreadNames DEF TypeInv, TypeOK
<1> HIDE DEF q, c
<1>4. \A v \in Workers : CellsIn(queue'[v]) \subseteq CellsIn(queue[v])
  BY <1>1, <1>2
<1>5. \A v \in Workers : CellsIn(queue'[v]) \cap free' = {} /\ Distinct(queue'[v])
  BY <1>1, <1>2, <1>4, ExclusiveParts
<1>6. CellsIn(queue'["input"]) \cap CellsIn(queue'["output"]) = {}
  BY <1>4, ExclusiveParts DEF Workers
<1>7. c \notin free /\ \A v \in Workers : c \notin CellsIn(queue'[v])
  <2>1. \A v \in Workers \ {w} : c \notin CellsIn(queue[v])
    BY <1>1, ExclusiveParts DEF Workers
  <2> QED
    BY <1>1, <1>2, <2>1, ExclusiveParts
<1>8. \A u \in Threads : cell[u] # c
  <2>1. c \in Cells
    BY HeadTailProperties DEF c, TypeInv, TypeOK
  <2> QED
    BY <1>1, <2>1, BackendAssumption, ExclusiveParts
<1>9. \A u \in Threads : cell'[u] # NULL =>
         /\ cell'[u] \notin free'
         /\ \A v \in Workers : cell'[u] \notin CellsIn(queue'[v])
         /\ \A y \in Threads \ {u} : cell'[y] # cell'[u]
  <2> SUFFICES ASSUME NEW u \in Threads, cell'[u] # NULL
               PROVE  /\ cell'[u] \notin free'
                      /\ \A v \in Workers : cell'[u] \notin CellsIn(queue'[v])
                      /\ \A y \in Threads \ {u} : cell'[y] # cell'[u]
    OBVIOUS
  <2>1. CASE u = w /\ cell'[u] = c
    <3>1. \A y \in Threads \ {u} : cell'[y] = cell[y]
      BY <1>3, <2>1
    <3> QED
      BY <1>7, <1>8, <2>1, <3>1
  <2>2. CASE cell'[u] = cell[u]
    <3>1. /\ cell[u] \notin free
          /\ \A v \in Workers : cell[u] \notin CellsIn(queue[v])
          /\ \A y \in Threads \ {u} : cell[y] # cell[u]
      BY <2>2, ExclusiveParts
    <3>2. \A y \in Threads \ {u} : cell'[y] # cell[u]
      BY <1>3, <1>8, <3>1
    <3> QED
      BY <1>4, <2>2, <3>1, <3>2
  <2> QED
    BY <1>3, <2>1, <2>2
<1> QED
  BY <1>5, <1>6, <1>9 DEF CellsAreExclusive, Distinct

(* No two threads, and no thread and the pool, ever share a cell: the      *)
(* buffers are handed over between threads without a lock.                 *)
THEOREM CellsStayExclusive == Spec => []CellsAreExclusive
<1>1. Init => CellsAreExclusive
  BY DEF Init, CellsAreExclusive, CellsIn, Workers
<1>2. TypeInv /\ CellsAreExclusive /\ [Next]_vars => CellsAreExclusive'
  <2> SUFFICES ASSUME TypeInv, CellsAreExclusive, [Next]_vars
               PROVE  CellsAreExclusive'
    OBVIOUS
  <2> USE ThreadNames DEF main, pool, network, history
  <2>1. ASSUME UNCHANGED <<cell, free, queue>>
        PROVE  CellsAreExclusive'
    BY <2>1 DEF CellsAreExclusive
  <2>2. CASE Launch
    BY <2>1, <2>2
    DEF Launch, launch_connects, launch_is_refused, launch_dispatches
  <2>3. CASE Receiver
    <3>1. CASE receiver_selects \/ receiver_stops \/ receiver_reads
      BY <2>1, <3>1 DEF receiver_selects, receiver_stops, receiver_reads
    <3>2. CASE receiver_touches
      BY <3>2, ExclusiveTouch DEF receiver_touches, Touch
    <3>3. CASE receiver_meets_eof \/ receiver_meets_error
      BY <3>3, ExclusiveDrop DEF receiver_meets_eof, receiver_meets_error, Drop
    <3>4. CASE receiver_adds
      <4>1. cell["receiver"] # NULL /\ "input" \in Workers
        BY <3>4 DEF receiver_adds, Goto, TypeInv, CellHeld, Holding, Workers
      <4> QED
        BY <3>4, <4>1, ExclusiveAdd DEF receiver_adds, Drop
    <3> QED
      BY <2>3, <3>1, <3>2, <3>3, <3>4 DEF Receiver
  <2>4. ASSUME NEW w \in Workers, Worker(w)
        PROVE  CellsAreExclusive'
    <3>1. CASE worker_stops(w)
      <4>1. CASE queue[w] = <<>>
        <5>1. queue' = queue
          BY <3>1, <4>1 DEF worker_stops, TypeInv, TypeOK
        <5> QED
          BY <2>1, <3>1, <5>1 DEF worker_stops
      <4>2. CASE queue[w] # <<>>
        <5>1. queue' = [queue EXCEPT ![w] = Tail(@)]
          BY <3>1, <4>2 DEF worker_stops
        <5> QED
          BY <3>1, <4>2, <5>1, ExclusiveTake DEF worker_stops
      <4> QED
        BY <4>1, <4>2
    <3>2. CASE worker_takes(w)
      BY <3>2, ExclusiveTake DEF worker_takes
    <3>3. CASE worker_detouches(w)
      <4>1. cell[w] # NULL
        BY <3>3 DEF worker_detouches, Goto, TypeInv, CellHeld, Holding
      <4> QED
        BY <3>3, <4>1, ExclusiveDetouch DEF worker_detouches
    <3> QED
      BY <2>4, <3>1, <3>2, <3>3 DEF Worker
  <2>5. CASE input_handles \/ output_writes
    BY <2>1, <2>5 DEF input_handles, output_writes
  <2>6. ASSUME NEW l \in Lcores, Lcore(l)
        PROVE  CellsAreExclusive'
    <3>1. CASE create_digest(l)
      BY <3>1, ExclusiveTouch DEF create_digest, Touch
    <3>2. CASE send_digest(l)
      <4>1. cell[l] # NULL /\ "output" \in Workers
        BY <3>2 DEF send_digest, Goto, TypeInv, CellHeld, Holding, Workers
      <4> QED
        BY <3>2, <4>1, ExclusiveAdd DEF send_digest, Drop
    <3> QED
      BY <2>6, <3>1, <3>2 DEF Lcore
  <2>7. CASE Controller \/ stop_backend \/ dies \/ UNCHANGED vars
    BY <2>1, <2>7
    DEF Controller, controller_sends, controller_reads, controller_disconnects,
        stop_backend, dies, vars
  <2>8. "input" \in Workers /\ "output" \in Workers
    BY DEF Workers
  <2> QED
    BY <2>2, <2>3, <2>4, <2>5, <2>6, <2>7, <2>8 DEF Next, Input, Output
<1> QED
  BY <1>1, <1>2, TypeCorrect, PTL DEF Spec

-----------------------------------------------------------------------------
(* No queue is ever full when a cell is put into it.                       *)

(* A queue without duplicates that lacks some cell is shorter than the     *)
(* pool is large.                                                          *)
LEMMA QueueIsShort ==
  ASSUME NEW q \in Seq(Cells), Distinct(q),
         NEW c \in Cells, c \notin CellsIn(q)
  PROVE  ~full(q)
<1> DEFINE n == Len(q)
           f == [i \in 1 .. n + 1 |-> IF i <= n THEN q[i] ELSE c]
<1>1. n \in Nat /\ DOMAIN q = 1 .. n /\ \A i \in 1 .. n : q[i] \in Cells
  OBVIOUS
<1>2. f \in [1 .. n + 1 -> Cells]
  BY <1>1
<1>3. \A i, j \in 1 .. n + 1 : (f[i] = f[j]) => (i = j)
  BY <1>1 DEF Distinct, CellsIn
<1>4. IsFiniteSet(1 .. n + 1) /\ Cardinality(1 .. n + 1) = n + 1
  BY <1>1, FS_Interval
<1>5. Cardinality(Cells) \in Nat
  BY BackendAssumption, FS_CardinalityType
<1> HIDE DEF f
<1>6. ~(Cardinality(Cells) < n + 1)
  BY <1>2, <1>3, <1>4, BackendAssumption, FS_PigeonHole
<1> QED
  BY <1>1, <1>5, <1>6, BackendAssumption DEF full

(* fifo_add_msg never finds a queue full, so backend_processor and the     *)
(* data plane may ignore that it can refuse.  This needs the pool to be no *)
(* larger than a queue: 1000 cells and 1024 slots in the source.           *)
THEOREM NothingIsDropped == Spec => []NothingDropped
<1>1. TypeInv /\ CellsAreExclusive => NothingDropped
  <2> SUFFICES ASSUME TypeInv, CellsAreExclusive
               PROVE  NothingDropped
    OBVIOUS
  <2>1. ASSUME NEW t \in Threads, NEW w \in Workers, pc[t] \in Holding
        PROVE  ~full(queue[w])
    <3>1. cell[t] \in Cells /\ queue[w] \in Seq(Cells)
      BY <2>1 DEF TypeInv, TypeOK, CellHeld
    <3>2. cell[t] \notin CellsIn(queue[w]) /\ Distinct(queue[w])
      BY <3>1, BackendAssumption, ExclusiveParts
    <3> QED
      BY <3>1, <3>2, QueueIsShort
  <2> QED
    BY <2>1, ThreadNames DEF NothingDropped, Holding, Workers
<1> QED
  BY <1>1, TypeCorrect, CellsStayExclusive, PTL

-----------------------------------------------------------------------------
(* No message is lost, doubled, reordered or overwritten.                  *)

(* The parts of stream between the callback and the connection.            *)
hand    == InHand("input", {"use"})
waiting == Contents(queue["input"])
got     == InHand("receiver", {"add"})

(* What is known of every reachable state when a step is looked at.        *)
Known == TypeInv /\ CellsAreExclusive /\ NothingDropped

(* A sequence is its head before its tail.                                 *)
LEMMA HeadAndTail ==
  ASSUME NEW S, NEW s \in Seq(S), s # <<>>
  PROVE  s = <<Head(s)>> \o Tail(s)
<1>1. Len(s) \in Nat \ {0} /\ 1 \in 1 .. Len(s) /\ Len(s) \in 1 .. Len(s)
  BY EmptySeq
<1>2. SubSeq(s, 1, Len(s)) = <<s[1]>> \o SubSeq(s, 1 + 1, Len(s))
  BY <1>1, SubSeqRecursiveFirst
<1> QED
  BY <1>1, <1>2, SubSeqFull, TailIsSubSeq

(* The contents of a queue are as long as the queue, and follow it.        *)
LEMMA ContentsAre ==
  ASSUME TypeInv, NEW q \in Seq(Cells)
  PROVE  /\ Contents(q) \in Seq(Int) /\ Len(Contents(q)) = Len(q)
         /\ \A i \in 1 .. Len(q) : Contents(q)[i] = data[q[i]]
<1>1. /\ Len(q) \in Nat /\ DOMAIN q = 1 .. Len(q)
      /\ \A i \in 1 .. Len(q) : q[i] \in Cells
  BY LenProperties
<1>2. Contents(q) = [i \in 1 .. Len(q) |-> data[q[i]]]
  BY <1>1 DEF Contents
<1>3. Contents(q) \in [1 .. Len(q) -> Int]
  BY <1>1, <1>2 DEF TypeInv, TypeOK
<1> QED
  BY <1>1, <1>2, <1>3

(* The contents of a queue start with the message in its oldest cell.      *)
LEMMA ContentsTail ==
  ASSUME TypeInv, NEW q \in Seq(Cells), q # <<>>
  PROVE  Contents(q) = <<data[Head(q)]>> \o Contents(Tail(q))
<1>1. /\ Head(q) \in Cells /\ Head(q) = q[1]
      /\ Tail(q) \in Seq(Cells) /\ Len(Tail(q)) = Len(q) - 1
      /\ \A i \in 1 .. Len(q) - 1 : Tail(q)[i] = q[i + 1]
      /\ Len(q) \in Nat \ {0}
  BY HeadTailProperties, EmptySeq
<1>2. /\ Contents(q) \in Seq(Int) /\ Len(Contents(q)) = Len(q)
      /\ \A i \in 1 .. Len(q) : Contents(q)[i] = data[q[i]]
  BY ContentsAre
<1>3. /\ Contents(Tail(q)) \in Seq(Int) /\ Len(Contents(Tail(q))) = Len(q) - 1
      /\ \A i \in 1 .. Len(q) - 1 : Contents(Tail(q))[i] = data[Tail(q)[i]]
  BY <1>1, ContentsAre
<1>4. Contents(q) # <<>> /\ Head(Contents(q)) = data[Head(q)]
  BY <1>1, <1>2, EmptySeq
<1>5. /\ Tail(Contents(q)) \in Seq(Int) /\ Len(Tail(Contents(q))) = Len(q) - 1
      /\ \A i \in 1 .. Len(q) - 1 : Tail(Contents(q))[i] = Contents(q)[i + 1]
  BY <1>2, <1>4, HeadTailProperties
<1>6. \A i \in 1 .. Len(q) - 1 : Tail(Contents(q))[i] = Contents(Tail(q))[i]
  <2> TAKE i \in 1 .. Len(q) - 1
  <2>1. i + 1 \in 1 .. Len(q)
    BY <1>1
  <2>2. Tail(Contents(q))[i] = data[q[i + 1]]
    BY <1>2, <1>5, <2>1
  <2>3. Contents(Tail(q))[i] = data[q[i + 1]]
    BY <1>1, <1>3
  <2> QED
    BY <2>2, <2>3
<1>7. Tail(Contents(q)) = Contents(Tail(q))
  BY <1>3, <1>5, <1>6, SeqEqual
<1> QED
  BY <1>2, <1>4, <1>7, HeadAndTail

(* The message of a cell that is queued is the last of the contents.       *)
LEMMA ContentsAppend ==
  ASSUME TypeInv, NEW q \in Seq(Cells), NEW c \in Cells
  PROVE  Contents(Append(q, c)) = Contents(q) \o <<data[c]>>
<1>1. /\ Append(q, c) \in Seq(Cells) /\ Len(Append(q, c)) = Len(q) + 1
      /\ \A i \in 1 .. Len(q) : Append(q, c)[i] = q[i]
      /\ Append(q, c)[Len(q) + 1] = c /\ Len(q) \in Nat
  BY AppendProperties, LenProperties
<1>2. /\ Contents(q) \in Seq(Int) /\ Len(Contents(q)) = Len(q)
      /\ \A i \in 1 .. Len(q) : Contents(q)[i] = data[q[i]]
  BY ContentsAre
<1>3. /\ Contents(Append(q, c)) \in Seq(Int)
      /\ Len(Contents(Append(q, c))) = Len(q) + 1
      /\ \A i \in 1 .. Len(q) + 1 : Contents(Append(q, c))[i] = data[Append(q, c)[i]]
  BY <1>1, ContentsAre
<1>4. data[c] \in Int
  BY DEF TypeInv, TypeOK
<1>5. /\ Append(Contents(q), data[c]) \in Seq(Int)
      /\ Len(Append(Contents(q), data[c])) = Len(q) + 1
      /\ \A i \in 1 .. Len(q) : Append(Contents(q), data[c])[i] = data[q[i]]
      /\ Append(Contents(q), data[c])[Len(q) + 1] = data[c]
  BY <1>2, <1>4, AppendProperties
<1>6. \A i \in 1 .. Len(q) + 1 :
        Contents(Append(q, c))[i] = Append(Contents(q), data[c])[i]
  <2> TAKE i \in 1 .. Len(q) + 1
  <2>1. i \in 1 .. Len(q) \/ i = Len(q) + 1
    BY <1>1
  <2> QED
    BY <1>1, <1>3, <1>5, <2>1
<1>7. Contents(Append(q, c)) = Append(Contents(q), data[c])
  BY <1>3, <1>5, <1>6, SeqEqual
<1> QED
  BY <1>2, <1>4, <1>7, AppendIsConcat

(* Contents of a queue whose cells are not written to.                     *)
LEMMA ContentsKept ==
  ASSUME TypeInv, NEW w \in Workers, queue'[w] = queue[w],
         NEW c, c \notin CellsIn(queue[w]), NEW m,
         data' = [data EXCEPT ![c] = m]
  PROVE  Contents(queue[w])' = Contents(queue[w])
<1>1. queue[w] \in Seq(Cells) /\ DOMAIN queue[w] = 1 .. Len(queue[w])
  BY LenProperties DEF TypeInv, TypeOK
<1>2. \A i \in DOMAIN queue[w] : queue[w][i] \in Cells /\ queue[w][i] # c
  BY <1>1 DEF CellsIn
<1>3. \A i \in DOMAIN queue[w] : data'[queue[w][i]] = data[queue[w][i]]
  BY <1>2 DEF TypeInv, TypeOK
<1> QED
  BY <1>3 DEF Contents

(* What output_processor has taken and not yet written, and what waits.    *)
writing == InHand("output", {"use"})
unsent  == Contents(queue["output"])

(* All the parts are sequences of numbers.                                 *)
LEMMA Parts ==
  ASSUME TypeInv
  PROVE  /\ hand \in Seq(Int) /\ got \in Seq(Int) /\ writing \in Seq(Int)
         /\ waiting \in Seq(Int) /\ unsent \in Seq(Int)
         /\ handled \in Seq(Int) /\ to_switch \in Seq(Int)
         /\ written \in Seq(Int) /\ queued \in Seq(Int) /\ sent \in Nat
<1>1. /\ pc["input"] = "use" => data[cell["input"]] \in Int
      /\ pc["output"] = "use" => data[cell["output"]] \in Int
      /\ pc["receiver"] = "add" => data[cell["receiver"]] \in Int
  BY ThreadNames DEF TypeInv, TypeOK, CellHeld, Holding
<1>2. hand \in Seq(Int) /\ got \in Seq(Int) /\ writing \in Seq(Int)
  BY <1>1 DEF hand, got, writing, InHand
<1>3. waiting \in Seq(Int) /\ unsent \in Seq(Int)
  BY ContentsAre DEF waiting, unsent, TypeInv, TypeOK, Workers
<1> QED
  BY <1>2, <1>3 DEF TypeInv, TypeOK

(* How the parts may be grouped.                                           *)
LEMMA Associative ==
  ASSUME NEW a \in Seq(Int), NEW b \in Seq(Int), NEW c \in Seq(Int)
  PROVE  a \o (b \o c) = (a \o b) \o c
<1> DEFINE l == a \o (b \o c)
           r == (a \o b) \o c
<1>1. /\ l \in Seq(Int) /\ r \in Seq(Int)
      /\ Len(l) = Len(r) /\ \A i \in 1 .. Len(l) : l[i] = r[i]
  <2>1. Len(a) \in Nat /\ Len(b) \in Nat /\ Len(c) \in Nat
    BY LenProperties
  <2>2. /\ a \o b \in Seq(Int) /\ b \o c \in Seq(Int)
        /\ Len(a \o b) = Len(a) + Len(b) /\ Len(b \o c) = Len(b) + Len(c)
    BY ConcatProperties
  <2> QED
    BY <2>1, <2>2, ConcatProperties
<1> HIDE DEF l, r
<1>2. l = r
  BY <1>1, SeqEqual
<1> QED
  BY <1>2 DEF l, r

(* A message that moves from the head of one part to the end of the one    *)
(* before it leaves the two of them the same sequence.                     *)
LEMMA Shift ==
  ASSUME NEW p \in Seq(Int), NEW q \in Seq(Int), NEW x \in Seq(Int)
  PROVE  /\ (p \o <<>>) \o (x \o q) = (p \o x) \o q
         /\ (p \o (q \o x)) \o <<>> = (p \o q) \o x
         /\ p \o q \in Seq(Int) /\ p \o <<>> = p
         /\ p \o (q \o x) = (p \o q) \o x
<1>1. p \o q \in Seq(Int) /\ q \o x \in Seq(Int) /\ p \o (q \o x) \in Seq(Int)
  BY ConcatProperties
<1>2. p \o <<>> = p
  BY ConcatEmptySeq
<1>3. (p \o (q \o x)) \o <<>> = p \o (q \o x)
  BY <1>1, ConcatEmptySeq
<1>4. p \o (q \o x) = (p \o q) \o x
  BY Associative
<1>5. p \o (x \o q) = (p \o x) \o q
  BY Associative
<1> QED
  BY <1>1, <1>2, <1>3, <1>4, <1>5

(* The two halves of StreamsKept.                                          *)
Numbered(s, n) == Len(s) = n /\ \A i \in 1 .. n : s[i] = i

(* StreamsKept, said with the names of the parts.                          *)
LEMMA StreamParts ==
  StreamsKept <=> (~shutdown => /\ Numbered(stream, sent)
                                /\ queued = (written \o writing) \o unsent)
  BY DEF StreamsKept, Numbered, writing, unsent

(* The stream is one sequence, and the newest message is last.             *)
LEMMA StreamSends ==
  ASSUME NEW p \in Seq(Int), NEW e \in Seq(Int), NEW n \in Nat,
         Numbered(p \o e, n)
  PROVE  /\ Numbered(p \o Append(e, n + 1), n + 1)
         /\ \A m \in 0 .. Len(e) : Numbered(p \o SubSeq(e, 1, m), n - (Len(e) - m))
<1>1. /\ Len(p) \in Nat /\ Len(e) \in Nat /\ n = Len(p) + Len(e)
      /\ \A i \in 1 .. n : i = IF i <= Len(p) THEN p[i] ELSE e[i - Len(p)]
  BY ConcatProperties, LenProperties DEF Numbered
<1>2. ASSUME NEW r \in Seq(Int), NEW k \in Nat, Len(r) = k,
             \A j \in 1 .. k : r[j] = Len(p) + j
      PROVE  Numbered(p \o r, Len(p) + k)
  <2>1. /\ Len(p \o r) = Len(p) + k
        /\ \A i \in 1 .. Len(p) + k :
             (p \o r)[i] = IF i <= Len(p) THEN p[i] ELSE r[i - Len(p)]
    BY <1>2, ConcatProperties
  <2>2. ASSUME NEW i \in 1 .. Len(p) + k
        PROVE  (p \o r)[i] = i
    <3>1. CASE i <= Len(p)
      BY <1>1, <2>1, <3>1
    <3>2. CASE ~(i <= Len(p))
      <4>1. i - Len(p) \in 1 .. k /\ Len(p) + (i - Len(p)) = i
        BY <1>1, <3>2
      <4> QED
        BY <1>2, <2>1, <3>2, <4>1
    <3> QED
      BY <3>1, <3>2
  <2> QED
    BY <2>1, <2>2 DEF Numbered
<1>3. ASSUME NEW j \in 1 .. Len(e)
      PROVE  e[j] = Len(p) + j
  <2>1. Len(p) + j \in 1 .. n /\ ~(Len(p) + j <= Len(p)) /\ (Len(p) + j) - Len(p) = j
    BY <1>1
  <2> QED
    BY <1>1, <2>1
<1>4. Numbered(p \o Append(e, n + 1), n + 1)
  <2>1. /\ Append(e, n + 1) \in Seq(Int) /\ Len(Append(e, n + 1)) = Len(e) + 1
        /\ \A j \in 1 .. Len(e) : Append(e, n + 1)[j] = e[j]
        /\ Append(e, n + 1)[Len(e) + 1] = n + 1
    BY AppendProperties
  <2>2. \A j \in 1 .. Len(e) + 1 : Append(e, n + 1)[j] = Len(p) + j
    <3> TAKE j \in 1 .. Len(e) + 1
    <3>1. CASE j \in 1 .. Len(e)
      BY <1>3, <2>1, <3>1
    <3>2. CASE j = Len(e) + 1
      BY <1>1, <2>1, <3>2
    <3> QED
      BY <1>1, <3>1, <3>2
  <2>3. Len(e) + 1 \in Nat /\ Len(p) + (Len(e) + 1) = n + 1
    BY <1>1
  <2> QED
    BY <1>2, <2>1, <2>2, <2>3
<1>5. ASSUME NEW m \in 0 .. Len(e)
      PROVE  Numbered(p \o SubSeq(e, 1, m), n - (Len(e) - m))
  <2>1. m \in Nat /\ n - (Len(e) - m) = Len(p) + m /\ 1 \in Int /\ m \in Int
    BY <1>1
  <2>2. \A j \in 1 .. m : j \in 1 .. Len(e) /\ e[j] \in Int
    BY <1>1, ElementOfSeq
  <2>3. /\ SubSeq(e, 1, m) \in Seq(Int) /\ Len(SubSeq(e, 1, m)) = m
        /\ \A j \in 1 .. m : SubSeq(e, 1, m)[j] = e[j]
    BY <1>1, <2>1, <2>2, SubSeqProperties
  <2>4. \A j \in 1 .. m : SubSeq(e, 1, m)[j] = Len(p) + j
    BY <1>3, <2>2, <2>3
  <2> QED
    BY <1>2, <2>1, <2>3, <2>4
<1> QED
  BY <1>4, <1>5

(* Steps that touch neither the parts nor what they are compared with.     *)
LEMMA StreamQuiet ==
  ASSUME StreamsKept, shutdown' = shutdown,
         UNCHANGED <<hand, waiting, got, writing, unsent>>,
         UNCHANGED <<handled, to_switch, sent, queued, written>>
  PROVE  StreamsKept'
<1>1. stream' = stream
  BY DEF stream, hand, waiting, got
<1> QED
  BY <1>1, StreamParts DEF StreamsKept, writing, unsent

(* What a thread that keeps its place and its cell has in hand stays.      *)
LEMMA InHandKept ==
  ASSUME UNCHANGED data, NEW t, NEW places,
         \/ UNCHANGED <<pc[t], cell[t]>>
         \/ pc[t] \notin places /\ pc'[t] \notin places
  PROVE  InHand(t, places)' = InHand(t, places)
  BY DEF InHand

(* A thread that is started has no message yet.                            *)
LEMMA StreamLaunch ==
  ASSUME Known, StreamsKept, Launch
  PROVE  StreamsKept'
<1> USE DEF main, pool, network, history
<1>1. UNCHANGED <<shutdown, cell, data, queue, handled, to_switch, sent, queued,
                  written>>
  BY DEF Launch, launch_connects, launch_is_refused, launch_dispatches
<1>2. \A t \in Services : pc'[t] = pc[t] \/ (pc[t] = "none" /\ pc'[t] = "loop")
  BY ThreadNames DEF Launch, launch_connects, launch_is_refused, Services,
     launch_dispatches, Goto, Known, TypeInv, TypeOK, Threads
<1>3. hand' = hand /\ got' = got /\ writing' = writing
  BY <1>1, <1>2, InHandKept DEF hand, got, writing, Services, Workers
<1>4. waiting' = waiting /\ unsent' = unsent
  BY <1>1 DEF waiting, unsent, Contents
<1> QED
  BY <1>1, <1>3, <1>4, StreamQuiet

(* backend_processor moves a message from the connection into its cell,    *)
(* and its cell to the end of input_queue.                                 *)
LEMMA StreamReceiver ==
  ASSUME Known, StreamsKept, Receiver
  PROVE  StreamsKept'
<1> USE DEF main, pool, network, history
<1>0. TypeInv /\ CellsAreExclusive /\ NothingDropped
  BY DEF Known
<1>1. /\ pc["input"]' = pc["input"] /\ cell["input"]' = cell["input"]
      /\ pc["output"]' = pc["output"] /\ cell["output"]' = cell["output"]
      /\ UNCHANGED <<shutdown, handled, sent, queued, written>>
      /\ queue["output"]' = queue["output"]
  BY <1>0, ThreadNames
  DEF Receiver, receiver_selects, receiver_stops, receiver_touches,
      receiver_reads, receiver_meets_eof, receiver_meets_error, receiver_adds,
      Goto, Drop, Touch, TypeInv, TypeOK, Workers
<1>2. CASE receiver_stops
  BY <1>1, <1>2 DEF receiver_stops, StreamsKept
<1>3. CASE \/ receiver_selects \/ receiver_touches
           \/ receiver_meets_eof \/ receiver_meets_error
  <2>1. UNCHANGED <<data, queue, to_switch>>
    BY <1>3 DEF receiver_selects, receiver_touches, receiver_meets_eof,
       receiver_meets_error, Drop, Touch
  <2>2. pc["receiver"] # "add" /\ pc'["receiver"] # "add"
    BY <1>0, <1>3, ThreadNames
    DEF receiver_selects, receiver_touches, receiver_meets_eof,
        receiver_meets_error, Goto, TypeInv, TypeOK
  <2>3. hand' = hand /\ got' = got /\ writing' = writing
    BY <1>1, <2>1, <2>2, InHandKept DEF hand, got, writing
  <2>4. waiting' = waiting /\ unsent' = unsent
    BY <2>1 DEF waiting, unsent, Contents
  <2> QED
    BY <1>1, <2>1, <2>3, <2>4, StreamQuiet
<1>4. CASE receiver_reads
  <2> DEFINE c == cell["receiver"]
             m == Head(to_switch)
  <2>1. /\ data' = [data EXCEPT ![c] = m] /\ to_switch # <<>>
        /\ to_switch' = Tail(to_switch) /\ UNCHANGED <<queue, cell>>
        /\ pc["receiver"] = "read" /\ pc'["receiver"] = "add"
    BY <1>0, <1>4, ThreadNames DEF receiver_reads, Goto, TypeInv, TypeOK
  <2>2. c \in Cells /\ c # NULL
    BY <1>0, <2>1, ThreadNames DEF TypeInv, TypeOK, CellHeld, Holding
  <2>3. /\ c # cell["input"] /\ c # cell["output"]
        /\ c \notin CellsIn(queue["input"]) /\ c \notin CellsIn(queue["output"])
    BY <1>0, <2>2, ThreadNames DEF CellsAreExclusive, Workers
  <2>4. waiting' = waiting /\ unsent' = unsent
    BY <1>0, <2>1, <2>3, ContentsKept DEF waiting, unsent, Workers
  <2>5. hand' = hand /\ writing' = writing
    <3>1. /\ data'[cell["input"]] = data[cell["input"]] \/ pc["input"] # "use"
          /\ data'[cell["output"]] = data[cell["output"]] \/ pc["output"] # "use"
      BY <1>0, <2>1, <2>3, ThreadNames DEF TypeInv, TypeOK, CellHeld, Holding
    <3> QED
      BY <1>1, <3>1 DEF hand, writing, InHand
  <2>6. got = <<>> /\ got' = <<m>>
    BY <1>0, <2>1, <2>2 DEF got, InHand, TypeInv, TypeOK
  <2>7. to_switch \in Seq(Int) /\ <<m>> \in Seq(Int) /\ to_switch' \in Seq(Int)
        /\ to_switch = <<m>> \o to_switch'
    <3>1. to_switch \in Seq(Int)
      BY <1>0 DEF TypeInv, TypeOK
    <3>2. m \in Int /\ Tail(to_switch) \in Seq(Int)
      BY <2>1, <3>1, HeadTailProperties
    <3> QED
      BY <2>1, <3>1, <3>2, HeadAndTail
  <2> HIDE DEF c, m
  <2>8. stream' = stream
    <3> DEFINE p == (handled \o hand) \o waiting
    <3>1. p \in Seq(Int)
      BY <1>0, Parts, Shift
    <3>2. stream = (p \o got) \o to_switch
      BY DEF stream, hand, waiting, got
    <3>3. stream' = (p \o got') \o to_switch'
      BY <1>1, <2>4, <2>5 DEF stream, hand, waiting, got
    <3> HIDE DEF p
    <3> QED
      BY <2>6, <2>7, <3>1, <3>2, <3>3, Shift
  <2> QED
    BY <1>1, <2>4, <2>5, <2>8, StreamParts DEF StreamsKept, writing, unsent
<1>5. CASE receiver_adds
  <2> DEFINE c == cell["receiver"]
             m == data[c]
  <2>1. /\ queue' = [queue EXCEPT !["input"] = fifo_add_msg(@, c)]
        /\ UNCHANGED <<data, to_switch>>
        /\ pc["receiver"] = "add" /\ pc'["receiver"] = "loop"
    BY <1>0, <1>5, ThreadNames DEF receiver_adds, Goto, Drop, TypeInv, TypeOK
  <2>2. c \in Cells /\ m \in Int /\ queue["input"] \in Seq(Cells)
    BY <1>0, <2>1, ThreadNames DEF TypeInv, TypeOK, CellHeld, Holding, Workers
  <2>3. queue'["input"] = Append(queue["input"], c)
    BY <1>0, <2>1 DEF NothingDropped, fifo_add_msg, TypeInv, TypeOK, Workers
  <2>4. waiting' = waiting \o <<m>>
    <3>1. Contents(queue["input"])' = Contents(queue'["input"])
      BY <2>1 DEF Contents
    <3> QED
      BY <1>0, <2>2, <2>3, <3>1, ContentsAppend DEF waiting
  <2>5. hand' = hand /\ writing' = writing
    BY <1>1, <2>1, InHandKept DEF hand, writing
  <2>6. unsent' = unsent
    BY <1>1, <2>1 DEF unsent, Contents
  <2>7. got = <<m>> /\ got' = <<>> /\ <<m>> \in Seq(Int)
    BY <2>1, <2>2 DEF got, InHand
  <2> HIDE DEF c, m
  <2>8. stream' = stream
    <3> DEFINE p == handled \o hand
    <3>1. p \in Seq(Int) /\ waiting \in Seq(Int)
      BY <1>0, Parts, Shift
    <3>2. stream = ((p \o waiting) \o got) \o to_switch
      BY DEF stream, hand, waiting, got
    <3>3. stream' = ((p \o waiting') \o got') \o to_switch'
      BY <1>1, <2>5 DEF stream, hand, waiting, got
    <3> HIDE DEF p
    <3>4. (p \o (waiting \o <<m>>)) \o <<>> = (p \o waiting) \o <<m>>
      BY <2>7, <3>1, Shift
    <3> QED
      BY <2>1, <2>4, <2>7, <3>2, <3>3, <3>4
  <2> QED
    BY <1>1, <2>5, <2>6, <2>8, StreamParts DEF StreamsKept, writing, unsent
<1> QED
  BY <1>2, <1>3, <1>4, <1>5 DEF Receiver

(* A worker moves the oldest message of its queue into its hand.           *)
LEMMA StreamTakes ==
  ASSUME Known, StreamsKept, NEW w \in Workers, worker_takes(w)
  PROVE  StreamsKept'
<1> USE DEF main, pool, network, history
<1>0. TypeInv
  BY DEF Known
<1> DEFINE q == queue[w]
           m == data[Head(q)]
<1>1. /\ q # <<>> /\ q \in Seq(Cells)
      /\ queue' = [queue EXCEPT ![w] = Tail(q)]
      /\ cell' = [cell EXCEPT ![w] = Head(q)]
      /\ pc[w] = "loop" /\ pc' = [pc EXCEPT ![w] = "use"]
      /\ UNCHANGED <<data, shutdown, handled, to_switch, sent, queued, written>>
  BY <1>0 DEF worker_takes, Goto, TypeInv, TypeOK
<1>2. /\ \A t \in Threads \ {w} : pc'[t] = pc[t] /\ cell'[t] = cell[t]
      /\ pc'[w] = "use" /\ cell'[w] = Head(q)
      /\ \A v \in Workers \ {w} : queue'[v] = queue[v]
      /\ queue'[w] = Tail(q)
  BY <1>0, <1>1, ThreadNames DEF TypeInv, TypeOK
<1>3. got' = got
  BY <1>1, <1>2, InHandKept, ThreadNames DEF got, Workers
<1>4. /\ Head(q) \in Cells /\ Tail(q) \in Seq(Cells) /\ m \in Int
  BY <1>0, <1>1, HeadTailProperties DEF TypeInv, TypeOK
<1>5. /\ InHand(w, {"use"}) = <<>> /\ InHand(w, {"use"})' = <<m>>
      /\ <<m>> \in Seq(Int)
  BY <1>1, <1>2, <1>4 DEF InHand
<1>6. /\ Contents(q) = <<m>> \o Contents(Tail(q))
      /\ Contents(Tail(q)) \in Seq(Int) /\ Contents(queue[w])' = Contents(Tail(q))
  <2>1. Contents(queue[w])' = Contents(Tail(q))
    <3>1. Contents(queue[w])' = Contents(queue'[w])
      BY <1>1 DEF Contents
    <3> QED
      BY <1>2, <3>1
  <2> QED
    BY <1>0, <1>1, <1>4, <2>1, ContentsTail, ContentsAre
<1> HIDE DEF q, m
<1>7. CASE w = "input"
  <2>1. hand = <<>> /\ hand' = <<m>> /\ waiting = <<m>> \o waiting'
        /\ waiting' \in Seq(Int)
    BY <1>5, <1>6, <1>7 DEF hand, waiting, q
  <2>2. writing' = writing /\ unsent' = unsent
    <3>1. writing' = writing
      BY <1>1, <1>2, <1>7, InHandKept, ThreadNames DEF writing, Workers
    <3>2. unsent' = unsent
      BY <1>1, <1>2, <1>7 DEF unsent, Contents, Workers
    <3> QED
      BY <3>1, <3>2
  <2>3. stream' = stream
    <3>1. (handled \o hand) \o waiting = (handled \o hand') \o waiting'
      <4>1. handled \in Seq(Int) /\ <<m>> \in Seq(Int) /\ waiting' \in Seq(Int)
        BY <1>0, <1>5, <2>1, Parts
      <4>2. (handled \o <<>>) \o (<<m>> \o waiting') = (handled \o <<m>>) \o waiting'
        BY ONLY <4>1, Shift, SMTT(30)
      <4> QED
        BY <2>1, <4>2
    <3>2. stream = (((handled \o hand) \o waiting) \o got) \o to_switch
      BY DEF stream, hand, waiting, got
    <3>3. stream' = (((handled \o hand') \o waiting') \o got) \o to_switch
      BY <1>1, <1>3 DEF stream, hand, waiting, got
    <3> QED
      BY <3>1, <3>2, <3>3
  <2> QED
    BY <1>1, <2>2, <2>3, StreamParts DEF StreamsKept, writing, unsent
<1>8. CASE w = "output"
  <2>1. writing = <<>> /\ writing' = <<m>> /\ unsent = <<m>> \o unsent'
        /\ unsent' \in Seq(Int)
    BY <1>5, <1>6, <1>8 DEF writing, unsent, q
  <2>2. hand' = hand /\ waiting' = waiting
    <3>1. hand' = hand
      BY <1>1, <1>2, <1>8, InHandKept, ThreadNames DEF hand, Workers
    <3>2. waiting' = waiting
      BY <1>1, <1>2, <1>8 DEF waiting, Contents, Workers
    <3> QED
      BY <3>1, <3>2
  <2>3. (written \o writing) \o unsent = (written \o writing') \o unsent'
    <3>1. written \in Seq(Int) /\ <<m>> \in Seq(Int) /\ unsent' \in Seq(Int)
      BY <1>0, <1>5, <2>1, Parts
    <3>2. (written \o <<>>) \o (<<m>> \o unsent') = (written \o <<m>>) \o unsent'
      BY ONLY <3>1, Shift, SMTT(30)
    <3> QED
      BY <2>1, <3>2
  <2>4. stream' = stream
    BY <1>1, <1>3, <2>2 DEF stream, hand, waiting, got
  <2> QED
    BY <1>1, <2>3, <2>4, StreamParts DEF StreamsKept, writing, unsent
<1> QED
  BY <1>7, <1>8 DEF Workers

(* The cell a worker gives back holds a message it is done with.           *)
LEMMA StreamWorker ==
  ASSUME Known, StreamsKept, NEW w \in Workers, Worker(w)
  PROVE  StreamsKept'
<1> USE DEF main, pool, network, history
<1>0. TypeInv
  BY DEF Known
<1>1. CASE worker_stops(w)
  BY <1>1 DEF worker_stops, StreamsKept
<1>2. CASE worker_detouches(w)
  <2>1. /\ pc[w] = "detouch" /\ pc'[w] = "loop"
        /\ \A t \in Threads \ {w} : pc'[t] = pc[t] /\ cell'[t] = cell[t]
        /\ UNCHANGED <<data, queue, shutdown, handled, to_switch, sent, queued,
                       written>>
    BY <1>0, <1>2, ThreadNames DEF worker_detouches, Goto, TypeInv, TypeOK
  <2>2. hand' = hand /\ got' = got /\ writing' = writing
    BY <2>1, InHandKept, ThreadNames DEF hand, got, writing, Workers
  <2>3. waiting' = waiting /\ unsent' = unsent
    BY <2>1 DEF waiting, unsent, Contents
  <2> QED
    BY <2>1, <2>2, <2>3, StreamQuiet
<1> QED
  BY <1>1, <1>2, StreamTakes DEF Worker

(* The message in hand is the next one handled, or written.                *)
LEMMA StreamIO ==
  ASSUME Known, StreamsKept, input_handles \/ output_writes
  PROVE  StreamsKept'
<1> USE DEF main, pool, network, history
<1>0. TypeInv
  BY DEF Known
<1>1. CASE input_handles
  <2> DEFINE m == data[cell["input"]]
  <2>1. /\ pc["input"] = "use" /\ pc'["input"] = "detouch"
        /\ \A t \in Threads \ {"input"} : pc'[t] = pc[t]
        /\ UNCHANGED <<cell, data, queue, shutdown, to_switch, sent, queued, written>>
        /\ handled' = Append(handled, m) /\ m \in Int
    BY <1>0, <1>1, ThreadNames
    DEF input_handles, Goto, TypeInv, TypeOK, CellHeld, Holding
  <2>2. got' = got /\ writing' = writing
    BY <2>1, InHandKept, ThreadNames DEF got, writing
  <2>3. waiting' = waiting /\ unsent' = unsent
    BY <2>1 DEF waiting, unsent, Contents
  <2>4. hand = <<m>> /\ hand' = <<>> /\ <<m>> \in Seq(Int)
    BY <2>1 DEF hand, InHand
  <2>5. handled' \o hand' = handled \o hand
    <3>1. handled \in Seq(Int)
      BY <1>0, Parts
    <3>2. handled' = handled \o <<m>> /\ handled' \in Seq(Int)
      BY <2>1, <3>1, AppendIsConcat, AppendProperties
    <3> QED
      BY <2>4, <3>2, ConcatEmptySeq
  <2>6. stream' = stream
    BY <2>1, <2>2, <2>3, <2>5 DEF stream, hand, waiting, got
  <2> QED
    BY <2>1, <2>2, <2>3, <2>6, StreamParts DEF StreamsKept, writing, unsent
<1>2. CASE output_writes
  <2> DEFINE m == data[cell["output"]]
  <2>1. /\ pc["output"] = "use" /\ pc'["output"] = "detouch"
        /\ \A t \in Threads \ {"output"} : pc'[t] = pc[t]
        /\ UNCHANGED <<cell, data, queue, shutdown, to_switch, sent, queued, handled>>
        /\ written' = Append(written, m) /\ m \in Int
    BY <1>0, <1>2, ThreadNames
    DEF output_writes, Goto, TypeInv, TypeOK, CellHeld, Holding
  <2>2. got' = got /\ hand' = hand
    BY <2>1, InHandKept, ThreadNames DEF got, hand
  <2>3. waiting' = waiting /\ unsent' = unsent
    BY <2>1 DEF waiting, unsent, Contents
  <2>4. writing = <<m>> /\ writing' = <<>> /\ <<m>> \in Seq(Int)
    BY <2>1 DEF writing, InHand
  <2>5. written' \o writing' = written \o writing
    <3>1. written \in Seq(Int)
      BY <1>0, Parts
    <3>2. written' = written \o <<m>> /\ written' \in Seq(Int)
      BY <2>1, <3>1, AppendIsConcat, AppendProperties
    <3> QED
      BY <2>4, <3>2, ConcatEmptySeq
  <2>6. stream' = stream
    BY <2>1, <2>2, <2>3 DEF stream, hand, waiting, got
  <2> QED
    BY <2>1, <2>3, <2>5, <2>6, StreamParts DEF StreamsKept, writing, unsent
<1> QED
  BY <1>1, <1>2

(* A digest is created in a free cell, and becomes the newest of those     *)
(* queued when send_digest has put its cell into the queue.                *)
LEMMA StreamLcore ==
  ASSUME Known, StreamsKept, NEW l \in Lcores, Lcore(l)
  PROVE  StreamsKept'
<1> USE DEF main, pool, network, history
<1>0. TypeInv /\ CellsAreExclusive /\ NothingDropped /\ l \in Threads
      /\ l \notin {"receiver", "input", "output"}
  BY ThreadNames DEF Known
<1>1. /\ \A t \in {"receiver", "input", "output"} : pc'[t] = pc[t] /\ cell'[t] = cell[t]
      /\ UNCHANGED <<shutdown, handled, to_switch, sent, written>>
      /\ queue'["input"] = queue["input"]
  BY <1>0, ThreadNames
  DEF Lcore, create_digest, send_digest, Goto, Touch, Drop, TypeInv, TypeOK, Workers
<1>2. CASE create_digest(l)
  <2>1. PICK c \in free : data' = [data EXCEPT ![c] = -created']
    BY <1>2 DEF create_digest
  <2>2. c \in Cells /\ UNCHANGED <<queue, queued>>
    BY <1>0, <1>2, <2>1 DEF create_digest, TypeInv, TypeOK
  <2>3. /\ \A t \in Threads : cell[t] # NULL => c # cell[t]
        /\ \A w \in Workers : c \notin CellsIn(queue[w])
    BY <1>0, <2>1 DEF CellsAreExclusive
  <2>4. waiting' = waiting /\ unsent' = unsent
    BY <1>0, <2>1, <2>2, <2>3, ContentsKept DEF waiting, unsent, Workers
  <2>5. hand' = hand /\ got' = got /\ writing' = writing
    <3>1. ASSUME NEW t \in {"receiver", "input", "output"}, NEW places,
                 places \subseteq Holding
          PROVE  InHand(t, places)' = InHand(t, places)
      <4>1. pc[t] \in places => /\ cell[t] \in Cells /\ c # cell[t]
        BY <1>0, <2>3, <3>1, ThreadNames DEF TypeInv, TypeOK, CellHeld
      <4>2. pc[t] \in places => data'[cell'[t]] = data[cell[t]]
        BY <1>0, <1>1, <2>1, <4>1 DEF TypeInv, TypeOK
      <4> QED
        BY <1>1, <4>2 DEF InHand
    <3> QED
      BY <3>1 DEF hand, got, writing, Holding
  <2> QED
    BY <1>1, <2>2, <2>4, <2>5, StreamQuiet
<1>3. CASE send_digest(l)
  <2> DEFINE c == cell[l]
             m == data[c]
  <2>1. /\ queue' = [queue EXCEPT !["output"] = fifo_add_msg(@, c)]
        /\ queued' = Append(queued, m) /\ UNCHANGED data /\ pc[l] = "send"
    BY <1>3 DEF send_digest, Drop, Goto
  <2>2. c \in Cells /\ m \in Int /\ queue["output"] \in Seq(Cells)
    BY <1>0, <2>1 DEF TypeInv, TypeOK, CellHeld, Holding, Workers
  <2>3. queue'["output"] = Append(queue["output"], c)
    BY <1>0, <2>1 DEF NothingDropped, fifo_add_msg, TypeInv, TypeOK, Workers
  <2>4. unsent' = unsent \o <<m>>
    <3>1. Contents(queue["output"])' = Contents(queue'["output"])
      BY <2>1 DEF Contents
    <3> QED
      BY <1>0, <2>2, <2>3, <3>1, ContentsAppend DEF unsent
  <2>5. waiting' = waiting
    BY <1>1, <2>1 DEF waiting, Contents
  <2>6. hand' = hand /\ got' = got /\ writing' = writing
    BY <1>1, <2>1, InHandKept DEF hand, got, writing
  <2> HIDE DEF c, m
  <2>7. stream' = stream
    BY <1>1, <2>5, <2>6 DEF stream, hand, waiting, got
  <2>8. ~shutdown => queued' = (written \o writing) \o unsent'
    <3> SUFFICES ASSUME ~shutdown
                 PROVE  queued' = (written \o writing) \o unsent'
      OBVIOUS
    <3>1. /\ queued \in Seq(Int) /\ unsent \in Seq(Int) /\ <<m>> \in Seq(Int)
          /\ written \o writing \in Seq(Int)
      BY <1>0, <2>2, Parts, Shift
    <3>2. queued' = queued \o <<m>>
      BY <2>1, <2>2, <3>1, AppendIsConcat
    <3>3. queued = (written \o writing) \o unsent
      BY StreamParts
    <3>4. (written \o writing) \o (unsent \o <<m>>)
            = ((written \o writing) \o unsent) \o <<m>>
      BY <3>1, Associative
    <3> QED
      BY <2>4, <3>2, <3>3, <3>4
  <2> QED
    <3>1. ~shutdown' => Numbered(stream', sent')
      BY <1>1, <2>7, StreamParts
    <3>2. ~shutdown' => queued' = (written' \o writing') \o unsent'
      BY <1>1, <2>6, <2>8
    <3> QED
      BY <3>1, <3>2 DEF StreamsKept, Numbered, writing, unsent
<1> QED
  BY <1>2, <1>3 DEF Lcore

(* The controller sends the next number, or loses the last ones of what is *)
(* under way.                                                              *)
LEMMA StreamController ==
  ASSUME Known, StreamsKept, Controller
  PROVE  StreamsKept'
<1> USE DEF main, pool, network, history
<1>0. TypeInv
  BY DEF Known
<1>1. UNCHANGED <<shutdown, pc, cell, data, queue, handled, queued, written>>
  BY DEF Controller, controller_sends, controller_reads, controller_disconnects
<1>2. UNCHANGED <<hand, waiting, got, writing, unsent>>
  BY <1>1 DEF hand, waiting, got, writing, unsent, InHand, Contents
<1> DEFINE p == ((handled \o hand) \o waiting) \o got
<1>3. p \in Seq(Int) /\ to_switch \in Seq(Int) /\ sent \in Nat
  BY <1>0, Parts, Shift
<1>4. stream = p \o to_switch /\ stream' = p \o to_switch'
  BY <1>1, <1>2 DEF stream, hand, waiting, got
<1> HIDE DEF p
<1>5. SUFFICES ASSUME ~shutdown, Numbered(p \o to_switch, sent)
               PROVE  Numbered(p \o to_switch', sent')
  <2>1. ~shutdown => /\ Numbered(stream, sent)
                     /\ queued = (written \o writing) \o unsent
    BY StreamParts
  <2>2. ~shutdown' => Numbered(stream', sent')
    BY <1>1, <1>4, <1>5, <2>1
  <2>3. ~shutdown' => queued' = (written' \o writing') \o unsent'
    BY <1>1, <1>2, <2>1
  <2> QED
    BY <2>2, <2>3 DEF StreamsKept, Numbered, writing, unsent
<1>6. CASE controller_sends
  BY <1>3, <1>5, <1>6, StreamSends DEF controller_sends
<1>7. CASE controller_reads
  BY <1>5, <1>7 DEF controller_reads
<1>8. CASE controller_disconnects
  BY <1>3, <1>5, <1>8, StreamSends DEF controller_disconnects
<1> QED
  BY <1>6, <1>7, <1>8 DEF Controller

(* Messages and digests are the streams they were sent as, in every state  *)
(* before stop_backend: nothing that the threads, the queues, the cells    *)
(* and the connection do between them loses, doubles, reorders or          *)
(* overwrites one.                                                         *)
THEOREM StreamsAreKept == Spec => []StreamsKept
<1> USE DEF main, pool, network, history
<1>1. Init => StreamsKept
  <2> SUFFICES ASSUME Init
               PROVE  StreamsKept
    OBVIOUS
  <2>1. TypeInv
    BY TypeInvInit
  <2>2. hand = <<>> /\ got = <<>> /\ writing = <<>>
    BY ThreadNames DEF Init, hand, got, writing, InHand
  <2>3. Contents(<<>>) = <<>>
    BY <2>1, ContentsAre, EmptySeq
  <2>4. waiting = <<>> /\ unsent = <<>>
    BY <2>3 DEF Init, waiting, unsent, Workers
  <2>5. <<>> \o <<>> = <<>>
    BY ConcatEmptySeq, EmptySeq
  <2>6. stream = <<>>
    BY <2>2, <2>4, <2>5 DEF Init, stream, hand, waiting, got
  <2> QED
    BY <2>2, <2>4, <2>5, <2>6, StreamParts, EmptySeq DEF Init, Numbered
<1>2. Known /\ StreamsKept /\ [Next]_vars => StreamsKept'
  <2> SUFFICES ASSUME Known, StreamsKept, [Next]_vars
               PROVE  StreamsKept'
    OBVIOUS
  <2>1. CASE stop_backend
    BY <2>1 DEF stop_backend, StreamsKept
  <2>2. CASE dies \/ UNCHANGED vars
    <3>1. UNCHANGED <<shutdown, pc, cell, data, queue, handled, to_switch, sent,
                      queued, written>>
      BY <2>2 DEF dies, vars
    <3> QED
      BY <3>1, StreamQuiet DEF hand, waiting, got, writing, unsent, InHand, Contents
  <2>3. CASE Input \/ Output
    BY <2>3, StreamWorker, StreamIO DEF Input, Output, Workers
  <2> QED
    BY <2>1, <2>2, <2>3, StreamLaunch, StreamReceiver, StreamLcore,
       StreamController DEF Next
<1> QED
  BY <1>1, <1>2, TypeCorrect, CellsStayExclusive, NothingIsDropped, PTL
  DEF Spec, Known

-----------------------------------------------------------------------------
(* Cells are lost only when the connection breaks.                         *)

(* Somebody knows cell c.                                                  *)
Placed(c) == \/ c \in free
             \/ \E t \in Threads : cell[t] = c
             \/ \E w \in Workers : c \in CellsIn(queue[w])

(* A queue that takes a cell, or gives its oldest one, keeps the others.   *)
LEMMA CellsInMoves ==
  ASSUME NEW q \in Seq(Cells)
  PROVE  /\ \A c \in Cells : CellsIn(Append(q, c)) = CellsIn(q) \union {c}
         /\ q # <<>> => CellsIn(q) \subseteq CellsIn(Tail(q)) \union {Head(q)}
<1>1. ASSUME NEW c \in Cells
      PROVE  CellsIn(Append(q, c)) = CellsIn(q) \union {c}
  <2>1. /\ DOMAIN Append(q, c) = 1 .. Len(q) + 1 /\ DOMAIN q = 1 .. Len(q)
        /\ \A i \in 1 .. Len(q) : Append(q, c)[i] = q[i]
        /\ Append(q, c)[Len(q) + 1] = c /\ Len(q) \in Nat
    BY AppendProperties, LenProperties
  <2>2. \A i \in 1 .. Len(q) + 1 : i \in 1 .. Len(q) \/ i = Len(q) + 1
    BY <2>1
  <2>3. /\ \A i \in 1 .. Len(q) : i \in 1 .. Len(q) + 1
        /\ Len(q) + 1 \in 1 .. Len(q) + 1
    BY <2>1
  <2> QED
    BY <2>1, <2>2, <2>3 DEF CellsIn
<1>2. ASSUME q # <<>>, NEW i \in DOMAIN q, i # 1
      PROVE  q[i] \in CellsIn(Tail(q))
  <2>1. /\ Len(q) \in Nat \ {0} /\ i \in 1 .. Len(q)
        /\ DOMAIN Tail(q) = 1 .. Len(q) - 1
        /\ \A j \in 1 .. Len(q) - 1 : Tail(q)[j] = q[j + 1]
    BY <1>2, HeadTailProperties, EmptySeq
  <2>2. i - 1 \in 1 .. Len(q) - 1 /\ (i - 1) + 1 = i
    BY <1>2, <2>1
  <2>3. q[i] = Tail(q)[i - 1]
    BY <2>1, <2>2
  <2> QED
    BY <2>1, <2>2, <2>3 DEF CellsIn
<1>3. q # <<>> => Head(q) = q[1]
  BY HeadTailProperties
<1> QED
  BY <1>1, <1>2, <1>3 DEF CellsIn

(* Every step of a live backend that does not break the connection keeps   *)
(* every cell known.                                                       *)
LEMMA PlacedKept ==
  ASSUME Known, ~shutdown, Next, ~receiver_meets_eof, ~receiver_meets_error
  PROVE  \A c \in Cells : Placed(c) => Placed(c)'
<1> USE DEF main, pool, network, history
<1>0. /\ cell \in [Threads -> Cells \union {NULL}] /\ free \in SUBSET Cells
      /\ queue \in [Workers -> Seq(Cells)]
      /\ \A t \in Threads : (cell[t] # NULL) <=> (pc[t] \in Holding)
      /\ \A c \in Cells : c # NULL
  BY BackendAssumption DEF Known, TypeInv, TypeOK, CellHeld
<1>1. CASE UNCHANGED <<cell, free, queue>>
  BY <1>1 DEF Placed
<1>2. ASSUME NEW t \in Threads, cell[t] = NULL, UNCHANGED queue,
             NEW c \in free, free' = free \ {c}, cell' = [cell EXCEPT ![t] = c]
      PROVE  \A d \in Cells : Placed(d) => Placed(d)'
  BY <1>0, <1>2 DEF Placed
<1>3. ASSUME NEW t \in Threads, NEW w \in Workers, cell[t] \in Cells,
             UNCHANGED free, cell' = [cell EXCEPT ![t] = NULL],
             queue' = [queue EXCEPT ![w] = Append(@, cell[t])]
      PROVE  \A d \in Cells : Placed(d) => Placed(d)'
  <2>1. CellsIn(queue'[w]) = CellsIn(queue[w]) \union {cell[t]}
    <3>1. queue'[w] = Append(queue[w], cell[t]) /\ queue[w] \in Seq(Cells)
      BY <1>0, <1>3
    <3>2. CellsIn(Append(queue[w], cell[t])) = CellsIn(queue[w]) \union {cell[t]}
      BY <1>3, <3>1, CellsInMoves
    <3> QED
      BY <3>1, <3>2
  <2>2. \A v \in Workers \ {w} : queue'[v] = queue[v]
    BY <1>0, <1>3
  <2>3. \A v \in Workers : CellsIn(queue[v]) \subseteq CellsIn(queue'[v])
    BY <2>1, <2>2
  <2>4. cell[t] \in CellsIn(queue'[w])
    BY <2>1
  <2>5. \A u \in Threads \ {t} : cell'[u] = cell[u]
    BY <1>0, <1>3
  <2> QED
    BY <1>3, <2>3, <2>4, <2>5 DEF Placed
<1>4. ASSUME NEW w \in Workers, worker_takes(w)
      PROVE  \A d \in Cells : Placed(d) => Placed(d)'
  <2>1. /\ queue[w] # <<>> /\ queue[w] \in Seq(Cells) /\ cell[w] = NULL
        /\ cell' = [cell EXCEPT ![w] = Head(queue[w])] /\ UNCHANGED free
        /\ queue' = [queue EXCEPT ![w] = Tail(queue[w])] /\ w \in Threads
    BY <1>0, <1>4, ThreadNames DEF worker_takes, Goto, Holding
  <2>2. CellsIn(queue[w]) \subseteq CellsIn(queue'[w]) \union {cell'[w]}
    BY <1>0, <2>1, CellsInMoves
  <2>3. /\ \A v \in Workers \ {w} : queue'[v] = queue[v]
        /\ \A u \in Threads \ {w} : cell'[u] = cell[u]
    BY <1>0, <2>1
  <2> QED
    BY <1>0, <2>1, <2>2, <2>3 DEF Placed
<1>5. ASSUME NEW w \in Workers, worker_detouches(w)
      PROVE  \A d \in Cells : Placed(d) => Placed(d)'
  <2>1. /\ free' = free \union {cell[w]} /\ UNCHANGED queue
        /\ \A u \in Threads \ {w} : cell'[u] = cell[u]
    BY <1>0, <1>5, ThreadNames DEF worker_detouches
  <2> QED
    BY <2>1 DEF Placed
<1>6. CASE receiver_touches
  BY <1>0, <1>2, <1>6, ThreadNames DEF receiver_touches, Goto, Touch, Holding
<1>7. CASE receiver_adds
  <2>1. /\ pc["receiver"] = "add" /\ cell["receiver"] \in Cells
        /\ ~full(queue["input"])
    BY <1>0, <1>7, ThreadNames DEF receiver_adds, Goto, Holding, Known, NothingDropped
  <2> QED
    BY <1>3, <1>7, <2>1, ThreadNames DEF receiver_adds, Drop, fifo_add_msg, Workers
<1>8. ASSUME NEW l \in Lcores, create_digest(l)
      PROVE  \A d \in Cells : Placed(d) => Placed(d)'
  BY <1>0, <1>2, <1>8, ThreadNames DEF create_digest, Goto, Touch, Holding
<1>9. ASSUME NEW l \in Lcores, send_digest(l)
      PROVE  \A d \in Cells : Placed(d) => Placed(d)'
  <2>1. /\ pc[l] = "send" /\ cell[l] \in Cells /\ ~full(queue["output"])
    BY <1>0, <1>9, ThreadNames DEF send_digest, Goto, Holding, Known, NothingDropped
  <2> QED
    BY <1>3, <1>9, <2>1, ThreadNames DEF send_digest, Drop, fifo_add_msg, Workers
<1>10. CASE Launch \/ Controller \/ stop_backend \/ dies
  BY <1>1, <1>10
  DEF Launch, launch_connects, launch_is_refused, launch_dispatches, Controller,
      controller_sends, controller_reads, controller_disconnects, stop_backend,
      dies
<1>11. CASE \/ receiver_selects \/ receiver_stops \/ receiver_reads
            \/ input_handles \/ output_writes
  BY <1>1, <1>11 DEF receiver_selects, receiver_stops, receiver_reads,
                     input_handles, output_writes
<1>12. CASE Input \/ Output
  BY <1>4, <1>5, <1>11, <1>12
  DEF Input, Output, Worker, worker_stops, Workers
<1>13. CASE Receiver
  BY <1>6, <1>7, <1>11, <1>13 DEF Receiver
<1>14. CASE \E l \in Lcores : Lcore(l)
  BY <1>8, <1>9, <1>14 DEF Lcore
<1> QED
  BY <1>10, <1>12, <1>13, <1>14 DEF Next

(* How many cells may be lost, said without counting: none before the      *)
(* connection breaks, one by the end of file or the reset that             *)
(* backend_processor met, one more by the end of file after a reset.       *)
LeakInv ==
  ~shutdown =>
    /\ launch = "connect" => conn = "none"
    /\ conn \in {"none", "open", "rst"} => leaked = {}
    /\ conn = "fin" => \E c \in Cells \union {NULL} : leaked \subseteq {c}
    /\ conn = "closed" => \E c, d \in Cells \union {NULL} : leaked \subseteq {c, d}

(* The cells that are lost are those nobody knows.                         *)
LEMMA LeakedAre == leaked = {c \in Cells : ~Placed(c)}
  BY DEF leaked, Placed, Workers

(* Only stop_backend sets the flag, launch_backend makes the connection    *)
(* once, and otherwise only the controller ends it.                        *)
LEMMA FlagAndConnection ==
  ASSUME Next, ~shutdown', ~receiver_meets_eof, ~receiver_meets_error
  PROVE  /\ ~shutdown
         /\ \/ conn' = conn /\ (launch' = launch \/ launch' # "connect")
            \/ launch = "connect" /\ launch' # "connect" /\ conn' = "open"
            \/ conn = "open" /\ conn' \in {"fin", "rst"} /\ launch' = launch
<1> USE DEF main, pool, network, history
<1>1. CASE Launch
  BY <1>1, ThreadNames DEF Launch, launch_connects, launch_is_refused, launch_dispatches,
                  Services, Workers
<1>2. CASE Receiver
  BY <1>2 DEF Receiver, receiver_selects, receiver_stops, receiver_touches,
              receiver_reads, receiver_adds
<1>3. CASE Input \/ Output
  BY <1>3 DEF Input, Output, Worker, worker_stops, worker_takes,
              worker_detouches, input_handles, output_writes
<1>4. CASE Controller
  BY <1>4 DEF Controller, controller_sends, controller_reads,
              controller_disconnects
<1>5. CASE \/ \E l \in Lcores : Lcore(l)
           \/ stop_backend \/ dies
  BY <1>5 DEF Lcore, create_digest, send_digest, stop_backend, dies
<1> QED
  BY <1>1, <1>2, <1>3, <1>4, <1>5 DEF Next

(* A step loses a cell only when backend_processor meets the end of file   *)
(* or an error, and then the one it had touched for the message.           *)
LEMMA LeakInvNext ==
  ASSUME Known, LeakInv, Next, ~shutdown'
  PROVE  LeakInv'
<1> USE DEF main, pool, network, history
<1>0. /\ \A c : c \in leaked <=> c \in Cells /\ ~Placed(c)
      /\ \A c : c \in leaked' <=> c \in Cells /\ ~Placed(c)'
  <2>1. \A c : c \in leaked <=> c \in Cells /\ ~Placed(c)
    BY LeakedAre
  <2>2. \A c : c \in leaked' <=> c \in Cells /\ ~Placed(c)'
    BY DEF leaked, Placed, Workers
  <2> QED
    BY <2>1, <2>2
<1>1. CASE receiver_meets_eof \/ receiver_meets_error
  <2> DEFINE c == cell["receiver"]
  <2>1. /\ pc["receiver"] = "read" /\ UNCHANGED <<free, queue, shutdown, launch>>
        /\ cell' = [cell EXCEPT !["receiver"] = NULL]
        /\ \/ conn = "fin" /\ conn' = "closed"
           \/ conn = "rst" /\ conn' = "fin"
    BY <1>1 DEF receiver_meets_eof, receiver_meets_error, Goto, Drop
  <2>2. c \in Cells
    BY <2>1, ThreadNames DEF Known, TypeInv, TypeOK, CellHeld, Holding
  <2>3. \A t \in Threads \ {"receiver"} : cell'[t] = cell[t]
    BY <2>1 DEF Known, TypeInv, TypeOK
  <2>4. \A d \in Cells : Placed(d) => Placed(d)' \/ d = c
    BY <2>1, <2>3 DEF Placed
  <2>5. leaked' \subseteq leaked \union {c}
    BY <1>0, <2>4
  <2> HIDE DEF c
  <2>6. CASE conn = "fin" /\ conn' = "closed"
    <3>1. PICK d \in Cells \union {NULL} : leaked \subseteq {d}
      BY <2>1, <2>6 DEF LeakInv
    <3>2. leaked' \subseteq {d, c}
      BY <2>5, <3>1
    <3> QED
      BY <2>1, <2>2, <2>6, <3>2 DEF LeakInv
  <2>7. CASE conn = "rst" /\ conn' = "fin"
    <3>1. leaked' \subseteq {c}
      BY <2>1, <2>5, <2>7 DEF LeakInv
    <3> QED
      BY <2>1, <2>2, <2>7, <3>1 DEF LeakInv
  <2> QED
    BY <2>1, <2>6, <2>7
<1>2. CASE ~receiver_meets_eof /\ ~receiver_meets_error
  <2>1. /\ ~shutdown
        /\ \/ conn' = conn /\ (launch' = launch \/ launch' # "connect")
           \/ launch = "connect" /\ launch' # "connect" /\ conn' = "open"
           \/ conn = "open" /\ conn' \in {"fin", "rst"} /\ launch' = launch
    BY <1>2, FlagAndConnection
  <2>2. leaked' \subseteq leaked
    BY <1>0, <1>2, <2>1, PlacedKept
  <2>3. \A S : leaked \subseteq S => leaked' \subseteq S
    BY <2>2
  <2>4. conn' \in {"none", "open", "rst"} => leaked' = {}
    BY <2>1, <2>2 DEF LeakInv
  <2>5. conn' = "fin" => \E c \in Cells \union {NULL} : leaked' \subseteq {c}
    BY <2>1, <2>2 DEF LeakInv
  <2>6. conn' = "closed" =>
          \E c, d \in Cells \union {NULL} : leaked' \subseteq {c, d}
    BY <2>1, <2>3 DEF LeakInv
  <2>7. launch' = "connect" => conn' = "none"
    BY <2>1 DEF LeakInv
  <2> QED
    BY <2>4, <2>5, <2>6, <2>7 DEF LeakInv
<1> QED
  BY <1>1, <1>2

(* A broken connection costs the pool at most two cells, and until then it *)
(* loses none, whatever the threads do: every other path that takes a cell *)
(* passes it on or gives it back.                                          *)
THEOREM LeaksAreBounded == Spec => []LeakBound
<1>1. Init => LeakInv
  <2> SUFFICES ASSUME Init
               PROVE  LeakInv
    OBVIOUS
  <2>1. leaked = {}
    BY DEF Init, leaked
  <2> QED
    BY <2>1 DEF Init, LeakInv
<1>2. Known /\ LeakInv /\ [Next]_vars => LeakInv'
  <2> SUFFICES ASSUME Known, LeakInv, [Next]_vars
               PROVE  LeakInv'
    OBVIOUS
  <2>1. CASE UNCHANGED vars
    <3>1. leaked' = leaked
      BY <2>1 DEF vars, pool, leaked, CellsIn
    <3> QED
      BY <2>1, <3>1 DEF vars, main, network, LeakInv
  <2>2. CASE Next /\ ~shutdown'
    BY <2>2, LeakInvNext
  <2>3. CASE shutdown'
    BY <2>3 DEF LeakInv
  <2> QED
    BY <2>1, <2>2, <2>3
<1>3. Known /\ LeakInv => LeakBound
  <2> SUFFICES ASSUME Known, LeakInv, ~shutdown
               PROVE  /\ conn \in {"none", "open", "rst"} => leaked = {}
                      /\ Cardinality(leaked) <= IF conn = "closed" THEN 2 ELSE 1
    BY DEF LeakBound
  <2>1. conn \in {"none", "open", "rst"} => leaked = {}
    BY DEF LeakInv
  <2>2. CASE conn = "closed"
    <3>1. PICK c, d \in Cells \union {NULL} : leaked \subseteq {c, d}
      BY <2>2 DEF LeakInv
    <3>2. IsFiniteSet({c}) /\ Cardinality({c}) = 1
      BY FS_Singleton
    <3>3. IsFiniteSet({c} \union {d}) /\ Cardinality({c} \union {d}) <= 2
      <4>1. CASE d \in {c}
        <5>1. {c} \union {d} = {c}
          BY <4>1
        <5> QED
          BY ONLY <3>2, <5>1
      <4>2. CASE d \notin {c}
        <5>1. /\ IsFiniteSet({c} \union {d})
              /\ Cardinality({c} \union {d}) = Cardinality({c}) + 1
          BY ONLY <3>2, <4>2, FS_AddElement
        <5> QED
          BY ONLY <3>2, <5>1
      <4> QED
        BY <4>1, <4>2
    <3>4. leaked \in SUBSET ({c} \union {d})
      BY <3>1
    <3>5. /\ IsFiniteSet(leaked)
          /\ Cardinality(leaked) <= Cardinality({c} \union {d})
      BY <3>3, <3>4, FS_Subset
    <3>6. Cardinality(leaked) \in Nat /\ Cardinality({c} \union {d}) \in Nat
      BY <3>3, <3>5, FS_CardinalityType
    <3> QED
      BY <2>1, <2>2, <3>3, <3>5, <3>6
  <2>3. CASE conn = "fin"
    <3>1. PICK c \in Cells \union {NULL} : leaked \subseteq {c}
      BY <2>3 DEF LeakInv
    <3>2. IsFiniteSet({c}) /\ Cardinality({c}) = 1
      BY FS_Singleton
    <3>3. leaked \in SUBSET {c}
      BY <3>1
    <3>4. Cardinality(leaked) <= 1
      BY <3>2, <3>3, FS_Subset
    <3> QED
      BY <2>1, <2>3, <3>4
  <2>4. CASE conn \in {"none", "open", "rst"}
    <3>1. Cardinality(leaked) = 0
      BY <2>1, <2>4, FS_EmptySet
    <3> QED
      BY <2>1, <2>4, <3>1
  <2> QED
    BY <2>2, <2>3, <2>4 DEF Known, TypeInv, TypeOK
<1> QED
  BY <1>1, <1>2, <1>3, TypeCorrect, CellsStayExclusive, NothingIsDropped, PTL
  DEF Spec, Known
=============================================================================
