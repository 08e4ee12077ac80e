-------------------------- MODULE CtrlPlaneBackend --------------------------
(***************************************************************************)
(* The switch's side of the control plane (ctrl_plane_backend.c): three    *)
(* threads of the pool - backend_processor reads messages of the           *)
(* controller from the socket, input_processor hands them to the callback  *)
(* that edits the tables, output_processor writes digests to the socket -  *)
(* and the data-plane lcores that create and send digests.  They share one *)
(* pool of memory cells and two queues, and pass cells to each other.      *)
(*                                                                         *)
(* The pool and the queues are used at the level of their specifications   *)
(* CellPool and BoundedFifo.  Each queue has one consumer here, so the     *)
(* fifo_wait and fifo_remove_msg of a loop are one step.                   *)
(*                                                                         *)
(* Covered: the order in which launch_backend starts the threads, a        *)
(* refused connection, an orderly close and a reset of the connection by   *)
(* the controller, an exhausted pool (the null cell is dereferenced), a    *)
(* write to a dead socket, stop_backend.  The controller is the            *)
(* environment: it sends whole, well-formed messages (send_p4_msg caps     *)
(* their length), so read_p4_msg fails only when the connection does.      *)
(***************************************************************************)
EXTENDS Integers, Sequences, FiniteSets

CONSTANTS Cells,        \* the memory cells of the pool
          Lcores,       \* data-plane threads that generate digests
          QueueSize,    \* P4_BG_QUEUE_SIZE
          NetSize,      \* bound: messages under way in one direction
          MaxMsgs,      \* bound: messages the controller sends
          MaxDigests,   \* bound: digests the lcores create
          NULL          \* the null pointer

Workers  == {"input", "output"}         \* input_processor, output_processor
Services == Workers \union {"receiver"}  \* ... and backend_processor
Threads  == Services \union Lcores

\* create_backend gets 1000 cells; P4_BG_QUEUE_SIZE is 1024.
ASSUME BackendAssumption ==
  /\ IsFiniteSet(Cells)
  /\ QueueSize \in Nat /\ Cardinality(Cells) <= QueueSize
  /\ NULL \notin Cells
  /\ Lcores \cap Services = {}
  /\ NetSize \in Nat /\ MaxMsgs \in Nat /\ MaxDigests \in Nat

VARIABLES
  launch,     \* the thread launch_backend starts next, "connect" before that
  pc,         \* where each thread is in its loop
  cell,       \* the mem_cell variable of each thread
  free,       \* the cells of the pool that are not lent
  data,       \* the message in the buffer of each cell
  queue,      \* input_queue and output_queue
  shutdown,   \* the flag stop_backend sets
  alive,      \* the process has not died
  conn,       \* the connection to the controller
  to_switch, to_controller   \* messages under way on the connection

\* What happened so far, to state properties: how many messages the controller
\* sent (and no reset lost) and how many digests the lcores created; the
\* messages handled, and the digests queued and written, in the order in which
\* that happened.
VARIABLES sent, created, handled, queued, written

main    == <<launch, shutdown, alive>>
pool    == <<cell, free, data>>
network == <<conn, to_switch, to_controller>>
history == <<sent, created, handled, queued, written>>
vars    == <<main, pc, pool, queue, network, history>>

-----------------------------------------------------------------------------

Init == /\ launch = "connect"
        /\ pc = [t \in Threads |-> IF t \in Lcores THEN "idle" ELSE "none"]
        /\ cell = [t \in Threads |-> NULL]
        /\ free = Cells
        /\ data = [c \in Cells |-> 0]
        /\ queue = [w \in Workers |-> <<>>]
        /\ shutdown = FALSE
        /\ alive = TRUE
        /\ conn = "none"
        /\ to_switch = <<>> /\ to_controller = <<>>
        /\ sent = 0 /\ created = 0
        /\ handled = <<>> /\ queued = <<>> /\ written = <<>>

\* Thread t goes from one place of its loop to another.
Goto(t, from, to) == /\ alive
                     /\ pc[t] = from
                     /\ pc' = [pc EXCEPT ![t] = to]

\* touch_mem_cell lends cell c to thread t.
Touch(t, c) == /\ c \in free
               /\ free' = free \ {c}
               /\ cell' = [cell EXCEPT ![t] = c]

\* Thread t has no cell any more: it passed it on, or forgot it.
Drop(t) == /\ cell' = [cell EXCEPT ![t] = NULL]
           /\ UNCHANGED <<free, data>>

\* Seeded bug: a queue is full one message early.
full_off_by_one(q) == Len(q) >= QueueSize - 1

full(q) == Len(q) >= QueueSize
fifo_add_msg(q, c) == IF full(q) THEN q ELSE Append(q, c)

-----------------------------------------------------------------------------
(* launch_backend, in the main thread.                                     *)

launch_connects == /\ alive /\ launch = "connect"
                   /\ launch' = "receiver"
                   /\ conn' = "open"
                   /\ UNCHANGED <<shutdown, alive, pc, pool, queue, to_switch,
                                  to_controller, history>>

\* connect failed: no thread is started, and main goes on to the data plane.
launch_is_refused == /\ alive /\ launch = "connect"
                     /\ launch' = "returned"
                     /\ UNCHANGED <<shutdown, alive, pc, pool, queue, network,
                                    history>>

launch_dispatches == /\ launch \in Services
                     /\ Goto(launch, "none", "loop")
                     /\ launch' = CASE launch = "receiver" -> "input"
                                    [] launch = "input"    -> "output"
                                    [] launch = "output"   -> "returned"
                     /\ UNCHANGED <<shutdown, alive, pool, queue, network,
                                    history>>

-----------------------------------------------------------------------------
(* backend_processor                                                       *)

readable == to_switch # <<>> \/ conn \in {"fin", "rst"}

receiver_selects == /\ ~shutdown
                    /\ readable
                    /\ Goto("receiver", "loop", "touch")
                    /\ UNCHANGED <<main, pool, queue, network, history>>

\* After a timeout of select, or when the socket is readable.
receiver_stops == /\ shutdown
                  /\ Goto("receiver", "loop", "done")
                  /\ conn' = "closed"
                  /\ UNCHANGED <<main, pool, queue, to_switch, to_controller,
                                 history>>

receiver_touches == /\ Goto("receiver", "touch", "read")
                    /\ \E c \in free : Touch("receiver", c)
                    /\ UNCHANGED <<main, data, queue, network, history>>

\* read_p4_msg > 0
receiver_reads == /\ to_switch # <<>>
                  /\ Goto("receiver", "read", "add")
                  /\ data' = [data EXCEPT ![cell["receiver"]] = Head(to_switch)]
                  /\ to_switch' = Tail(to_switch)
                  /\ UNCHANGED <<main, cell, free, queue, conn, to_controller,
                                 history>>

\* Seeded bug: what the controller sent before it closed is not read.
receiver_meets_eof_early == /\ conn = "fin"
                            /\ Goto("receiver", "read", "done")
                            /\ conn' = "closed"
                            /\ Drop("receiver")
                            /\ UNCHANGED <<main, queue, to_switch, to_controller,
                                           history>>

\* read_p4_msg = 0: the loop ends, and the cell is not given back.
receiver_meets_eof == /\ conn = "fin" /\ to_switch = <<>>
                      /\ Goto("receiver", "read", "done")
                      /\ conn' = "closed"
                      /\ Drop("receiver")
                      /\ UNCHANGED <<main, queue, to_switch, to_controller,
                                     history>>

\* Seeded bug: the loop does not start over after an error.
receiver_meets_error_falls_through ==
  /\ conn = "rst" /\ to_switch = <<>>
  /\ Goto("receiver", "read", "add")
  /\ conn' = "fin"
  /\ Drop("receiver")
  /\ UNCHANGED <<main, queue, to_switch, to_controller, history>>

\* read_p4_msg < 0: the loop goes on, and the cell is not given back.  The
\* socket reports a reset once and end of file from then on.
receiver_meets_error == /\ conn = "rst" /\ to_switch = <<>>
                        /\ Goto("receiver", "read", "loop")
                        /\ conn' = "fin"
                        /\ Drop("receiver")
                        /\ UNCHANGED <<main, queue, to_switch, to_controller,
                                       history>>

\* Seeded bug: the cell is given back as soon as it is queued.
receiver_adds_and_frees ==
  /\ Goto("receiver", "add", "loop")
  /\ queue' = [queue EXCEPT !["input"] = fifo_add_msg(@, cell["receiver"])]
  /\ free' = free \union {cell["receiver"]}
  /\ cell' = [cell EXCEPT !["receiver"] = NULL]
  /\ UNCHANGED <<main, data, network, history>>

receiver_adds ==
  /\ Goto("receiver", "add", "loop")
  /\ queue' = [queue EXCEPT !["input"] = fifo_add_msg(@, cell["receiver"])]
  /\ Drop("receiver")
  /\ UNCHANGED <<main, network, history>>

-----------------------------------------------------------------------------
(* input_processor and output_processor                                    *)

\* The flag is tested after fifo_remove_msg: the message that ends the loop,
\* if there is one, is dropped and its cell not given back.
worker_stops(w) == /\ shutdown
                   /\ Goto(w, "loop", "done")
                   /\ queue' = [queue EXCEPT ![w] = IF @ = <<>> THEN @ ELSE Tail(@)]
                   /\ UNCHANGED <<main, pool, network, history>>

\* Seeded bug: the newest message is taken first.
worker_takes_newest(w) ==
  /\ ~shutdown
  /\ queue[w] # <<>>
  /\ Goto(w, "loop", "use")
  /\ cell' = [cell EXCEPT ![w] = queue[w][Len(queue[w])]]
  /\ queue' = [queue EXCEPT ![w] = SubSeq(@, 1, Len(@) - 1)]
  /\ UNCHANGED <<main, free, data, network, history>>

worker_takes(w) == /\ ~shutdown
                   /\ queue[w] # <<>>
                   /\ Goto(w, "loop", "use")
                   /\ cell' = [cell EXCEPT ![w] = Head(queue[w])]
                   /\ queue' = [queue EXCEPT ![w] = Tail(@)]
                   /\ UNCHANGED <<main, free, data, network, history>>

\* handle_p4_msg runs the callback on the message that is in the cell now.
input_handles == /\ Goto("input", "use", "detouch")
                 /\ handled' = Append(handled, data[cell["input"]])
                 /\ UNCHANGED <<main, pool, queue, network, sent, created,
                                queued, written>>

\* Seeded bug: the digest waits for a connection that may never come back.
output_writes_only_when_open ==
  /\ conn = "open" /\ Len(to_controller) < NetSize
  /\ Goto("output", "use", "detouch")
  /\ to_controller' = Append(to_controller, data[cell["output"]])
  /\ written' = Append(written, data[cell["output"]])
  /\ UNCHANGED <<main, pool, queue, conn, to_switch, sent, created, handled,
                 queued>>

\* write_p4_msg blocks while the connection has no room.  On a connection
\* that the controller gave up, or that backend_processor closed, the digest
\* is gone; the result of write_p4_msg is not looked at.
output_writes == /\ conn = "open" => Len(to_controller) < NetSize
                 /\ Goto("output", "use", "detouch")
                 /\ to_controller' = IF conn = "open"
                                     THEN Append(to_controller, data[cell["output"]])
                                     ELSE to_controller
                 /\ written' = Append(written, data[cell["output"]])
                 /\ UNCHANGED <<main, pool, queue, conn, to_switch, sent,
                                created, handled, queued>>

\* Seeded bug: the cell is not given back.
worker_keeps_cell(w) == /\ Goto(w, "detouch", "loop")
                        /\ cell' = [cell EXCEPT ![w] = NULL]
                        /\ UNCHANGED <<main, free, data, queue, network, history>>

worker_detouches(w) == /\ Goto(w, "detouch", "loop")
                       /\ free' = free \union {cell[w]}
                       /\ cell' = [cell EXCEPT ![w] = NULL]
                       /\ UNCHANGED <<main, data, queue, network, history>>

-----------------------------------------------------------------------------
(* generate_digest, on lcore l.  The data plane starts after               *)
(* launch_backend has returned.                                            *)

may_create(l) == /\ pc[l] = "idle"
                 /\ launch = "returned"
                 /\ created < MaxDigests

\* A digest is numbered below zero, a message of the controller above.
create_digest(l) == /\ may_create(l)
                    /\ Goto(l, "idle", "send")
                    /\ created' = created + 1
                    /\ \E c \in free : /\ Touch(l, c)
                                       /\ data' = [data EXCEPT ![c] = -created']
                    /\ UNCHANGED <<main, queue, network, sent, handled, queued,
                                   written>>

send_digest(l) ==
  /\ Goto(l, "send", "idle")
  /\ queue' = [queue EXCEPT !["output"] = fifo_add_msg(@, cell[l])]
  /\ queued' = Append(queued, data[cell[l]])
  /\ Drop(l)
  /\ UNCHANGED <<main, network, sent, created, handled, written>>

-----------------------------------------------------------------------------
(* stop_backend sets the flag and sends SIGUSR1 to the threads; no handler *)
(* is installed, so the signal kills the process, but the threads may run  *)
(* between the two.                                                        *)

stop_backend == /\ alive /\ ~shutdown /\ launch = "returned"
                /\ shutdown' = TRUE
                /\ UNCHANGED <<launch, alive, pc, pool, queue, network, history>>

\* backend_processor and add_digest_field dereference the null that touch
\* and create_digest return when the pool is exhausted.
null_cell == /\ free = {}
             /\ \/ pc["receiver"] = "touch"
                \/ \E l \in Lcores : may_create(l)

\* A second write to a connection the controller gave up; nothing handles
\* the signal.
sigpipe == pc["output"] = "use" /\ conn \in {"fin", "rst"}

dies == /\ alive
        /\ null_cell \/ sigpipe \/ shutdown
        /\ alive' = FALSE
        /\ UNCHANGED <<launch, shutdown, pc, pool, queue, network, history>>

-----------------------------------------------------------------------------
(* The controller.                                                         *)

controller_sends == /\ alive /\ conn = "open"
                    /\ sent < MaxMsgs /\ Len(to_switch) < NetSize
                    /\ sent' = sent + 1
                    /\ to_switch' = Append(to_switch, sent')
                    /\ UNCHANGED <<main, pc, pool, queue, conn, to_controller,
                                   created, handled, queued, written>>

controller_reads == /\ conn = "open" /\ to_controller # <<>>
                    /\ to_controller' = Tail(to_controller)
                    /\ UNCHANGED <<main, pc, pool, queue, conn, to_switch,
                                   history>>

\* What the switch's end has received stays readable; a reset loses the rest.
controller_disconnects == /\ alive /\ conn = "open"
                          /\ conn' \in {"fin", "rst"}
                          /\ \E n \in 0 .. Len(to_switch) :
                               /\ conn' = "fin" => n = Len(to_switch)
                               /\ to_switch' = SubSeq(to_switch, 1, n)
                               /\ sent' = sent - (Len(to_switch) - n)
                          /\ to_controller' = <<>>
                          /\ UNCHANGED <<main, pc, pool, queue, created,
                                         handled, queued, written>>

-----------------------------------------------------------------------------

Launch     == launch_connects \/ launch_is_refused \/ launch_dispatches
Receiver   == \/ receiver_selects \/ receiver_stops \/ receiver_touches
              \/ receiver_reads \/ receiver_meets_eof \/ receiver_meets_error
              \/ receiver_adds
Worker(w)  == worker_stops(w) \/ worker_takes(w) \/ worker_detouches(w)
Input      == Worker("input") \/ input_handles
Output     == Worker("output") \/ output_writes
Lcore(l)   == create_digest(l) \/ send_digest(l)
Controller == controller_sends \/ controller_reads \/ controller_disconnects

Next == \/ Launch \/ Receiver \/ Input \/ Output \/ Controller
        \/ \E l \in Lcores : Lcore(l)
        \/ stop_backend \/ dies

Spec == Init /\ [][Next]_vars

(* The threads of the pool run, an lcore sends the digest it created, and  *)
(* the controller reads what is sent to it.  Nothing is assumed about when *)
(* lcores create digests, the controller sends or disconnects, or the      *)
(* backend is stopped.                                                     *)
FairSpec == /\ Spec
            /\ WF_vars(Launch) /\ WF_vars(Receiver)
            /\ WF_vars(Input) /\ WF_vars(Output)
            /\ \A l \in Lcores : WF_vars(send_digest(l))
            /\ WF_vars(controller_reads)

-----------------------------------------------------------------------------

TypeOK == /\ launch \in Services \union {"connect", "returned"}
          /\ pc \in [Threads -> {"none", "loop", "touch", "read", "add", "use",
                                 "detouch", "idle", "send", "done"}]
          /\ cell \in [Threads -> Cells \union {NULL}]
          /\ free \in SUBSET Cells
          /\ data \in [Cells -> Int]
          /\ queue \in [Workers -> Seq(Cells)]
          /\ shutdown \in BOOLEAN
          /\ alive \in BOOLEAN
          /\ conn \in {"none", "open", "fin", "rst", "closed"}
          /\ to_switch \in Seq(Int) /\ to_controller \in Seq(Int)
          /\ sent \in Nat /\ created \in Nat
          /\ handled \in Seq(Int) /\ queued \in Seq(Int) /\ written \in Seq(Int)

\* The cells in a queue, and the messages in them.
CellsIn(q)  == {q[i] : i \in DOMAIN q}
Contents(q) == [i \in DOMAIN q |-> data[q[i]]]

(* A cell is in one place: with one thread, or once in one queue, or in    *)
(* the pool.  The threads hand cells over without any lock of their own,   *)
(* so this is what keeps two of them from using one buffer.                *)
CellsAreExclusive ==
  /\ \A t \in Threads : cell[t] # NULL =>
       /\ cell[t] \notin free
       /\ \A w \in Workers : cell[t] \notin CellsIn(queue[w])
       /\ \A u \in Threads \ {t} : cell[u] # cell[t]
  /\ \A w \in Workers :
       /\ CellsIn(queue[w]) \cap free = {}
       /\ \A i, j \in DOMAIN queue[w] : queue[w][i] = queue[w][j] => i = j
  /\ CellsIn(queue["input"]) \cap CellsIn(queue["output"]) = {}

(* fifo_add_msg drops the message when the queue is full, and send_digest  *)
(* and backend_processor do not notice.  It never happens, because the     *)
(* pool has no more cells than a queue has slots.                          *)
NothingDropped ==
  /\ pc["receiver"] = "add" => ~full(queue["input"])
  /\ (\E l \in Lcores : pc[l] = "send") => ~full(queue["output"])

InHand(t, places) == IF pc[t] \in places THEN <<data[cell[t]]>> ELSE <<>>

\* What became of the controller's messages, the newest last.
stream == handled \o InHand("input", {"use"}) \o Contents(queue["input"])
                  \o InHand("receiver", {"add"}) \o to_switch

(* Between the controller and the callback no message is lost, doubled,    *)
(* reordered or overwritten in its cell: what was handled, what waits in   *)
(* cells and what is under way are the messages 1, 2, 3, ... in this order,*)
(* whatever happens to the connection.  The other way round, digests are   *)
(* written in the order in which send_digest was called, each once and     *)
(* with the contents it was created with.                                  *)
StreamsKept ==
  ~shutdown =>
    /\ Len(stream) = sent /\ \A i \in 1 .. sent : stream[i] = i
    /\ queued = written \o InHand("output", {"use"}) \o Contents(queue["output"])

(* Cells that no thread, queue or pool knows any more.                     *)
leaked == Cells \ (free \union {cell[t] : t \in Threads}
                        \union CellsIn(queue["input"])
                        \union CellsIn(queue["output"]))

(* The pool shrinks only when the connection breaks, and then by one cell  *)
(* for the end of file and one for a reset.                                *)
LeakBound ==
  ~shutdown => /\ conn \in {"none", "open", "rst"} => leaked = {}
               /\ Cardinality(leaked) <= IF conn = "closed" THEN 2 ELSE 1

(* A pool without a free cell costs the switch a digest or a message of    *)
(* the controller, not the process: touch_mem_cell and create_digest       *)
(* report the exhausted pool to their callers (ctrl_plane_backend.c:357).  *)
SurvivesExhaustion == [][alive /\ ~alive' => sigpipe \/ shutdown]_vars

\* Nothing can be expected of a process that died or was told to stop.
GaveUp == ~alive \/ shutdown

(* Every message the controller sends is handled in the end, also when it  *)
(* closes the connection right after sending; a reset may lose it.         *)
EveryMsgHandled ==
  \A n \in 1 .. MaxMsgs :
    sent >= n ~> \/ \E i \in DOMAIN handled : handled[i] = n
                 \/ sent < n \/ GaveUp

(* Every digest that was sent is written in the end (possibly to a         *)
(* connection that is gone), if a connection was ever made.                *)
EveryDigestWritten ==
  \A n \in 1 .. MaxDigests :
    (\E i \in DOMAIN queued : queued[i] = -n)
      ~> \/ \E i \in DOMAIN written : written[i] = -n
         \/ conn = "none" \/ GaveUp
=============================================================================
