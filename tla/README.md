# A TLA+ model of the l2l3_acl switch and its control plane

This directory models the program in `src/`: a P4 software switch (the P4@ELTE
retargetable compiler's output for `examples/l2l3_acl`, extended with tables
that are the cartesian product of others), its DPDK back end, and the control
plane that connects the switch to a controller. TLC checks the modules on small
instances; TLAPS proves the theorems of the `*_proofs` modules for every value
of the constants.

Paths below are relative to `src/`. CP is `src/hardware_dep/shared/ctrl_plane`,
DP is `src/hardware_dep/dpdk`, GEN is `build/l2l3_acl/src_hardware_indep`.

## The system

```
  switch process                                   controller process
  lcore 1..n  --create/send_digest--> output_queue --socket--> main (select)
  (GEN, DP)                                                      |input_queue
     ^ tables                                                    v
     |  CHANGE_TABLE                                        input_processor
  input_processor <-- input_queue <-- backend_processor <--socket-- output_processor
```

| component | code | state | operations | what is hard |
|---|---|---|---|---|
| memory cell pool | CP/ctrl_plane_backend.c | used and unused list, `prev` pointers | `create_backend`, `touch_mem_cell`, `detouch_mem_cell`, `destroy_backend` | pointers kept by some operations only; the last cell; freeing once |
| message FIFO | CP/fifo.c | ring, `head`, `tail`, `size`, mutex, conditions | `fifo_add_msg`, `fifo_wait`, `fifo_remove_msg` | waiting apart from removing; wake-ups; wrap; the full queue |
| thread pool | CP/threadpool.c | list of jobs, `qsize`, mutex, condition, threads | `dispatch`, `do_work` | the mutex is given up before waiting; jobs that never end |
| switch-side backend | CP/ctrl_plane_backend.c, DP/data_plane/dpdk_primitives.c, DP/main.c | the pool, two queues, three service threads, a socket | `launch_backend`, the three processors, `create_digest`, `send_digest`, `stop_backend` | ownership of cells, broken connections, an exhausted pool |
| start-up | DP/main.c, DP/main_loop.c, DP/data_plane/dpdk_lib.c | the options, ports and queues, `lcore_conf`, `state` | `parse_args`, the checks and `init_*` functions of `initialize`, `launch_dpdk`, the static load | every combination of options; queues without a lock that only their set-up keeps apart; the control plane runs before the lcores |
| replicated tables | DP/data_plane/dpdk_lib.c | two instances of a table per socket, the pointer of each lcore | `CHANGE_TABLE`, `change_replica`, a lookup | no lock at all; a delay instead |
| controller | CP/controller.c, CP/dpdk_*_controller.c | descriptors, two queues, a thread pool | `execute_controller`, processors, `send_p4_msg` | several switches, reused descriptors, jobs that wait for ever |
| learning switch | CP/dpdk_controller.c, examples/l2_switch_test.p4, DP/main_loop_no_nic_l2.c | the file of addresses, the tables smac and dmac, a descriptor per lcore | `init`, `mac_learn_digest`, the tables applied to a packet | two messages make one entry; digests about what is under way already; a connection that breaks between |
| lookup tables | DP/data_plane/dpdk_tables.c, shared/data_plane/ternary_naive.c | hash, LPM and ternary tables with content arrays | add, lookup, set default | index arithmetic and aliasing |
| main loop, transmission | DP/main_loop.c | transmit buffer per port, drain timer | `send_packets`, `send_burst`, the main loop | each packet sent or freed once, and at some time |
| generated data plane | GEN/dataplane.c, parser.c, actions.c | packet descriptors | the tables in sequence, or their product | batches, re-used descriptors, tables that change between stages |
| message formats, handlers | CP/messages.c, CP/handlers.c | buffers | byte order, building, unpacking | offsets; two programs that convert |
| generated handlers | GEN/controlplane.c | - | `recv_from_controller`, `*_promote` | dispatch by name |

How they interact. The threads of the switch share memory: an lcore that learns
an address takes a cell from the pool, fills it and puts it into the output
queue; `output_processor` writes it to the socket and gives the cell back.
`backend_processor` puts what the socket delivers into cells and the input
queue; `input_processor` passes them to `recv_from_controller`, which promotes
an entry to all replicas of a table while the lcores look up. The controller
mirrors this with one `select` loop, two queues that all connections share and
two pool jobs per connection.

What makes each component correct: the pool never lends a cell twice and the
lists stay lists; the queue is a queue and wakes its consumers; a dispatched
job starts; messages and digests keep their order and contents through cells
whoever else runs; a table never changes under a lookup and an update reaches
every replica, whole and in order; the controller handles digests and writes
messages in order as long as its queues have threads; every lcore that polls has
queues and buffers of its own, whatever the command line; a switch that learns
addresses knows a port for every source it no longer asks about.

## Modules

`X_proofs` extends `X`; `MCX` extends `X` with the values TLC needs. Two modules
of proofs are about two models each: `Tables_proofs` about ReplicaTables and
LookupTables, `Programs_proofs` about Startup and Controller.

* **CellPool** (abstract): which cells are lent; a call of touch returns one that
  is not lent, and null only if all are. **MemCellPool**: the two linked lists
  pointer by pointer. `next`, `prev`, `used_head`, `unused_head` are the code's;
  `held` is what callers have and use, `frees` counts `free` per cell. The
  refinement `ImplementsCellPool` maps the list to the set of lent cells.
* **BoundedFifo** (abstract): a bounded sequence and the messages taken from
  it. **MsgFifo**: the ring with `head`, `size` and `tail` (which starts at -1)
  and consumers that call `fifo_wait` and `fifo_remove_msg` in their loops, with
  POSIX's spurious wake-ups. Critical sections are one step, since every access
  is inside them.
* **ThreadPool**: `dispatch` and `do_work` access by access, because `do_work`
  unlocks before `pthread_cond_wait`, so the mutex does not make a section
  atomic. `pthread_cond_wait` on a mutex the caller does not hold unlocks it
  whoever holds it: the behaviour of glibc's normal mutex.
* **CtrlPlaneBackend** composes the pool and the queues at the level of their
  specifications with the three service threads, the lcores and a controller
  that may close or reset the connection. `pc` is the place of a thread in its
  loop and `cell` its local `mem_cell`. A cell is passed by reference, and
  `data` is what its buffer holds, so a buffer reused too early shows up as a
  message with other contents.
* **TableView** (abstract): every lcore sees a prefix of the updates, which only
  grows, by one update at a time. **ReplicaTables**: the macro `CHANGE_TABLE` with
  its loops over sockets and replicas, `change_replica` lcore by lcore, `usleep`,
  and lookups that begin and end on each lcore. An instance is the sequence of
  updates made to it.
* **Startup**: `main` from the first option to polling lcores, one step for each
  function, and one for each option, port or round where it loops. Any call of
  DPDK may fail and ends the process (`rte_exit`). `conf` is what the options
  set, `dev` the ports as DPDK knows them, `instance` the pointer of each lcore.
  The control plane connects before the lcores run, and switches replicas at
  any time from then on (`change_replica`).
* **MacLearning** composes a switch with its controller at a higher level: the
  pipeline of l2_switch_test.p4 on several lcores, and dpdk_controller.c, the
  controller run.sh starts for it. What lies between the two programs (pool,
  queues and socket of the switch) is one sequence for each direction, which
  loses its newest part when the connection breaks; that it is a sequence is what
  `StreamsKept` and `OrderKept` say of the modules above. The controller's two
  queues are there with their size: `send_p4_msg` and the reading main thread
  drop what finds one full, as `fifo_add_msg` does without telling them, and
  `init` sends its messages one by one while `output_processor` takes them off.
  After the connection broke nothing of the controller reaches the switch. A
  digest is its fields as bytes. Two variables are histories: `seen`, which
  address came in on which port, and `dropped`, for which addresses an entry of
  dmac was dropped.
* **Controller**: `execute_controller`, the processors, the pool as seen when no
  dispatch meets a thread on its way into waiting, and switches that connect,
  send, close and reset. Messages are numbered in the order of `send_p4_msg`.
  `length` is uninitialised when `accept` first reads it, so `length_valid` is
  chosen freely. Descriptors are the lowest free, as POSIX has it.
* **LookupTables**: one exact, one lpm and one ternary table. `position`,
  `free_slots` and `rules` are what `rte_hash` and `rte_lpm` of DPDK 16.11
  (README.md:9) keep (external). `free_slots` is the ring: an add takes its head
  before it looks for the key and puts it back at the tail if the key was there,
  or if no bucket has room; with an empty ring any add is refused. A bucket can
  be full only when as many keys are in the table as a bucket has entries, and
  more than that is left open. `content` and `lpm_content` are the arrays of
  values beside them, `size` the byte that numbers the lpm entries. `refused` is
  a history of the calls that `rte_hash` refused. The value given to a call is the number of the call, so that a
  lookup shows whose value it found.
* **ControlMessages**: operators that follow one message from the `fill_*` and
  `set_default_*` functions of the controller programs through
  `handle_p4_msg` to the change `recv_from_controller` makes. A buffer maps
  offsets to structs, `htons` is computed, and a route's address keeps its
  bytes, since `routing_add`, `lpm_add` and `table_routing_key` each have their
  own idea of their order. `request` says what a controller program can ask for;
  `ChangesAssumption` of DataPlane asks it of the messages TLC is given.
* **DataPlane**: `dpdk_main_loop` on one lcore: the drain timer, the receive
  queues, the pipeline stage by stage over a batch, `send_packets` packet by
  packet. `pd` are the descriptors, which keep what the parser does not set;
  `mbuf` is each packet as it is now, `received` as it came. Between two stages
  `change_table` handles a message with the operators of ControlMessages.

Seeded bugs (`..._off_by_one`, `..._swapped` and the like) stand just before the
definition they vary. They are not part of any specification; each one, put in
the place of its original, makes TLC find a property violated.

## Runs

| run | question | bounds | result |
|---|---|---|---|
| `mem_cell_pool` | do the lists partition the cells, is each freed once at the end, does the pool implement `CellPool`? | 5 cells: first, middle and last elements, and empty lists | holds |
| `msg_fifo` | does the ring implement a queue; is a wake-up ever lost? | 3 slots, 2 consumers, 7 messages: more than two turns of both indices | holds |
| `thread_pool` | with the callers' `sleep(1)`: does every job start, once? | 3 threads (the code's number), 5 jobs, so that jobs queue behind others | holds |
| `thread_pool_race` | and without it, as the comment in threadpool.h promises? | 1 job is enough | violated |
| `backend` | exclusive cells, nothing dropped, streams in order, leaks bounded; is every message handled and every digest written? | 2 cells (exhausted by a digest and a message), 2 lcores, 3 messages and 2 digests; no symmetry, because of liveness | holds |
| `backend_exhausted` | does the switch survive an empty pool? | one digest more than cells | violated |
| `replica_tables` | does no instance change under a lookup, and is the table a `TableView`? | 3 sockets of which one has no lcore, 2 replicas, 3 lcores, 4 updates: each replica is activated twice | holds |
| `startup` | for every command line: does the start end, and do lcores that poll have what they use? | 23 command lines (defaults, shared queues, gaps in the queues, each limit by one more, options in the wrong place), 3 lcores, 3 topologies of which one has a socket out of range, 4 ports, 3 replica switches (each socket returns to its first replica), links that come up or not for `MaxCheckTime` = 3 rounds | holds |
| `mac_learning` | are known sources destinations, are ports right, do stations get learned? | 2 lcores, 2 stations that send to each other, 3 files (empty; longer than `MAX_MACS`, with an outdated port; wrong), controller queues of 2 that `init` and the answers to digests overflow, a connection that breaks at any point, no digest or message under way when a packet arrives except what `init` has still to send | holds |
| `controller` | order of digests and messages, and are the queues served? | 2 connections, 3 threads, queues of one slot so that they overflow, 3 digests | holds |
| `lookup_tables` | does a lookup find what was given to its key last, and up to which size? | arrays of 2 pointers, hashes of 2 and 3 slots with buckets of 2, 4 keys, 3 rules of which one is a prefix of another, 2 patterns, 5 calls: slots come round to positions beyond the array, rings run empty under old and new keys, buckets refuse, the lpm index wraps and the lpm fills up | holds |
| `data_plane` | is each packet sent or freed once, in order, in the end; is it treated by its own entries; does a message change what it should? | 2 ports, bursts of 2, 3 packets, so that a descriptor is used again; a ttl of 0; 1 message out of 4 kinds at any moment | holds |

What the two violated runs show.

1. `thread_pool_race`. `do_work` unlocks `qlock` and then waits; a dispatch
   between the two signals nobody, and every thread blocks with a job in the
   list. threadpool.h promises that a dispatched job gets a thread. The callers
   sleep for a second between creating the pool and dispatching.
2. `backend_exhausted`. `create_digest` returns 0 when the pool is empty and says
   so, but its callers dereference the result at once; so does
   `backend_processor` with its cell. After a refused connection nothing ever
   drains the output queue, and the 1001st digest ends the process.

Deadlock is not checked where the program really stops: a process that died, a
pool destroyed, a start-up that failed, all bounded inputs used up with every
thread waiting. `msg_fifo`, `replica_tables` and `mac_learning` do check it.

Every unbounded quantity has a named bound: `MaxMsgs`, `MaxDigests`, `MaxConns`,
`MaxUpdates`, `MaxUnderWay`, `MaxTodo`, `WireSize`, `NumJobs`, `NetSize`,
`MaxCalls`, `MaxPkts`, `MaxChanges`. The real sizes (1000 cells, queues of 1024, 3 threads, 256 values,
bursts of `MAX_PKT_BURST`, `MAX_MACS`, `MAX_CHECK_TIME`, the limits of dpdk_lib.h)
appear as constants; of the sizes of the backend the modules assume only what
the code gives, that a queue has at least as many slots as the pool has cells.
In `MacLearning`, `MaxUnderWay` = 1 and `MaxTodo` = 2 bound arrivals only: each
of the two lcores may still add a digest after it, the four messages for them and
those of `init` meet queues of 2, and the theorems hold for any values.
`WireSize` = 1 bounds what is between the controller's output queue and the
tables, so that the queue fills up behind it. The small instances meet every
boundary there is: empty, full, wrapped and exhausted.

What the passing runs say that may surprise. `ExactFindsNewest` and
`LpmFindsLongest` hold with conditions that the code does not check. In a table
of up to 256 slots an exact lookup finds what was accepted last for its key. In
a larger one (routable and switching are configured for 4096) that is certain
for 256 calls only, however few keys there are: a call for an old key puts the
slot it took back at the end of the ring, so the next new key gets a position
further on, and positions meet modulo 256. When a table has no free slot, a call
for an old key is refused too; the key keeps its value, and the refused value
overwrites the pointer at 228, which may be another key's. What a lookup never
finds is a value older than its own. The same holds of 256 additions to the lpm
table, where adding an old route again takes a new number. `TernaryFindsFirst` needs an entry: the loop of
`naive_ternary_lookup` leaves `match` at 1 and `res` null for an empty table, which
an lcore meets that receives before lcore 2 has loaded the acl.

Some properties of `Startup` and `MacLearning` name what the code does not give.
`TablesInUse` asks for the active replica only with NUMA awareness or all lcores
on socket 0, and for the static entries only until the first update;
`EgressIsForDestination` excepts packets that are looked up before the controller
has set its default actions, which leave as the packet before them did.
`SourcesAreDestinations` excepts addresses for which an entry of dmac met a full
output queue: the entry of smac may find room again a moment later, and the
switch then broadcasts to that station for ever; without the exception TLC finds
it violated. `AddressIsLearned` excepts an output queue that is full again and
again: with one lcore and `MaxUnderWay` = 4 the answers to a station can be
dropped every time, and TLC finds the property without the exception violated.

Seen while modelling, without a property of its own:

* `--no-numa` puts every lcore on the tables of socket 0, but `change_replica`
  (DP/data_plane/dpdk_lib.c:634) still compares `rte_lcore_to_socket_id`: an
  lcore of another socket stays on the replica that is changed next. With
  `NumaOn = FALSE` in `MCReplicaTables.cfg`, TLC finds `NoChangeUnderLookup`
  violated.
* lcore 2 loads the static entries into one replica only
  (DP/main_loop.c:1094). The first update of the controller switches to the
  other, and they are gone. Without `updates = 0` TLC finds `TablesInUse` violated.
* The command line: `-P` has no effect, since promiscuous mode is entered anyway;
  an invalid mask, or 0, enables all ports; the option after `--enable-jumbo` is
  swallowed unless it is `--max-pkt-len`, and the list of options for that second
  `getopt_long` has no end mark; an empty `--config` is accepted, so that nothing
  is polled and the program returns; the same queue may be given to two lcores,
  which then poll it without a lock.
* `send_packets` sends to the partner port even if that port is not enabled.
* A station that moves is not learned again: its source is found in smac, so the
  switch makes no digest, and dmac keeps the first port (`LearnedWhereSeen` says
  "has been seen", not "was seen last").
* `read_macs` of the controllers cuts the last character of a line, also where
  the file ends without a newline.
* The digest of l2l3_acl has the fields ingress_port, srcAddr, vid
  (GEN/actions.c:50-70), but dpdk_l2_l3_controller.c, started for it by run.sh:15,
  reads the address first.
* `select`'s `accept` (CP/controller.c:202) reads a length nobody has set.
* An `exact_add` that fails (DP/data_plane/dpdk_tables.c:331) is not noticed: the
  position is unsigned, so -28 (no space) becomes index 228 of the 256 pointers,
  and the value of whichever key is there changes. It fails for a new key of a
  full table, for one whose buckets are full, and for an old key of a full table.
* A message that finds the controller's output queue full is dropped, and nobody
  is told: `fifo_add_msg` (CP/fifo.c:58) returns the queue in either case, so
  `send_p4_msg` (CP/controller.c:249) never prints its `ERR!!`. `init` of
  dpdk_controller.c sends up to 120002 messages into 1024 slots without a pause.
* The rows written for the product tables 2, 3 and 5 in DP/main_loop.c:601-897
  differ from each other where the single tables agree. Of these tables,
  `init_all_real` fills none that the configured pipeline reads.
* `table_routing_key` (GEN/dataplane.c:68) reads the source address, where
  routing.p4 names `dstAddr`, and reads its bytes without a conversion. On a
  little-endian machine an lpm rule of 24 bits therefore matches the last three
  bytes. `init_all_real` adds its rules in the same order; `routing_add`
  (GEN/controlplane.c:97) turns the bytes round, so that a prefix sent by a
  controller matches addresses that end in it, backwards. The model does as the
  code does.
* `action_code_set_nhop` does not write the vid, as routing.p4 would have it.
* `update_packet` (GEN/dataplane.c:717) computes the checksum without clearing the
  old one first.
* `parse_state_parse_tcp` (GEN/parser.c) advances the array `buf`, not
  `buf[i]`; what it computes is not used.
* The default branch of `handle_p4_msg` (CP/handlers.c:49) calls back with a
  `ctrl_m` that nothing was written to.
* `vlan_ingress_proc_add_table_entry` (GEN/controlplane.c:118) passes a constant
  of an enum as a pointer, so the first such message would end the process; these
  messages are not among the model's inputs.
* `send_packets` sends to the partner of the receive port. It looks neither at
  `egress_spec` nor at `dropped`, so neither forward nor `_drop` has an effect.
* The controller programs fill tables of other P4 programs (smac, dmac,
  ipv4_lpm ...). This switch has none of them and ignores the messages, which
  `TablesFollowMessages` includes as a case.

## Fairness

* `MsgFifo`: a consumer that can take a step takes it (weak). Nothing is assumed
  of producers or spurious wake-ups.
* `ThreadPool`: a thread that wants the mutex gets it at some time (strong
  fairness of `do_work`, because the mutex is taken and released by others in
  between), and the caller dispatches its jobs. A job need not end, as the jobs
  of this program never do; `EveryJobStarts` allows for a pool that is busy.
* `CtrlPlaneBackend`: the threads run, an lcore sends a digest it created, and
  the controller reads what it is sent. The last one is needed for
  `EveryDigestWritten`: a controller that stops reading blocks `write` for ever.
  Nothing is assumed about disconnection or `stop_backend`.
* `ReplicaTables`: the control plane's thread runs, and no lookup lasts for ever.
* `DataPlane`: the lcore goes on with its loop, which never blocks, and the time
  stamp counter grows (`tick`). Nothing is assumed of arrivals or of the NIC: a
  packet it does not take is freed.

* `Startup`: `main` and each lcore run (weak). Devices may fail and links may stay
  down; nothing is assumed of them, nor of the control plane.
* `MacLearning`: lcores, the switch's receiving thread and the controller's
  `init`, reading loop, digest handler and `output_processor` run (weak). Every station goes on sending: strong fairness,
  because `MaxUnderWay` may block an arrival from time to time; a station that
  falls silent is not learned, and need not be. Nothing is assumed of the
  connection.

They are what an operating system's scheduler gives to threads that do not
block, and DPDK to its pinned lcores.

## Assumptions that the code does not enforce

* `Settled` (ThreadPool): a dispatch finds no thread on its way into
  `pthread_cond_wait`. The `sleep(1)` after `create_threadpool` and between
  dispatches makes it so in practice; `thread_pool_race` shows it is needed. In
  controller.c the dispatch for the next connection may follow the last one of
  the connection before without a sleep. `Controller` therefore models the
  lists and signals in that case, but still assumes that no dispatch meets a
  thread that has just unlocked.
* `DelaySuffices` (ReplicaTables): `TABCHANGE_DELAY` outlasts any lookup begun
  before it. Nothing in the code makes sure of it: an lcore may be delayed for
  longer than 50 us while the values of its lookups are in use. (The one sleep in
  an action, in `mac_learn`, GEN/actions.c:58, cannot be reached: no table of the
  configured pipeline is given that action.) With `DelaySuffices = FALSE`, TLC
  finds `NoChangeUnderLookup` violated.
* `NumaOn` (ReplicaTables): the switch is not started with `--no-numa`, or the
  lcores are on socket 0; see above what happens otherwise.
* Both peers send whole, well-formed messages below the size limit, as the two
  programs of the repository do. Partial reads are not modelled.

## Proofs

| theorem | statement | argument |
|---|---|---|
| MsgFifo: `TypeCorrect`, `WakeupKept`, `RingCorrect`, `RingImplementsQueue` | indices in range; a queued message finds a consumer awake; the ring is a bounded queue | `RingInv`, `tail + 1 = head + size` modulo the size, makes the slot after `tail` the end of the abstract queue; modular lemmas show that an add does not touch the other slots |
| MemCellPool: `TypeCorrect`, `ListsAreChains`, `UsedListIsLinked`, `PoolImplementsCellPool` | pointers are cells or null; both lists are chains; the pool implements `CellPool` | `PoolInv`: each list is a `Chain`, described by a rank for each cell, its distance from null, which needs no recursion; in the used list `prev` is inverse to `next` |
| MemCellPool: `ListsArePartition` | walking both lists meets every cell once, so that `destroy_backend` frees each once | `PoolInv` again. The ranks of a chain have no gap (`ChainHasAll`) and no more than `PoolSize` values (a pigeonhole argument), so that the recursive walk meets after `i` steps the cell whose rank is `i` below the head's, and null once all were met |
| CtrlPlaneBackend: `TypeCorrect`, `TypesAreKept`, `CellsStayExclusive`, `NothingIsDropped` | types; a cell is in one place; no queue overflows | `TypeInv` says where in its loop a thread has a cell; exclusive cells make a queue an injective sequence, so it is never longer than the pool minus the cell in hand (a pigeonhole argument with `FiniteSetTheorems`) |
| CtrlPlaneBackend: `StreamsAreKept` | until a shutdown the messages a controller sent and the digests of the lcores are where they should be, in order and with the contents sent | inductive with what the theorems above say (`Known`). What is handled, in the hand of `input_processor`, in the input queue (read through `data`), in the cell being filled and in the socket make, one after the other, what was sent. Each step moves one message from the front of one part to the end of the next; exclusive cells are why writing a cell changes no other part, and since nothing is dropped every add succeeds |
| CtrlPlaneBackend: `LeaksAreBounded` | a cell is lost only when the connection ends, and then two at most | `LeakInv` says it without counting: none is lost while the connection is up or reset, one (if any) after an end of file or a reset was met, two after both. Only the two steps of `backend_processor` that meet the end lose a cell, each the one in its hand; every other step leaves each cell `Placed` |
| ReplicaTables: `TypeCorrect`, `LookupsUndisturbed`, `ReplicasAgree`, `TableImplementsView` | an instance never changes under a lookup; replicas agree between updates; lcores see updates whole and in order | the inductive invariant says which instances hold the update under way at each place of the loops, where each lcore's pointer is, and that after the delay no lookup is in an instance still to be changed |
| Startup (Programs_proofs): `PollingIsReady`, `PollingUsesTables` | an lcore that polls has its queues, pool and transmit queues; it uses existing tables and the active replica | `ReadyInv` says for each place of `main` which part of the set-up is complete, with the loops over ports done up to `portid`; that no transmit queue is shared rests on the ranks of two lcores differing (cardinalities, `RankIsUnique`). `TableInv` does the same for the tables, with the control plane switching replicas beside it |
| Startup (Programs_proofs): `StartupTypes` | types of options, devices, links and lcores, for every command line | the number of receive queues of a port is the maximum of the queue numbers in the configuration, which exists because a queue number is a byte (`LeastNatural`) |
| Controller (Programs_proofs): `QueuesAlwaysServed` | from the `init` of the first switch on each queue has a thread or gets one | `InTurn`: no job ends, so those taken are the first ones dispatched, by turns an `output_processor` and an `input_processor`. `ServedInv`: the first two jobs have a thread or at least as many woken threads as jobs up to them; of later jobs that is false |
| Controller (Programs_proofs): `OrderIsKept` | digests of a switch are handled in the order sent, messages written in the order of the calls | `InTurn` again: three threads never run a second `input_processor`, nor, for the first connection, a second `output_processor`. `DigestsInv` and `MessagesInv` then say that what is handled, in hand and queued is in order and older than what is on the way; taking an element into a hand and finishing it leaves the three the same sequence (`ThroughHand`) |
| LookupTables (Tables_proofs): `ExactAlwaysFindsNewest` | a key finds the value accepted last for it while no two keys can share a pointer, unless a refused call wrote over it, and never an older one; only full tables and buckets refuse | `Slots`: positions and ring together are the slots, each once. `FreshSlots`: after `n` calls the ring still starts with slot `n`, `n + 1` ..., so that no position is beyond the calls made. `Accepted`: every key with an accepted call has a position, and which calls are refused. `ExactContent`: the pointer of a key holds the number of a call not older than the key's newest accepted one, and that one or a refused one in a `roomy` table, where different positions do not meet modulo `TABLE_MAX` |
| LookupTables (Tables_proofs): `LpmAlwaysFindsLongest` | an address finds the value added last for its longest prefix, or a newer one | `LpmInv`: `size` is as far beyond the index of a rule, modulo `TABLE_MAX`, as there were additions since, so that its slot is overwritten after `TABLE_MAX` of them and not before |
| LookupTables (Tables_proofs): `TernaryAlwaysFindsFirst` | the loop returns the first entry that matches | `TernaryInv`: the entries are the calls, in their order. The loop is a recursive function; no round is the first to differ from what it should compute (`RoundsAre`) |
| MacLearning: `TypeCorrect`, `KnownSources`, `LearnedPorts`, `EgressKept` | types; a source in smac has an entry in dmac unless one was dropped; ports in dmac were seen or are listed; packets leave for such a port or for all | `OrderInv`: in the output queue behind the wire (`pipe`), in what `init` and in what the digest handler have still to send, an entry of smac is behind one of dmac for its address, or the address is `settled`: dmac has it already, or an entry was dropped. Adding at the end, dropping, taking from the front and losing the end keep that (`Sending`, `Dropping`, `Arriving`, `Cut`), and moving a message from the queue to the wire changes nothing (`Piping`). `LearnInv` is the same idea for contents: nothing under way says more than what was seen |
| DataPlane: `TypeCorrect`, `Conserved`, `InOrder`, `Treated` | a received packet is in exactly one place; a port sends in the order of arrival; a packet is treated by the entries for its own keys that were in the tables during its batch | `Handed`: the packets up to `done` are split between buffers, wires and `freed`, and each port's wire and buffer increase; `CutBurst` is the lemma on what a burst cut anywhere does to a sequence, `SplitSend` what it does to the sets. `Treating` says after each stage which states of the tables account for a packet's headers, its cached ttl and its diversion |
| DataPlane: `MessagesFollowed` | a message changes exactly the entry or default action that was asked for | the buffer that the controller's loops write has a closed form (`EntryWritten`: field `j` at `fieldAt(j)`, the action behind the fields, parameter `j` behind it), as has the walk of the switch over it (`EntryRead`), and both name the same places; `htons` twice is the identity below 2^16 (`HtonsTwice`), so that the conversions cancel, and turning an address round twice does too |
| ThreadPool: `TypeCorrect`, `EachJobOnce` | no job is started twice, no null head is taken, `qsize` counts the list | `Exclusion`: a thread in the queue with a job to take is alone there, because the threads that unlock `qlock` for others have seen `qsize = 0` and no job is added before they are blocked |

The theorems of `ThreadPool` assume `Settled`; without it the invariant is not
inductive (`dispatch_locks` breaks `Exclusion`). The theorems of `ReplicaTables`
assume `NumaOn` and, for `LookupsUndisturbed`,
`DelaySuffices`; all others assume only the modules' `ASSUME`s, which TLC
evaluates in the runs. Three of those say more than that a size is a number.
`ControllerAssumption` fixes the pool at three threads, as controller.c does
(`OrderIsKept` is false for four). `CommandLinesAssumption` says
that `--config` gives lists of natural numbers, which is what `strtoul` returns.
`ChangesAssumption` says that a message fits a cell, that bytes and prefixes are
bytes, and that nobody sends entries for `vlan_ingress_proc`, which no
program does. The properties themselves are seldom inductive: that a
cell in a queue is not free, say, follows only with the knowledge of which
thread holds which cell at which place of its loop.

The prover has no induction rule that can be used: the rules of the library take
an operator. Where a loop, a walk along a list or a maximum needs induction, the
proofs take the least number for which the claim fails (`LeastNatural`, from
`WFMin` of `WellFoundedInduction`) and refute it from the number before.

Only model-checked: liveness (`EveryMsgTaken`, `EveryJobStarts`,
`EveryMsgHandled`, `EveryDigestWritten`, `EveryUpdateSeen`, `EveryPacketLeaves`,
`StartsOrExits`, `AddressIsLearned`), which is out of TLAPS's reach under
fairness. Every invariant and every refinement a passing run checks is a theorem.

## Plan

Done, in this order: MemCellPool, MsgFifo, ThreadPool, CtrlPlaneBackend
(composing the first two), ReplicaTables, Controller; the proofs of MsgFifo,
MemCellPool, CtrlPlaneBackend and ReplicaTables; LookupTables, DataPlane with
ControlMessages; Startup and MacLearning (the digests that were planned for
ControlMessages are there, with the controller that answers them) and the proofs
of both; the proofs of DataPlane and ThreadPool; the proofs of the backend's
streams and leaks, of LookupTables, of Controller, of the walk over the cells, of
the types of Startup, and of the way of a message through ControlMessages.

Dropped: a module for the product tables. The functions that would fill them are
there, but `init_all_real` leaves the table of the configured pipeline
(product 5) empty, so nothing the program does depends on them.

Left: an abstract specification of the controller's promise to one switch, an
ordered pair of streams as in MacLearning, that CtrlPlaneBackend and Controller
refine.

## Not modelled

* The freescale back end, which this configuration does not build, and the
  Python compiler, whose result is the generated code.
* Of the messages: ternary, range and valid fields, names of fields and
  parameters, and the hello messages. Nothing on the switch side reads them.
* Of the pipeline: the checksum, the tables that hold `_nop` only, and the product
  tables.
* Registers and counters: nothing in the configured program uses them.
  `destroy_controller`, `fifo_destroy` and `destroy_threadpool` beyond what they
  do to the process; `shutdown` and `dont_accept` of the pool, never set.
* Broadcast and multicast in DP/main_loop.c, which have no caller. Of the variants
  of the loop without network interfaces, main_loop_no_nic_l2.c is in MacLearning,
  as far as its pipeline goes; the packets they make up are not.
* EAL's own options and what happens inside DPDK; the controller programs for
  other P4 programs beyond the pattern of their messages (`test_learn_ip` answers a
  digest no example sends); logging, examples and scripts.
