------------------------------- MODULE Startup -------------------------------
(***************************************************************************)
(* From main to packets: the command line, the checks and the set-up of    *)
(* ports, queues and memory pools by initialize (dpdk_lib.c), the launch   *)
(* of the lcores (main_loop.c), and the replica switches of the control    *)
(* plane, which runs while the lcores start.                               *)
(*                                                                         *)
(* main is one thread, so a function of the start-up is one step, or one   *)
(* per option, port or round where the code loops; every call of DPDK may  *)
(* fail, which ends the process (rte_exit).  A port mask is the set of its *)
(* bits; the empty one stands for text that is no number, and for zero.  A *)
(* triple of --config is <<port, queue, lcore>>, a tuple of another length *)
(* stands for malformed text.                                              *)
(*                                                                         *)
(* Of a table update only the switch of the pointers is here, socket by    *)
(* socket; ReplicaTables has the rest.                                     *)
(***************************************************************************)
EXTENDS Integers, Sequences, FiniteSets, FiniteSetsExt

CONSTANTS CommandLines,   \* the sequences of options main may be called with
          Topologies,     \* functions rte_lcore_to_socket_id may be
          Lcores,         \* the lcores EAL enables
          DeviceCount,    \* rte_eth_dev_count
          MaxEthPorts,         \* RTE_MAX_ETHPORTS
          NbSockets,           \* NB_SOCKETS
          NbReplica,           \* NB_REPLICA
          MaxRxQueuePerLcore,  \* MAX_RX_QUEUE_PER_LCORE
          MaxRxQueuePerPort,   \* MAX_RX_QUEUE_PER_PORT
          MaxTxQueuePerPort,   \* MAX_TX_QUEUE_PER_PORT
          MaxLcoreParams,      \* MAX_LCORE_PARAMS
          MaxCheckTime,        \* MAX_CHECK_TIME
          MaxUpdates           \* bound: replica switches

\* The lcore that loads the static entries, and the size of enabled_port_mask.
StaticLcore == 2
MaskBits    == 0 .. 31

nb_ports == IF DeviceCount > MaxEthPorts THEN MaxEthPorts ELSE DeviceCount
PortIds  == 0 .. nb_ports - 1
Sockets  == 0 .. NbSockets - 1
Replicas == 0 .. NbReplica - 1

ASSUME StartupAssumption ==
  /\ Lcores \subseteq Nat /\ IsFiniteSet(Lcores) /\ Lcores # {}
  /\ \A topology \in Topologies : topology \in [Lcores -> Nat]
  /\ DeviceCount \in Nat /\ MaxEthPorts \in Nat
  /\ NbSockets \in Nat \ {0}
  /\ NbReplica \in Nat \ {0}
  /\ MaxRxQueuePerLcore \in Nat /\ MaxRxQueuePerPort \in Nat
  /\ MaxTxQueuePerPort \in Nat
  /\ MaxLcoreParams \in Nat
  /\ MaxCheckTime \in Nat \ {0}
  /\ MaxUpdates \in Nat

\* strtoul gives the numbers of a triple.
ASSUME CommandLinesAssumption ==
  \A line \in CommandLines :
    /\ line \in Seq({line[i] : i \in DOMAIN line})
    /\ \A i \in DOMAIN line :
          line[i].opt = "config" => line[i].triples \in Seq(Seq(Nat))

VARIABLES
  pc,              \* the function main is in
  args,            \* the options still to be parsed
  conf,            \* what the options set
  socket_of,       \* rte_lcore_to_socket_id
  rx_queue_list,   \* per lcore, the positions in lcore_params of its queues
  tx_queue_id,     \* per lcore and port, its transmit queue
  dev,             \* the ports, as DPDK knows them
  pktmbuf_pool,    \* the sockets with a pool
  portid,          \* the counter of the loops over ports
  count, print_flag,  \* of check_all_ports_link_status
  tables,          \* the sockets whose state has tables and counters
  active_replica,  \* state[socket].active_replica
  instance,        \* per lcore, what lcore_conf.state.tables points to
  loaded,          \* the instances that hold the static entries
  controlled,      \* the control plane is connected
  updates,         \* the replica switches so far
  lcore            \* what each lcore does

config == <<args, conf, socket_of>>
queues == <<rx_queue_list, tx_queue_id, dev, pktmbuf_pool>>
loops  == <<portid, count, print_flag>>
state  == <<tables, active_replica, instance, loaded>>
later  == <<controlled, updates, lcore>>
vars   == <<pc, config, queues, loops, state, later>>

Null   == <<>>
Params == {conf.lcore_params[i] : i \in DOMAIN conf.lcore_params}

\* get_socketid: the socket whose memory an lcore uses.
get_socketid(l) == IF conf.numa_on THEN socket_of[l] ELSE 0

SocketsInRange == \A l \in Lcores : get_socketid(l) < NbSockets

-----------------------------------------------------------------------------

lcore_params_array_default ==
  << <<0, 0, 2>>, <<0, 1, 2>>, <<0, 2, 2>>, <<1, 0, 2>>, <<1, 1, 2>>,
     <<1, 2, 2>>, <<2, 0, 2>>, <<3, 0, 3>>, <<3, 1, 3>> >>

Init ==
  /\ pc = "parse_args"
  /\ args \in CommandLines
  /\ conf = [enabled_port_mask |-> {}, numa_on |-> TRUE, jumbo_frame |-> FALSE,
             max_rx_pkt_len |-> 1518,
             lcore_params |-> lcore_params_array_default]
  /\ socket_of \in Topologies
  /\ rx_queue_list = [l \in Lcores |-> {}]
  /\ tx_queue_id = [l \in Lcores |-> [p \in PortIds |-> 0]]
  /\ dev = [p \in PortIds |-> [nb_rxq |-> 0, txq |-> {}, rxq |-> {},
                               started |-> FALSE]]
  /\ pktmbuf_pool = {}
  /\ portid = 0 /\ count = 0 /\ print_flag = FALSE
  /\ tables = {}
  /\ active_replica = [s \in Sockets |-> 0]
  /\ instance = [l \in Lcores |-> Null]
  /\ loaded = {}
  /\ controlled = FALSE /\ updates = 0
  /\ lcore = [l \in Lcores |-> "wait"]

\* The process ends; with it the threads of the control plane.
rte_exit == /\ pc' = "exited"
            /\ UNCHANGED <<config, queues, loops, state, later>>

\* Functions that only decide whether main goes on.
check(place, ok, next) ==
  /\ pc = place
  /\ \/ /\ ok
        /\ pc' = next
        /\ UNCHANGED <<config, queues, loops, state, later>>
     \/ ~ ok /\ rte_exit

-----------------------------------------------------------------------------
(* parse_args, option by option.                                           *)

\* The -1 for invalid text or zero becomes a mask of ones; of a longer mask
\* the low 32 bits remain.
parse_portmask(bits) == IF bits = {} THEN MaskBits ELSE bits \cap MaskBits

\* The triples end in lcore_params if all of them can be read.
parse_config(triples) ==
  /\ Len(triples) <= MaxLcoreParams
  /\ \A i \in DOMAIN triples :
        Len(triples[i]) = 3 /\ \A j \in 1 .. 3 : triples[i][j] <= 255

takes(options, new) == /\ args' = options
                       /\ conf' = new
                       /\ UNCHANGED <<pc, socket_of, queues, loops, state,
                                      later>>

option_p(bits) ==
  IF parse_portmask(bits) = {}
  THEN rte_exit
  ELSE takes(Tail(args),
             [conf EXCEPT !.enabled_port_mask = parse_portmask(bits)])

option_config(triples) ==
  IF parse_config(triples)
  THEN takes(Tail(args), [conf EXCEPT !.lcore_params = triples])
  ELSE rte_exit

option_no_numa == takes(Tail(args), [conf EXCEPT !.numa_on = FALSE])

\* Promiscuous mode is entered whatever -P says; --hash-entry-num is unused.
option_without_effect == takes(Tail(args), conf)

\* Seeded bug: the length is not checked.
parse_max_pkt_len_unchecked(len) == TRUE

parse_max_pkt_len(len) == len \in 64 .. 9600

\* A second getopt_long takes the next option, and knows --max-pkt-len only:
\* another one is swallowed.  Its list of options has no end mark, so that a
\* long option may also end the process.
option_enable_jumbo ==
  LET jumbo == [conf EXCEPT !.jumbo_frame = TRUE]
      rest  == Tail(args)
  IN  IF rest = <<>>
      THEN takes(rest, jumbo)
      ELSE IF Head(rest).opt = "max-pkt-len"
      THEN IF parse_max_pkt_len(Head(rest).len)
           THEN takes(Tail(rest),
                      [jumbo EXCEPT !.max_rx_pkt_len = Head(rest).len])
           ELSE rte_exit
      ELSE \/ takes(Tail(rest), jumbo)
           \/ Head(rest).opt \notin {"p", "P"} /\ rte_exit

parse_option ==
  /\ pc = "parse_args"
  /\ args # <<>>
  /\ LET o == Head(args)
     IN  \/ o.opt = "p" /\ option_p(o.mask)
         \/ o.opt \in {"P", "hash-entry-num"} /\ option_without_effect
         \/ o.opt = "config" /\ option_config(o.triples)
         \/ o.opt = "no-numa" /\ option_no_numa
         \/ o.opt = "enable-jumbo" /\ option_enable_jumbo
         \/ o.opt \in {"max-pkt-len", "unknown"} /\ rte_exit

options_end == args = <<>> /\ check("parse_args", TRUE, "check_lcore_params")

-----------------------------------------------------------------------------
(* initialize after parse_args.                                            *)

check_lcore_params ==
  check("check_lcore_params",
        \A t \in Params : t[2] < MaxRxQueuePerPort /\ t[3] \in Lcores,
        "init_lcore_rx_queues")

init_lcore_rx_queues ==
  LET list(l) == {i \in DOMAIN conf.lcore_params : conf.lcore_params[i][3] = l}
  IN  /\ pc = "init_lcore_rx_queues"
      /\ IF \A l \in Lcores : Cardinality(list(l)) <= MaxRxQueuePerLcore
         THEN /\ rx_queue_list' = [l \in Lcores |-> list(l)]
              /\ pc' = "check_port_config"
              /\ UNCHANGED <<config, tx_queue_id, dev, pktmbuf_pool, loops,
                             state, later>>
         ELSE rte_exit

check_port_config ==
  check("check_port_config",
        \A t \in Params : t[1] \in conf.enabled_port_mask /\ t[1] \in PortIds,
        "init_port")

\* One more than the highest queue: queues below it count even if no lcore
\* has them.
get_port_n_rx_queues(p) ==
  1 + Max({-1} \cup {t[2] : t \in {u \in Params : u[1] = p}})

\* The number of lcores before l in the loop over lcore_id.
\* Seeded bug: queueid is incremented before it is stored.
tx_queue_rank_after(l) == Cardinality({k \in Lcores : k <= l})

tx_queue_rank(l) == Cardinality({k \in Lcores : k < l})

\* A pool of packets for each socket with an lcore.
init_mem == pktmbuf_pool' = pktmbuf_pool \cup {get_socketid(l) : l \in Lcores}

\* A port is configured, the pools are made, and each lcore gets a transmit
\* queue.  There are at most MAX_TX_QUEUE_PER_PORT
\* of them, and setting up one more is an error.
init_port ==
  /\ pc = "init_port"
  /\ portid < nb_ports
  /\ \/ /\ portid \notin conf.enabled_port_mask
        /\ portid' = portid + 1
        /\ UNCHANGED <<pc, config, queues, count, print_flag, state, later>>
     \/ /\ portid \in conf.enabled_port_mask
        /\ SocketsInRange /\ Cardinality(Lcores) <= MaxTxQueuePerPort
        /\ dev' = [dev EXCEPT
                     ![portid].nb_rxq = get_port_n_rx_queues(portid),
                     ![portid].txq = 0 .. Cardinality(Lcores) - 1]
        /\ init_mem
        /\ tx_queue_id' = [l \in Lcores |->
             [tx_queue_id[l] EXCEPT ![portid] = tx_queue_rank(l)]]
        /\ portid' = portid + 1
        /\ UNCHANGED <<pc, config, rx_queue_list, count, print_flag, state,
                       later>>
     \/ /\ portid \in conf.enabled_port_mask
        /\ ~ SocketsInRange \/ Cardinality(Lcores) > MaxTxQueuePerPort
        /\ rte_exit

ports_are_done == portid = nb_ports /\ check("init_port", TRUE, "init_rx")

\* The queues of an lcore.
polled(l) == {<<conf.lcore_params[i][1], conf.lcore_params[i][2]>> :
                i \in rx_queue_list[l]}

init_rx_queues ==
  LET all == UNION {polled(l) : l \in Lcores}
  IN  /\ pc = "init_rx"
      /\ IF \A q \in all : q[2] < dev[q[1]].nb_rxq
         THEN /\ dev' = [p \in PortIds |->
                   [dev[p] EXCEPT !.rxq = {q[2] : q \in {r \in all : r[1] = p}}]]
              /\ pc' = "start_port"
              /\ portid' = 0
              /\ UNCHANGED <<config, rx_queue_list, tx_queue_id, pktmbuf_pool,
                             count, print_flag, state, later>>
         ELSE rte_exit

start_port ==
  /\ pc = "start_port"
  /\ portid < nb_ports
  /\ dev' = [dev EXCEPT ![portid].started =
                          @ \/ portid \in conf.enabled_port_mask]
  /\ portid' = portid + 1
  /\ UNCHANGED <<pc, config, rx_queue_list, tx_queue_id, pktmbuf_pool, count,
                 print_flag, state, later>>

ports_are_started == portid = nb_ports /\ check("start_port", TRUE, "links")

\* A call of DPDK for a port or a queue fails, or a pool cannot be made.
device_fails == pc \in {"init_port", "init_rx", "start_port"} /\ rte_exit

\* One round: the links are up or not; once print_flag is set the next round
\* is the last one.
check_link_status ==
  /\ pc = "links"
  /\ \/ /\ ~ print_flag /\ count <= MaxCheckTime
        /\ \E all_ports_up \in BOOLEAN :
              print_flag' = (all_ports_up \/ count = MaxCheckTime - 1)
        /\ count' = count + 1
        /\ UNCHANGED pc
     \/ /\ print_flag \/ count > MaxCheckTime
        /\ pc' = "init_memories"
        /\ UNCHANGED <<count, print_flag>>
  /\ UNCHANGED <<config, queues, portid, state, later>>

\* The instances of all tables; the first replica is active.
create_tables_on_socket(sockets) ==
  /\ tables' = sockets
  /\ active_replica' = [s \in Sockets |-> IF s \in sockets THEN 0
                                         ELSE active_replica[s]]

\* Tables, once for each socket with an lcore.  Counters and registers, made
\* beside them, are not used by the program.
init_memories ==
  /\ pc = "init_memories"
  /\ IF SocketsInRange
     THEN /\ create_tables_on_socket({get_socketid(l) : l \in Lcores})
          /\ pc' = "init_lcore_confs"
          /\ UNCHANGED <<config, queues, loops, instance, loaded, later>>
     ELSE rte_exit

\* Seeded bug: --no-numa is forgotten.
home_of_socket(l) == socket_of[l]

home(l) == get_socketid(l)

init_lcore_confs ==
  /\ pc = "init_lcore_confs"
  /\ instance' = [l \in Lcores |-> <<home(l), 0>>]
  /\ pc' = "init_control_plane"
  /\ UNCHANGED <<config, queues, loops, tables, active_replica, loaded, later>>

-----------------------------------------------------------------------------
(* main after initialize, the lcores, and the control plane's thread.      *)

\* The connection may be refused, and the data plane runs without it.
init_control_plane ==
  /\ pc = "init_control_plane"
  /\ controlled' \in BOOLEAN
  /\ pc' = "launch_dpdk"
  /\ UNCHANGED <<config, queues, loops, state, updates, lcore>>

\* Seeded bug: the master lcore is skipped (SKIP_MASTER).
launched_slaves == Lcores \ {Min(Lcores)}

launched == Lcores

launch_dpdk ==
  /\ pc = "launch_dpdk"
  /\ \/ rte_exit   \* a pool cannot be made
     \/ /\ lcore' = [l \in Lcores |->
                       IF l \in launched THEN "launched" ELSE lcore[l]]
        /\ pc' = "wait_lcores"
        /\ UNCHANGED <<config, queues, loops, state, controlled, updates>>

\* dpdk_main_loop up to its loop.
dpdk_main_loop(l) ==
  /\ pc = "wait_lcores"
  /\ lcore[l] = "launched"
  /\ lcore' = [lcore EXCEPT ![l] =
                 IF rx_queue_list[l] = {} THEN "returned" ELSE "polling"]
  /\ loaded' = IF l = StaticLcore /\ rx_queue_list[l] # {}
               THEN loaded \cup {instance[l]}
               ELSE loaded
  /\ UNCHANGED <<pc, config, queues, loops, tables, active_replica, instance,
                 controlled, updates>>

\* main has waited for all lcores.
main_returns == /\ \A l \in Lcores : lcore[l] = "returned"
                /\ check("wait_lcores", TRUE, "exited")

\* The control plane switches the lcores of a socket to the next replica.
change_replica(s) ==
  LET members == {l \in Lcores : socket_of[l] = s}
      next    == (active_replica[s] + 1) % NbReplica
  IN  /\ controlled /\ pc # "exited"
      /\ updates < MaxUpdates
      /\ instance' = [l \in Lcores |->
                        IF l \in members THEN <<s, next>> ELSE instance[l]]
      /\ active_replica' = [active_replica EXCEPT ![s] =
                              IF members = {} THEN @ ELSE next]
      /\ updates' = updates + 1
      /\ UNCHANGED <<pc, config, queues, loops, tables, loaded, controlled,
                     lcore>>

\* rte_eal_init is before Init; it fails by not getting there.
Main == \/ parse_option \/ options_end
        \/ check_lcore_params \/ init_lcore_rx_queues \/ check_port_config
        \/ init_port \/ ports_are_done \/ init_rx_queues
        \/ start_port \/ ports_are_started \/ check_link_status
        \/ init_memories \/ init_lcore_confs
        \/ init_control_plane \/ launch_dpdk \/ main_returns

Next == \/ Main
        \/ device_fails
        \/ \E l \in Lcores : dpdk_main_loop(l)
        \/ \E s \in tables : change_replica(s)

Spec == Init /\ [][Next]_vars

\* Threads run.  A device need not fail, and links need not come up.
FairSpec == /\ Spec
            /\ WF_vars(Main)
            /\ \A l \in Lcores : WF_vars(dpdk_main_loop(l))

-----------------------------------------------------------------------------
(* Properties                                                              *)

polls(l) == pc = "wait_lcores" /\ lcore[l] = "polling"

(* Type invariant: the values of the variables, with the frame length an   *)
(* ethernet device can be given.                                           *)
TypeOK ==
  /\ conf.enabled_port_mask \subseteq MaskBits
  /\ conf.numa_on \in BOOLEAN /\ conf.jumbo_frame \in BOOLEAN
  /\ conf.max_rx_pkt_len \in 64 .. 9600
  /\ \A l \in Lcores : rx_queue_list[l] \subseteq DOMAIN conf.lcore_params
  /\ tx_queue_id \in [Lcores -> [PortIds -> Nat]]
  /\ dev \in [PortIds -> [nb_rxq : Nat, txq : SUBSET Nat, rxq : SUBSET Nat,
                          started : BOOLEAN]]
  /\ pktmbuf_pool \subseteq Sockets
  /\ portid \in 0 .. nb_ports
  /\ count \in 0 .. MaxCheckTime + 1 /\ print_flag \in BOOLEAN
  /\ tables \subseteq Sockets
  /\ active_replica \in [Sockets -> Replicas]
  /\ instance \in [Lcores -> {Null} \cup (Nat \X Replicas)]
  /\ loaded \subseteq Nat \X Replicas
  /\ controlled \in BOOLEAN /\ updates \in 0 .. MaxUpdates
  /\ lcore \in [Lcores -> {"wait", "launched", "polling", "returned"}]

(* When an lcore polls, whatever the command line was: each of its receive *)
(* queues is set up on a started port that has so many queues, its socket  *)
(* has a pool of packets, and on every enabled port it has a transmit      *)
(* queue that is set up and no other lcore uses.  (There is no lock on a   *)
(* queue.)  Fails if a check of the start-up misses a case, or if one of   *)
(* the loops leaves a port, an lcore or a queue out.                       *)
QueuesReady ==
  \A l \in Lcores : polls(l) =>
    /\ get_socketid(l) \in pktmbuf_pool
    /\ \A q \in polled(l) : /\ q[1] \in conf.enabled_port_mask
                            /\ dev[q[1]].started
                            /\ q[2] < dev[q[1]].nb_rxq
                            /\ q[2] \in dev[q[1]].rxq
    /\ \A p \in conf.enabled_port_mask \cap PortIds :
          /\ tx_queue_id[l][p] \in dev[p].txq
          /\ \A k \in Lcores \ {l} : tx_queue_id[k][p] # tx_queue_id[l][p]

(* A polling lcore looks up in tables that exist, in the replica that the  *)
(* control plane takes for the active one of its socket, and, until the    *)
(* control plane has switched a replica, with the static entries if it is  *)
(* on the socket of the lcore that loaded them.  The second part needs     *)
(* change_replica to know the lcore's socket: with --no-numa it does not,  *)
(* unless all lcores are on socket 0.                                      *)
TablesInUse ==
  \A l \in Lcores : polls(l) =>
    /\ instance[l] # Null /\ instance[l][1] \in tables
    /\ conf.numa_on \/ (\A k \in Lcores : socket_of[k] = 0)
          => instance[l] = <<get_socketid(l), active_replica[get_socketid(l)]>>
    /\ updates = 0 /\ StaticLcore \in Lcores
          => (lcore[StaticLcore] = "polling"
                /\ get_socketid(l) = get_socketid(StaticLcore)
              => instance[l] \in loaded)

(* The start-up comes to an end: the process exits, or every lcore enters  *)
(* its loop or has nothing to do.  Links need not come up for it; what is  *)
(* waited for is bounded by MAX_CHECK_TIME rounds.                         *)
StartsOrExits ==
  <>(pc = "exited" \/ \A l \in Lcores : lcore[l] \in {"polling", "returned"})
=============================================================================
