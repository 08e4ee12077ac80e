--------------------------- MODULE Programs_proofs ---------------------------
(***************************************************************************)
(* Proofs about the two programs as they start up and run.                 *)
(*                                                                         *)
(* The switch, for every command line, any number of ports, lcores and     *)
(* sockets, and whatever device fails: an lcore that polls has its queues  *)
(* and its packets, and the tables in use.                                 *)
(*                                                                         *)
(* The controller, for every number of connections and digests, any size   *)
(* of its queues and any handlers: of every switch the digests are handled *)
(* in the order sent, and each queue has a thread.                         *)
(***************************************************************************)
EXTENDS Startup, Controller, FiniteSetTheorems, SequenceTheorems,
        WellFoundedInduction, TLAPS

(***************************************************************************)
(* The switch: operators of the model.                                     *)
(***************************************************************************)

(* Two lcores never have the same rank.                                    *)
LEMMA RankIsUnique ==
  ASSUME NEW k \in Lcores, NEW l \in Lcores, k # l
  PROVE  tx_queue_rank(k) # tx_queue_rank(l)
<1> DEFINE below(x) == {j \in Lcores : j < x}
<1>0. Lcores \subseteq Nat /\ IsFiniteSet(Lcores)
  BY StartupAssumption DEF StartupAssumption
<1>1. ASSUME NEW x \in Lcores, NEW y \in Lcores, x < y
      PROVE  Cardinality(below(x)) < Cardinality(below(y))
  <2>1. below(x) \subseteq below(y) /\ x \in below(y) /\ x \notin below(x)
    <3>1. x \in Nat /\ y \in Nat /\ \A j \in Lcores : j \in Nat
      BY <1>0
    <3>2. \A j \in Lcores : j < x => j < y
      BY <1>1, <3>1
    <3>3. x < y /\ ~ (x < x)
      BY <1>1, <3>1
    <3> QED BY <3>2, <3>3
  <2>2. IsFiniteSet(below(y))
    BY <1>0, FS_Subset
  <2> HIDE DEF below
  <2> QED BY <2>1, <2>2, FS_Subset, FS_CardinalityType
<1>2. k < l \/ l < k
  BY <1>0
<1>3. Cardinality(below(k)) # Cardinality(below(l))
  <2>1. IsFiniteSet(below(k)) /\ IsFiniteSet(below(l))
    BY <1>0, FS_Subset
  <2>2. Cardinality(below(k)) \in Nat /\ Cardinality(below(l)) \in Nat
    BY <2>1, FS_CardinalityType
  <2> HIDE DEF below
  <2> QED BY <1>1, <1>2, <2>2
<1> QED BY <1>3 DEF tx_queue_rank

(* A rank is the number of a transmit queue.                               *)
LEMMA RankIsQueue ==
  ASSUME NEW l \in Lcores
  PROVE  tx_queue_rank(l) \in 0 .. Cardinality(Lcores) - 1
<1> DEFINE below == {j \in Lcores : j < l}
<1>0. Lcores \subseteq Nat /\ IsFiniteSet(Lcores)
  BY StartupAssumption DEF StartupAssumption
<1>1. below \in SUBSET Lcores /\ below # Lcores
  <2>1. ~ (l < l)
    BY <1>0
  <2> QED BY <2>1
<1> HIDE DEF below
<1>2. /\ IsFiniteSet(below) /\ Cardinality(below) <= Cardinality(Lcores)
      /\ Cardinality(below) # Cardinality(Lcores)
  BY <1>0, <1>1, FS_Subset
<1>3. Cardinality(below) \in Nat /\ Cardinality(Lcores) \in Nat
  BY <1>0, <1>2, FS_CardinalityType
<1>4. Cardinality(below) \in 0 .. Cardinality(Lcores) - 1
  BY <1>2, <1>3
<1> QED BY <1>4 DEF tx_queue_rank, below

\* A record for each port.
ArePorts(d) ==
  \E V : d \in [PortIds -> [nb_rxq : V, txq : V, rxq : V, started : BOOLEAN]]

(***************************************************************************)
(* The inductive invariant: what each function of the start-up has reached *)
(* is still there when the lcores run.                                     *)
(***************************************************************************)

Enabled == conf.enabled_port_mask \cap PortIds

\* The places behind check_all_ports_link_status, those behind the loop over
\* ports, and those behind the checks.
Up        == {"links", "init_memories", "init_lcore_confs",
              "init_control_plane", "launch_dpdk", "wait_lcores"}
PortsDone == {"init_rx", "start_port"} \cup Up
Checked   == {"init_port"} \cup PortsDone

Shapes ==
  /\ portid \in Nat /\ (pc \in Checked \cup {"exited"} \/ portid = 0)
  /\ tx_queue_id \in [Lcores -> [PortIds -> Nat]]
  /\ ArePorts(dev)
  /\ lcore \in [Lcores -> {"wait", "launched", "polling", "returned"}]

\* The lists hold positions in lcore_params, which stays as it is.
ListsKept ==
  /\ rx_queue_list \in [Lcores -> SUBSET DOMAIN conf.lcore_params]
  /\ pc = "parse_args" => \A l \in Lcores : rx_queue_list[l] = {}

ParamsChecked == pc \in Checked => \A t \in Params : t[1] \in Enabled

SetUp(p) == /\ dev[p].txq = 0 .. Cardinality(Lcores) - 1
            /\ \A l \in Lcores : /\ tx_queue_id[l][p] = tx_queue_rank(l)
                                 /\ get_socketid(l) \in pktmbuf_pool

PortsSetUp ==
  /\ pc = "init_port" => \A p \in Enabled : p < portid => SetUp(p)
  /\ pc \in PortsDone => \A p \in Enabled : SetUp(p)

QueuesSetUp ==
  pc \in {"start_port"} \cup Up =>
    \A l \in Lcores : \A q \in polled(l) :
      q[2] < dev[q[1]].nb_rxq /\ q[2] \in dev[q[1]].rxq

PortsStarted ==
  /\ pc = "start_port" => \A p \in Enabled : p < portid => dev[p].started
  /\ pc \in Up => \A p \in Enabled : dev[p].started

LcoresWait ==
  \A l \in Lcores :
    /\ pc \notin {"wait_lcores", "exited"} => lcore[l] = "wait"
    /\ lcore[l] = "polling" => rx_queue_list[l] # {}

ReadyInv ==
  /\ Shapes /\ ListsKept /\ ParamsChecked /\ PortsSetUp /\ QueuesSetUp
  /\ PortsStarted /\ LcoresWait

(* The queues of an lcore are on ports that are enabled.                   *)
LEMMA PolledPorts ==
  ASSUME ListsKept, ParamsChecked, pc \in Checked, NEW l \in Lcores
  PROVE  /\ \A q \in polled(l) : q[1] \in Enabled
         /\ rx_queue_list[l] # {} => Enabled # {}
<1>1. ASSUME NEW i \in rx_queue_list[l]
      PROVE  conf.lcore_params[i][1] \in Enabled
  <2>1. conf.lcore_params[i] \in Params
    BY DEF ListsKept, Params
  <2> QED BY <2>1 DEF ParamsChecked
<1> QED BY <1>1 DEF polled

(* What is kept is enough for an lcore that polls.                         *)
LEMMA ReadyIsEnough == ReadyInv => QueuesReady
<1> SUFFICES ASSUME ReadyInv, NEW l \in Lcores, polls(l)
             PROVE  /\ get_socketid(l) \in pktmbuf_pool
                    /\ \A q \in polled(l) :
                         /\ q[1] \in conf.enabled_port_mask
                         /\ dev[q[1]].started
                         /\ q[2] < dev[q[1]].nb_rxq
                         /\ q[2] \in dev[q[1]].rxq
                    /\ \A p \in Enabled :
                         /\ tx_queue_id[l][p] \in dev[p].txq
                         /\ \A k \in Lcores \ {l} :
                              tx_queue_id[k][p] # tx_queue_id[l][p]
  BY DEF QueuesReady, Enabled
<1>1. pc = "wait_lcores" /\ rx_queue_list[l] # {}
  BY DEF polls, ReadyInv, LcoresWait
<1>2. /\ \A p \in Enabled : SetUp(p) /\ dev[p].started
      /\ pc \in Checked
  BY <1>1 DEF ReadyInv, PortsSetUp, PortsStarted, Up, PortsDone, Checked
<1>3. /\ \A q \in polled(l) : q[1] \in Enabled
      /\ Enabled # {}
  BY <1>1, <1>2, PolledPorts DEF ReadyInv
<1>4. get_socketid(l) \in pktmbuf_pool
  BY <1>2, <1>3 DEF SetUp
<1>5. ASSUME NEW q \in polled(l)
      PROVE  /\ q[1] \in conf.enabled_port_mask /\ dev[q[1]].started
             /\ q[2] < dev[q[1]].nb_rxq /\ q[2] \in dev[q[1]].rxq
  <2>1. q[1] \in Enabled
    BY <1>3
  <2> QED BY <1>1, <1>2, <2>1 DEF ReadyInv, QueuesSetUp, Enabled, Up
<1>6. ASSUME NEW p \in Enabled
      PROVE  /\ tx_queue_id[l][p] \in dev[p].txq
             /\ \A k \in Lcores \ {l} :
                  tx_queue_id[k][p] # tx_queue_id[l][p]
  <2>1. /\ dev[p].txq = 0 .. Cardinality(Lcores) - 1
        /\ \A k \in Lcores : tx_queue_id[k][p] = tx_queue_rank(k)
    BY <1>2 DEF SetUp
  <2>2. tx_queue_id[l][p] \in dev[p].txq
    <3>1. tx_queue_rank(l) \in 0 .. Cardinality(Lcores) - 1
      BY RankIsQueue
    <3> QED BY <2>1, <3>1, Zenon
  <2>3. ASSUME NEW k \in Lcores \ {l}
        PROVE  tx_queue_id[k][p] # tx_queue_id[l][p]
    <3>1. tx_queue_rank(k) # tx_queue_rank(l)
      BY RankIsUnique
    <3> QED BY <2>1, <3>1, Zenon
  <2> QED BY <2>2, <2>3
<1> QED BY <1>4, <1>5, <1>6

(* Nothing is configured before the options are parsed.                    *)
LEMMA InitReady == Init => ReadyInv
<1> SUFFICES ASSUME Init PROVE ReadyInv
  OBVIOUS
<1>1. Shapes
  <2> DEFINE V == {0, {}}
  <2>1. dev \in [PortIds -> [nb_rxq : V, txq : V, rxq : V, started : BOOLEAN]]
    BY DEF Init
  <2>2. ArePorts(dev)
    BY <2>1 DEF ArePorts
  <2> QED BY <2>2 DEF Init, Shapes
<1>2. ListsKept
  BY DEF Init, ListsKept
<1> QED BY <1>1, <1>2
     DEF Init, ReadyInv, ParamsChecked, PortsSetUp, QueuesSetUp, PortsStarted,
         LcoresWait, Checked, PortsDone, Up

(* A step that leaves what was set up, and goes on within the same part.   *)
LEMMA QuietStep ==
  ASSUME ReadyInv, UNCHANGED <<conf, socket_of, queues, portid, lcore>>,
         \/ pc' = "exited"
         \/ pc' \in {"check_lcore_params", "init_lcore_rx_queues"}
            /\ pc \in {"parse_args", "check_lcore_params"}
         \/ pc' = pc
         \/ pc \in Up \ {"wait_lcores"} /\ pc' \in Up \ {"wait_lcores"}
  PROVE  ReadyInv'
<1>1. Shapes' /\ ListsKept'
  BY DEF ReadyInv, Shapes, ListsKept, queues, Checked, PortsDone, Up
<1>2. Enabled' = Enabled /\ Params' = Params
  BY DEF Enabled, Params
<1>3. /\ \A p : SetUp(p)' <=> SetUp(p)
      /\ \A l \in Lcores : polled(l)' = polled(l)
  BY DEF SetUp, get_socketid, polled, queues
<1>4. ParamsChecked'
  BY <1>2 DEF ReadyInv, ParamsChecked, Checked, PortsDone, Up
<1>5. PortsSetUp'
  BY <1>2, <1>3 DEF ReadyInv, PortsSetUp, PortsDone, Up
<1>6. QueuesSetUp' /\ PortsStarted'
  BY <1>2, <1>3 DEF ReadyInv, QueuesSetUp, PortsStarted, Up, queues
<1>7. LcoresWait'
  BY DEF ReadyInv, LcoresWait, Up, queues
<1> QED BY <1>1, <1>4, <1>5, <1>6, <1>7 DEF ReadyInv

(* Every step of the start-up keeps it.                                    *)
LEMMA StepReady == ReadyInv /\ [Next]_vars => ReadyInv'
<1> SUFFICES ASSUME ReadyInv, [Next]_vars PROVE ReadyInv'
  OBVIOUS
<1>0. Shapes /\ ListsKept
  BY DEF ReadyInv
<1>1. ASSUME rte_exit PROVE ReadyInv'
  BY <1>1, QuietStep DEF rte_exit, config, queues, loops, later
<1>2. CASE parse_option
  <2>1. ASSUME NEW options, NEW new, pc = "parse_args", takes(options, new)
        PROVE  ReadyInv'
    <3>1. /\ pc' = "parse_args" /\ pc = "parse_args"
          /\ UNCHANGED <<rx_queue_list, tx_queue_id, dev, portid, lcore>>
      BY <2>1 DEF takes, queues, loops, later
    <3>2. Shapes' /\ ListsKept'
      BY <1>0, <3>1 DEF Shapes, ListsKept
    <3> QED BY <3>1, <3>2
         DEF ReadyInv, ParamsChecked, PortsSetUp, QueuesSetUp, PortsStarted,
             LcoresWait, Checked, PortsDone, Up
  <2>2. pc = "parse_args"
    BY <1>2 DEF parse_option
  <2>3. rte_exit \/ \E options, new : takes(options, new)
    BY <1>2 DEF parse_option, option_p, option_config, option_no_numa,
       option_without_effect, option_enable_jumbo
  <2> QED BY <1>1, <2>1, <2>2, <2>3
<1>3. CASE options_end \/ check_lcore_params
  <2>1. \/ rte_exit
        \/ /\ pc \in {"parse_args", "check_lcore_params"}
           /\ pc' \in {"check_lcore_params", "init_lcore_rx_queues"}
           /\ UNCHANGED <<config, queues, loops, later>>
    BY <1>3 DEF options_end, check_lcore_params, check
  <2> QED BY <1>1, <2>1, QuietStep DEF config, loops, later
<1>4. CASE init_lcore_rx_queues
  <2>1. CASE pc' = "check_port_config"
    <3>1. /\ pc = "init_lcore_rx_queues"
          /\ UNCHANGED <<conf, tx_queue_id, dev, portid, lcore>>
          /\ rx_queue_list' \in [Lcores -> SUBSET DOMAIN conf.lcore_params]
      BY <1>4, <2>1 DEF init_lcore_rx_queues, config, loops, later, rte_exit
    <3>2. Shapes' /\ ListsKept'
      BY <1>0, <2>1, <3>1 DEF Shapes, ListsKept, Checked, PortsDone, Up
    <3>3. LcoresWait'
      BY <2>1, <3>1 DEF ReadyInv, LcoresWait
    <3> QED BY <2>1, <3>2, <3>3
         DEF ReadyInv, ParamsChecked, PortsSetUp, QueuesSetUp, PortsStarted,
             Checked, PortsDone, Up
  <2>2. CASE rte_exit
    BY <1>1, <2>2
  <2> QED BY <1>4, <2>1, <2>2 DEF init_lcore_rx_queues
<1>5. CASE check_port_config
  <2>1. CASE rte_exit
    BY <1>1, <2>1
  <2>2. CASE ~ rte_exit
    <3>1. /\ pc = "check_port_config" /\ pc' = "init_port"
          /\ UNCHANGED <<conf, rx_queue_list, tx_queue_id, dev, portid, lcore>>
          /\ \A t \in Params : t[1] \in Enabled
      BY <1>5, <2>2
         DEF check_port_config, check, Enabled, config, queues, loops, later
    <3>2. Shapes' /\ ListsKept' /\ portid = 0
      BY <1>0, <3>1 DEF Shapes, ListsKept, Checked, PortsDone, Up
    <3>3. ParamsChecked'
      BY <3>1 DEF ParamsChecked, Params, Enabled
    <3>4. PortsSetUp'
      BY <3>1, <3>2 DEF PortsSetUp, Enabled, PortIds, PortsDone, Up
    <3>5. LcoresWait'
      BY <3>1 DEF ReadyInv, LcoresWait
    <3> QED BY <3>1, <3>2, <3>3, <3>4, <3>5
         DEF ReadyInv, QueuesSetUp, PortsStarted, Up
  <2> QED BY <2>1, <2>2
<1>6. CASE init_port
  <2>1. CASE rte_exit
    BY <1>1, <2>1
  <2> SUFFICES ASSUME ~ rte_exit PROVE ReadyInv'
    BY <2>1
  <2>2. /\ pc = "init_port" /\ pc' = "init_port" /\ portid \in PortIds
        /\ portid' = portid + 1 /\ portid \in Nat
        /\ UNCHANGED <<conf, socket_of, rx_queue_list, lcore>>
    <3>1. pc = "init_port" /\ portid < nb_ports /\ portid \in Nat
      BY <1>0, <1>6 DEF init_port, Shapes
    <3>2. nb_ports \in Int
      BY StartupAssumption DEF StartupAssumption, nb_ports
    <3>3. portid \in PortIds
      BY <3>1, <3>2 DEF PortIds
    <3> QED BY <1>6, <3>1, <3>3
         DEF init_port, config, queues, loops, later
  <2>3. \A k \in Lcores : tx_queue_rank(k) \in Nat
    <3>1. Cardinality(Lcores) \in Nat
      BY StartupAssumption, FS_CardinalityType DEF StartupAssumption
    <3> QED BY <3>1, RankIsQueue
  <2>4. Enabled' = Enabled /\ Params' = Params
    BY <2>2 DEF Enabled, Params
  <2>5. ListsKept' /\ ParamsChecked' /\ LcoresWait'
    BY <1>0, <2>2, <2>4
       DEF ReadyInv, ListsKept, ParamsChecked, LcoresWait, Checked
  <2>6. QueuesSetUp' /\ PortsStarted'
    BY <2>2 DEF QueuesSetUp, PortsStarted, Up
  <2>7. ASSUME Shapes', \A p \in Enabled : p < portid + 1 => SetUp(p)'
        PROVE  ReadyInv'
    <3>1. PortsSetUp'
      BY <2>2, <2>4, <2>7 DEF PortsSetUp, PortsDone, Up
    <3> QED BY <2>5, <2>6, <2>7, <3>1 DEF ReadyInv
  <2>8. ASSUME NEW p \in Enabled, p < portid + 1
        PROVE  p \in PortIds /\ (p = portid \/ (p < portid /\ SetUp(p)))
    <3>1. p \in PortIds /\ p \in Int
      BY DEF Enabled, PortIds
    <3>2. p = portid \/ p < portid
      BY <2>2, <2>8, <3>1
    <3> QED BY <2>2, <3>1, <3>2 DEF ReadyInv, PortsSetUp
  <2>9. CASE portid \notin conf.enabled_port_mask
    <3>1. UNCHANGED <<tx_queue_id, dev, pktmbuf_pool>>
      BY <1>6, <2>9 DEF init_port, queues
    <3>2. Shapes'
      BY <1>0, <2>2, <3>1 DEF Shapes, Checked
    <3>3. ASSUME NEW p \in Enabled, p < portid + 1 PROVE SetUp(p)'
      <4>1. p # portid
        BY <2>9 DEF Enabled
      <4>2. SetUp(p)
        BY <2>8, <3>3, <4>1
      <4> QED BY <2>2, <3>1, <4>2 DEF SetUp, get_socketid
    <3> QED BY <2>7, <3>2, <3>3
  <2>10. CASE portid \in conf.enabled_port_mask
    <3> DEFINE n == get_port_n_rx_queues(portid)
               all == 0 .. Cardinality(Lcores) - 1
               rank == [k \in Lcores |-> tx_queue_rank(k)]
    <3>1. /\ dev' = [dev EXCEPT ![portid].nb_rxq = n, ![portid].txq = all]
          /\ tx_queue_id' = [k \in Lcores |->
               [tx_queue_id[k] EXCEPT ![portid] = rank[k]]]
          /\ init_mem
      BY <1>6, <2>10 DEF init_port
    <3>2. rank \in [Lcores -> Nat]
      BY <2>3
    <3>3. \A k \in Lcores : rank[k] = tx_queue_rank(k)
      OBVIOUS
    <3>4. \A k \in Lcores : get_socketid(k)' \in pktmbuf_pool'
      BY <2>2, <3>1 DEF init_mem, get_socketid
    <3>5. pktmbuf_pool \subseteq pktmbuf_pool'
      BY <3>1 DEF init_mem
    <3> HIDE DEF n, all, rank
    <3>6. /\ ArePorts(dev') /\ dev'[portid].txq = all
          /\ \A p \in PortIds : p # portid => dev'[p] = dev[p]
      <4>1. PICK V : dev \in [PortIds -> [nb_rxq : V, txq : V, rxq : V,
                                          started : BOOLEAN]]
        BY <1>0 DEF Shapes, ArePorts
      <4> DEFINE W == V \cup {n, all}
      <4>2. /\ dev \in [PortIds -> [nb_rxq : W, txq : W, rxq : W,
                                    started : BOOLEAN]]
            /\ n \in W /\ all \in W
        BY <4>1
      <4> HIDE DEF W
      <4>3. /\ dev' \in [PortIds -> [nb_rxq : W, txq : W, rxq : W,
                                     started : BOOLEAN]]
            /\ dev'[portid].txq = all
            /\ \A p \in PortIds : p # portid => dev'[p] = dev[p]
        BY <2>2, <3>1, <4>2
      <4> QED BY <4>3 DEF ArePorts
    <3>7. /\ tx_queue_id' \in [Lcores -> [PortIds -> Nat]]
          /\ \A k \in Lcores : tx_queue_id'[k][portid] = rank[k]
          /\ \A k \in Lcores : \A p \in PortIds :
               p # portid => tx_queue_id'[k][p] = tx_queue_id[k][p]
      BY <1>0, <2>2, <3>1, <3>2 DEF Shapes
    <3>8. Shapes'
      BY <1>0, <2>2, <3>6, <3>7 DEF Shapes, Checked
    <3>9. ASSUME NEW p \in Enabled, p < portid + 1 PROVE SetUp(p)'
      <4>1. CASE p = portid
        BY <3>3, <3>4, <3>6, <3>7, <4>1 DEF SetUp, all
      <4>2. CASE p # portid
        <5>1. p \in PortIds /\ SetUp(p)
          BY <2>8, <3>9, <4>2
        <5> QED BY <3>4, <3>6, <3>7, <4>2, <5>1 DEF SetUp
      <4> QED BY <4>1, <4>2
    <3> QED BY <2>7, <3>8, <3>9
  <2> QED BY <2>9, <2>10
<1>7. CASE ports_are_done
  <2>1. /\ pc = "init_port" /\ pc' = "init_rx" /\ portid = nb_ports
        /\ UNCHANGED <<conf, socket_of, queues, portid, lcore>>
    BY <1>7 DEF ports_are_done, check, config, loops, later
  <2>2. Enabled' = Enabled /\ Params' = Params
    BY <2>1 DEF Enabled, Params
  <2>3. \A p \in Enabled : p < portid
    <3>1. portid \in Nat
      BY <1>0 DEF Shapes
    <3> QED BY <2>1, <3>1 DEF Enabled, PortIds
  <2>4. PortsSetUp'
    BY <2>1, <2>2, <2>3
       DEF ReadyInv, PortsSetUp, SetUp, get_socketid, queues, Up
  <2>5. Shapes' /\ ListsKept' /\ ParamsChecked' /\ LcoresWait'
    BY <1>0, <2>1, <2>2
       DEF ReadyInv, Shapes, ListsKept, ParamsChecked, LcoresWait, queues,
           Checked, PortsDone
  <2> QED BY <2>1, <2>4, <2>5 DEF ReadyInv, QueuesSetUp, PortsStarted, Up
<1>8. CASE init_rx_queues
  <2>1. CASE rte_exit
    BY <1>1, <2>1
  <2> SUFFICES ASSUME ~ rte_exit PROVE ReadyInv'
    BY <2>1
  <2> DEFINE listed == UNION {polled(l) : l \in Lcores}
             of(p) == {q[2] : q \in {r \in listed : r[1] = p}}
  <2>2. /\ pc = "init_rx" /\ pc' = "start_port" /\ portid' = 0
        /\ \A q \in listed : q[2] < dev[q[1]].nb_rxq
        /\ dev' = [p \in PortIds |-> [dev[p] EXCEPT !.rxq = of(p)]]
        /\ UNCHANGED <<conf, socket_of, rx_queue_list, tx_queue_id,
                       pktmbuf_pool, lcore>>
    BY <1>8 DEF init_rx_queues, config, later
  <2>3. \A l \in Lcores : polled(l) \subseteq listed
    OBVIOUS
  <2>4. \A q \in listed : q[2] \in of(q[1])
    OBVIOUS
  <2> HIDE DEF listed, of
  <2>5. /\ ArePorts(dev')
        /\ \A p \in PortIds : /\ dev'[p].nb_rxq = dev[p].nb_rxq
                              /\ dev'[p].txq = dev[p].txq
                              /\ dev'[p].rxq = of(p)
    <3>1. PICK V : dev \in [PortIds -> [nb_rxq : V, txq : V, rxq : V,
                                        started : BOOLEAN]]
      BY <1>0 DEF Shapes, ArePorts
    <3> DEFINE W == V \cup {of(p) : p \in PortIds}
    <3>2. /\ dev \in [PortIds -> [nb_rxq : W, txq : W, rxq : W,
                                  started : BOOLEAN]]
          /\ \A p \in PortIds : of(p) \in W
      BY <3>1
    <3> HIDE DEF W
    <3>3. /\ dev' \in [PortIds -> [nb_rxq : W, txq : W, rxq : W,
                                   started : BOOLEAN]]
          /\ \A p \in PortIds : /\ dev'[p].nb_rxq = dev[p].nb_rxq
                                /\ dev'[p].txq = dev[p].txq
                                /\ dev'[p].rxq = of(p)
      BY <2>2, <3>2
    <3> QED BY <3>3 DEF ArePorts
  <2>6. Enabled' = Enabled /\ Params' = Params /\ Enabled \subseteq PortIds
    BY <2>2 DEF Enabled, Params
  <2>7. \A l \in Lcores : polled(l)' = polled(l)
    BY <2>2 DEF polled
  <2>8. QueuesSetUp'
    <3>1. ASSUME NEW l \in Lcores, NEW q \in polled(l)
          PROVE  q[1] \in PortIds /\ q \in listed
      BY <2>2, <2>3, <2>6, PolledPorts DEF ReadyInv, Checked, PortsDone
    <3> QED BY <2>2, <2>4, <2>5, <2>7, <3>1 DEF QueuesSetUp
  <2>9. PortsSetUp'
    BY <2>2, <2>5, <2>6
       DEF ReadyInv, PortsSetUp, SetUp, get_socketid, PortsDone
  <2>10. PortsStarted'
    <3>1. \A p \in Enabled : p \in Nat
      BY <2>6 DEF PortIds
    <3> QED BY <2>2, <2>6, <3>1 DEF PortsStarted, Up
  <2>11. Shapes' /\ ListsKept' /\ ParamsChecked' /\ LcoresWait'
    BY <1>0, <2>2, <2>5, <2>6
       DEF ReadyInv, Shapes, ListsKept, ParamsChecked, LcoresWait, Checked,
           PortsDone
  <2> QED BY <2>8, <2>9, <2>10, <2>11 DEF ReadyInv
<1>9. CASE start_port
  <2> DEFINE on == portid \in conf.enabled_port_mask
  <2>1. /\ pc = "start_port" /\ pc' = "start_port" /\ portid \in PortIds
        /\ portid \in Nat /\ portid' = portid + 1
        /\ dev' = [dev EXCEPT ![portid].started = @ \/ on]
        /\ UNCHANGED <<conf, socket_of, rx_queue_list, tx_queue_id,
                       pktmbuf_pool, lcore>>
    <3>1. portid \in Nat /\ nb_ports \in Int
      BY <1>0, StartupAssumption DEF Shapes, StartupAssumption, nb_ports
    <3> QED BY <1>9, <3>1 DEF start_port, PortIds, config, later
  <2> HIDE DEF on
  <2>2. /\ ArePorts(dev')
        /\ dev'[portid].started = (dev[portid].started \/ on)
        /\ \A p \in PortIds : /\ dev'[p].nb_rxq = dev[p].nb_rxq
                              /\ dev'[p].txq = dev[p].txq
                              /\ dev'[p].rxq = dev[p].rxq
                              /\ p # portid => dev'[p].started = dev[p].started
    <3>1. PICK V : dev \in [PortIds -> [nb_rxq : V, txq : V, rxq : V,
                                        started : BOOLEAN]]
      BY <1>0 DEF Shapes, ArePorts
    <3> DEFINE b == dev[portid].started \/ on
    <3>2. b \in BOOLEAN /\ dev' = [dev EXCEPT ![portid].started = b]
      BY <2>1
    <3> HIDE DEF b
    <3>3. /\ dev' \in [PortIds -> [nb_rxq : V, txq : V, rxq : V,
                                   started : BOOLEAN]]
          /\ dev'[portid].started = b
          /\ \A p \in PortIds : /\ dev'[p].nb_rxq = dev[p].nb_rxq
                                /\ dev'[p].txq = dev[p].txq
                                /\ dev'[p].rxq = dev[p].rxq
                                /\ p # portid
                                     => dev'[p].started = dev[p].started
      BY <2>1, <3>1, <3>2
    <3> QED BY <3>3 DEF ArePorts, b
  <2>3. Enabled' = Enabled /\ Params' = Params /\ Enabled \subseteq PortIds
    BY <2>1 DEF Enabled, Params
  <2>4. \A l \in Lcores : polled(l)' = polled(l)
    BY <2>1 DEF polled
  <2>5. PortsStarted'
    <3>1. ASSUME NEW p \in Enabled, p < portid + 1 PROVE dev'[p].started
      <4>1. CASE p = portid
        BY <2>2, <4>1 DEF Enabled, on
      <4>2. CASE p # portid
        <5>1. p \in PortIds /\ p < portid
          BY <2>1, <2>3, <3>1, <4>2 DEF PortIds
        <5>2. dev[p].started
          BY <2>1, <5>1 DEF ReadyInv, PortsStarted
        <5> QED BY <2>2, <4>2, <5>1, <5>2
      <4> QED BY <4>1, <4>2
    <3> QED BY <2>1, <2>3, <3>1 DEF PortsStarted, Up
  <2>6. PortsSetUp'
    BY <2>1, <2>2, <2>3
       DEF ReadyInv, PortsSetUp, SetUp, get_socketid, PortsDone
  <2>7. QueuesSetUp'
    <3>1. \A l \in Lcores : \A q \in polled(l) : q[1] \in PortIds
      BY <2>1, <2>3, PolledPorts DEF ReadyInv, Checked, PortsDone
    <3> QED BY <2>1, <2>2, <2>4, <3>1 DEF ReadyInv, QueuesSetUp
  <2>8. Shapes' /\ ListsKept' /\ ParamsChecked' /\ LcoresWait'
    BY <1>0, <2>1, <2>2, <2>3
       DEF ReadyInv, Shapes, ListsKept, ParamsChecked, LcoresWait, Checked,
           PortsDone
  <2> QED BY <2>5, <2>6, <2>7, <2>8 DEF ReadyInv
<1>10. CASE ports_are_started
  <2>1. /\ pc = "start_port" /\ pc' = "links" /\ portid = nb_ports
        /\ UNCHANGED <<conf, socket_of, queues, portid, lcore>>
    BY <1>10 DEF ports_are_started, check, config, loops, later
  <2>2. Enabled' = Enabled /\ Params' = Params
    BY <2>1 DEF Enabled, Params
  <2>3. \A p \in Enabled : p < portid
    <3>1. portid \in Nat
      BY <1>0 DEF Shapes
    <3> QED BY <2>1, <3>1 DEF Enabled, PortIds
  <2>4. PortsStarted'
    BY <2>1, <2>2, <2>3 DEF ReadyInv, PortsStarted, queues
  <2>5. PortsSetUp'
    BY <2>1, <2>2
       DEF ReadyInv, PortsSetUp, SetUp, get_socketid, queues, PortsDone, Up
  <2>6. QueuesSetUp'
    BY <2>1 DEF ReadyInv, QueuesSetUp, polled, queues
  <2>7. Shapes' /\ ListsKept' /\ ParamsChecked' /\ LcoresWait'
    BY <1>0, <2>1, <2>2
       DEF ReadyInv, Shapes, ListsKept, ParamsChecked, LcoresWait, queues,
           Checked, PortsDone, Up
  <2> QED BY <2>4, <2>5, <2>6, <2>7 DEF ReadyInv
<1>11. CASE device_fails
  BY <1>1, <1>11 DEF device_fails
<1>12. CASE check_link_status \/ init_memories \/ init_lcore_confs
              \/ init_control_plane
  <2>1. CASE rte_exit
    BY <1>1, <2>1
  <2>2. CASE ~ rte_exit
    <3>1. /\ UNCHANGED <<conf, socket_of, queues, portid, lcore>>
          /\ pc \in Up \ {"wait_lcores"} /\ pc' \in Up \ {"wait_lcores"}
      BY <1>12, <2>2
         DEF check_link_status, init_memories, init_lcore_confs,
             init_control_plane, config, loops, later, Up
    <3> QED BY <3>1, QuietStep
  <2> QED BY <2>1, <2>2
<1>13. ASSUME UNCHANGED <<conf, socket_of, queues, portid>>,
              pc \in {"launch_dpdk", "wait_lcores"}, pc' = "wait_lcores",
              lcore' \in [Lcores -> {"wait", "launched", "polling", "returned"}],
              \A l \in Lcores : lcore'[l] = "polling"
                 => lcore[l] = "polling" \/ rx_queue_list[l] # {}
       PROVE  ReadyInv'
  <2>1. Enabled' = Enabled /\ Params' = Params
    BY <1>13 DEF Enabled, Params
  <2>2. PortsStarted' /\ LcoresWait'
    BY <1>13, <2>1 DEF ReadyInv, PortsStarted, LcoresWait, queues, Up
  <2>3. PortsSetUp'
    BY <1>13, <2>1
       DEF ReadyInv, PortsSetUp, SetUp, get_socketid, queues, PortsDone, Up
  <2>4. QueuesSetUp'
    BY <1>13 DEF ReadyInv, QueuesSetUp, polled, queues, Up
  <2>5. Shapes' /\ ListsKept' /\ ParamsChecked'
    BY <1>0, <1>13, <2>1
       DEF ReadyInv, Shapes, ListsKept, ParamsChecked, queues, Checked,
           PortsDone, Up
  <2> QED BY <2>2, <2>3, <2>4, <2>5 DEF ReadyInv
<1>14. CASE launch_dpdk
  <2>1. CASE rte_exit
    BY <1>1, <2>1
  <2>2. CASE ~ rte_exit
    <3>1. /\ UNCHANGED <<conf, socket_of, queues, portid>>
          /\ pc = "launch_dpdk" /\ pc' = "wait_lcores"
          /\ lcore' = [l \in Lcores |->
                         IF l \in launched THEN "launched" ELSE lcore[l]]
      BY <1>14, <2>2 DEF launch_dpdk, config, loops
    <3> QED BY <1>0, <1>13, <3>1 DEF Shapes
  <2> QED BY <2>1, <2>2
<1>15. ASSUME NEW l \in Lcores, dpdk_main_loop(l) PROVE ReadyInv'
  <2>1. /\ UNCHANGED <<conf, socket_of, queues, portid>>
        /\ pc = "wait_lcores" /\ pc' = "wait_lcores"
        /\ lcore' = [lcore EXCEPT ![l] =
              IF rx_queue_list[l] = {} THEN "returned" ELSE "polling"]
    BY <1>15 DEF dpdk_main_loop, config, loops
  <2> QED BY <1>0, <1>13, <2>1 DEF Shapes
<1>16. CASE main_returns
  <2>1. pc' = "exited" /\ UNCHANGED <<conf, socket_of, queues, portid, lcore>>
    BY <1>16 DEF main_returns, check, rte_exit, config, loops, later
  <2> QED BY <2>1, QuietStep
<1>17. CASE (\E s \in tables : change_replica(s)) \/ UNCHANGED vars
  <2>1. pc' = pc /\ UNCHANGED <<conf, socket_of, queues, portid, lcore>>
    BY <1>17 DEF change_replica, vars, config, loops, later
  <2> QED BY <2>1, QuietStep
<1> QED
  BY <1>2, <1>3, <1>4, <1>5, <1>6, <1>7, <1>8, <1>9, <1>10, <1>11, <1>12,
     <1>14, <1>15, <1>16, <1>17
     DEF Next, Main

(* An lcore that polls has receive queues that are set up on started ports,*)
(* a pool of packets, and on every enabled port a transmit queue of its    *)
(* own: for every command line, machine and failure.                       *)
THEOREM PollingIsReady == Spec => []QueuesReady
<1>1. Spec => []ReadyInv
  BY InitReady, StepReady, PTL DEF Spec
<1> QED BY <1>1, ReadyIsEnough, PTL

(***************************************************************************)
(* The tables the lcores look up in.                                       *)
(***************************************************************************)

\* The control plane finds the lcores of a socket.
Aware == conf.numa_on \/ \A k \in Lcores : socket_of[k] = 0

Running == {"launch_dpdk", "wait_lcores"}
Assigned == {"init_control_plane"} \cup Running

TableInv ==
  /\ socket_of \in [Lcores -> Nat]
  /\ instance \in [Lcores -> {Null} \cup (Int \X Int)]
  /\ active_replica \in [Sockets -> Int]
  /\ lcore \in [Lcores -> {"wait", "launched", "polling", "returned"}]
  /\ updates \in Nat
  /\ pc \notin Running \cup {"exited"} => ~ controlled
  /\ ~ controlled => updates = 0
  /\ pc \in {"init_lcore_confs"} \cup Assigned =>
       /\ SocketsInRange
       /\ tables = {get_socketid(l) : l \in Lcores}
  /\ pc = "init_lcore_confs" => \A s \in tables : active_replica[s] = 0
  /\ pc \in Assigned => \A l \in Lcores :
       /\ \E s \in tables, r \in Int : instance[l] = <<s, r>>
       /\ Aware =>
            instance[l] = <<get_socketid(l), active_replica[get_socketid(l)]>>
       /\ updates = 0 => instance[l] = <<get_socketid(l), 0>>
  /\ \A l \in Lcores :
       /\ pc \notin {"wait_lcores", "exited"} => lcore[l] = "wait"
       /\ l = StaticLcore /\ lcore[l] = "polling" /\ updates = 0
            /\ pc = "wait_lcores" => instance[l] \in loaded

(* The same for the tables.                                                *)
LEMMA TablesAreInUse == TableInv => TablesInUse
<1> SUFFICES ASSUME TableInv, NEW l \in Lcores, polls(l)
             PROVE  /\ instance[l] # Null /\ instance[l][1] \in tables
                    /\ Aware => instance[l] = <<get_socketid(l),
                                     active_replica[get_socketid(l)]>>
                    /\ updates = 0 /\ StaticLcore \in Lcores
                         => (lcore[StaticLcore] = "polling"
                               /\ get_socketid(l) = get_socketid(StaticLcore)
                             => instance[l] \in loaded)
  BY DEF TablesInUse, Aware
<1>1. pc = "wait_lcores" /\ pc \in Assigned
  BY DEF polls, Assigned, Running
<1>2. PICK s \in tables, r \in Int : instance[l] = <<s, r>>
  BY <1>1 DEF TableInv
<1>3. instance[l] # Null /\ instance[l][1] \in tables
  BY <1>2 DEF Null
<1>4. /\ Aware => instance[l] = <<get_socketid(l),
                                  active_replica[get_socketid(l)]>>
      /\ updates = 0 => \A k \in Lcores : instance[k] = <<get_socketid(k), 0>>
  BY <1>1 DEF TableInv
<1>5. ASSUME updates = 0, StaticLcore \in Lcores,
             lcore[StaticLcore] = "polling",
             get_socketid(l) = get_socketid(StaticLcore)
      PROVE  instance[l] \in loaded
  <2>1. instance[l] = instance[StaticLcore]
    BY <1>4, <1>5
  <2>2. instance[StaticLcore] \in loaded
    BY <1>1, <1>5 DEF TableInv
  <2> QED BY <2>1, <2>2
<1> QED BY <1>3, <1>4, <1>5

(* No tables exist before the options are parsed.                          *)
LEMMA InitTables == Init => TableInv
BY StartupAssumption DEF StartupAssumption, Init, TableInv, Running, Assigned

\* Steps that change no table and no lcore.
LEMMA QuietTables ==
  ASSUME TableInv, UNCHANGED <<socket_of, state, updates, lcore>>,
         \/ pc' = pc /\ UNCHANGED <<conf, controlled>>
         \/ pc' = "exited" /\ UNCHANGED controlled
         \/ /\ pc \notin Running \cup {"exited"}
            /\ pc' \notin {"init_lcore_confs", "exited"} \cup Assigned
            /\ UNCHANGED controlled
         \/ pc = "init_control_plane" /\ pc' = "launch_dpdk" /\ conf' = conf
  PROVE  TableInv'
<1>1. conf' = conf => Aware' = Aware /\ SocketsInRange' = SocketsInRange
                      /\ \A l : get_socketid(l)' = get_socketid(l)
  BY DEF Aware, SocketsInRange, get_socketid
<1> QED BY <1>1 DEF TableInv, state, Running, Assigned

(* Every step keeps what is said of the tables.                            *)
LEMMA StepTables == TableInv /\ [Next]_vars => TableInv'
<1> SUFFICES ASSUME TableInv, [Next]_vars PROVE TableInv'
  OBVIOUS
<1>1. CASE rte_exit
  BY <1>1, QuietTables DEF rte_exit, config, later
<1>2. CASE parse_option
  <2>1. pc = "parse_args" /\ (rte_exit \/ \E o, new : takes(o, new))
    BY <1>2 DEF parse_option, option_p, option_config, option_no_numa,
       option_without_effect, option_enable_jumbo
  <2>2. CASE \E o, new : takes(o, new)
    <3>1. /\ pc' = "parse_args"
          /\ UNCHANGED <<socket_of, state, updates, lcore, controlled>>
      BY <2>1, <2>2 DEF takes, later
    <3> QED BY <2>1, <3>1, QuietTables DEF Running, Assigned
  <2> QED BY <1>1, <2>1, <2>2
<1>3. CASE \/ options_end \/ check_lcore_params \/ init_lcore_rx_queues
           \/ check_port_config \/ init_port \/ ports_are_done
           \/ init_rx_queues \/ start_port \/ ports_are_started
           \/ check_link_status
  <2>1. \/ rte_exit
        \/ /\ pc \notin Running \cup {"exited"}
           /\ pc' \notin {"init_lcore_confs", "exited"} \cup Assigned
           /\ UNCHANGED <<socket_of, state, updates, lcore, controlled>>
    BY <1>3
       DEF options_end, check_lcore_params, check, init_lcore_rx_queues,
           check_port_config, init_port, ports_are_done, init_rx_queues,
           start_port, ports_are_started, check_link_status, config, later,
           Running, Assigned
  <2> QED BY <1>1, <2>1, QuietTables
<1>4. CASE init_memories
  <2>1. CASE rte_exit
    BY <1>1, <2>1
  <2>2. CASE ~ rte_exit
    <3>1. /\ pc = "init_memories" /\ pc' = "init_lcore_confs"
          /\ SocketsInRange
          /\ UNCHANGED <<conf, socket_of, instance, controlled, updates, lcore>>
          /\ tables' = {get_socketid(l) : l \in Lcores}
          /\ active_replica' =
               [s \in Sockets |-> IF s \in {get_socketid(l) : l \in Lcores}
                                  THEN 0 ELSE active_replica[s]]
      BY <1>4, <2>2
         DEF init_memories, create_tables_on_socket, config, later
    <3>2. \A l \in Lcores : get_socketid(l) \in Sockets
      <4>1. NbSockets \in Nat \ {0}
        BY StartupAssumption DEF StartupAssumption
      <4>2. \A l \in Lcores : get_socketid(l) \in Nat
        BY DEF TableInv, get_socketid
      <4> QED BY <3>1, <4>1, <4>2 DEF SocketsInRange, Sockets
    <3>3. SocketsInRange' /\ \A l \in Lcores : get_socketid(l)' = get_socketid(l)
      BY <3>1 DEF SocketsInRange, get_socketid
    <3>4. /\ tables' = {get_socketid(l) : l \in Lcores}'
          /\ active_replica' \in [Sockets -> Int]
          /\ \A s \in tables' : active_replica'[s] = 0
      BY <3>1, <3>2, <3>3 DEF TableInv
    <3> QED BY <3>1, <3>3, <3>4 DEF TableInv, Running, Assigned
  <2> QED BY <2>1, <2>2
<1>5. CASE init_lcore_confs
  <2>1. /\ pc = "init_lcore_confs" /\ pc' = "init_control_plane"
        /\ UNCHANGED <<conf, socket_of, tables, active_replica, controlled,
                       updates, lcore>>
        /\ instance' = [l \in Lcores |-> <<get_socketid(l), 0>>]
    BY <1>5 DEF init_lcore_confs, home, config, later
  <2>2. /\ SocketsInRange' /\ SocketsInRange
        /\ \A l \in Lcores : /\ get_socketid(l)' = get_socketid(l)
                             /\ get_socketid(l) \in tables
                             /\ get_socketid(l) \in Int
                             /\ active_replica[get_socketid(l)] = 0
    BY <2>1 DEF TableInv, SocketsInRange, get_socketid
  <2>3. ASSUME NEW l \in Lcores
        PROVE  /\ \E s \in tables', r \in Int : instance'[l] = <<s, r>>
               /\ instance'[l] = <<get_socketid(l)',
                                   active_replica'[get_socketid(l)']>>
               /\ instance'[l] = <<get_socketid(l)', 0>>
    BY <2>1, <2>2
  <2>4. instance' \in [Lcores -> {Null} \cup (Int \X Int)]
    BY <2>1, <2>2
  <2>5. tables' = {get_socketid(l) : l \in Lcores}'
    BY <2>1, <2>2 DEF TableInv
  <2> QED BY <2>1, <2>2, <2>3, <2>4, <2>5 DEF TableInv, Running, Assigned
<1>6. CASE init_control_plane
  <2>1. /\ pc = "init_control_plane" /\ pc' = "launch_dpdk"
        /\ UNCHANGED <<conf, socket_of, state, updates, lcore>>
    BY <1>6 DEF init_control_plane, config
  <2> QED BY <2>1, QuietTables
<1>7. CASE launch_dpdk
  <2>1. CASE rte_exit
    BY <1>1, <2>1
  <2>2. CASE ~ rte_exit
    <3>1. /\ pc = "launch_dpdk" /\ pc' = "wait_lcores"
          /\ UNCHANGED <<conf, socket_of, state, controlled, updates>>
          /\ lcore' = [l \in Lcores |->
                         IF l \in launched THEN "launched" ELSE lcore[l]]
      BY <1>7, <2>2 DEF launch_dpdk, config
    <3>2. /\ Aware' = Aware /\ SocketsInRange' = SocketsInRange
          /\ \A l \in Lcores : get_socketid(l)' = get_socketid(l)
          /\ \A l \in Lcores : lcore'[l] \in {"launched", "wait"}
      BY <3>1 DEF TableInv, Aware, SocketsInRange, get_socketid
    <3> QED BY <3>1, <3>2 DEF TableInv, state, Running, Assigned
  <2> QED BY <2>1, <2>2
<1>8. ASSUME NEW l \in Lcores, dpdk_main_loop(l) PROVE TableInv'
  <2>1. /\ pc = "wait_lcores" /\ pc' = pc
        /\ UNCHANGED <<conf, socket_of, tables, active_replica, instance,
                       controlled, updates>>
        /\ lcore' = [lcore EXCEPT ![l] =
              IF rx_queue_list[l] = {} THEN "returned" ELSE "polling"]
        /\ loaded \subseteq loaded'
        /\ l = StaticLcore /\ rx_queue_list[l] # {} => instance[l] \in loaded'
    BY <1>8 DEF dpdk_main_loop, config
  <2>2. /\ Aware' = Aware /\ SocketsInRange' = SocketsInRange
        /\ \A k \in Lcores : get_socketid(k)' = get_socketid(k)
    BY <2>1 DEF Aware, SocketsInRange, get_socketid
  <2>3. ASSUME NEW k \in Lcores, k = StaticLcore, lcore'[k] = "polling",
               updates' = 0
        PROVE  instance'[k] \in loaded'
    <3>1. CASE k = l
      BY <2>1, <2>3, <3>1 DEF TableInv
    <3>2. CASE k # l
      BY <2>1, <2>3, <3>2 DEF TableInv
    <3> QED BY <3>1, <3>2
  <2>4. lcore' \in [Lcores -> {"wait", "launched", "polling", "returned"}]
    BY <2>1 DEF TableInv
  <2> QED BY <2>1, <2>2, <2>3, <2>4 DEF TableInv, Running, Assigned
<1>9. CASE main_returns \/ device_fails
  BY <1>1, <1>9, QuietTables
     DEF main_returns, device_fails, check, config, later
<1>10. ASSUME NEW s \in tables, change_replica(s) PROVE TableInv'
  <2> DEFINE members == {l \in Lcores : socket_of[l] = s}
             next == (active_replica[s] + 1) % NbReplica
  <2>1. /\ pc \in Running /\ pc' = pc /\ controlled
        /\ UNCHANGED <<conf, socket_of, tables, loaded, controlled, lcore>>
        /\ instance' = [l \in Lcores |->
                          IF l \in members THEN <<s, next>> ELSE instance[l]]
        /\ active_replica' = [active_replica EXCEPT ![s] =
                                IF members = {} THEN @ ELSE next]
        /\ updates' = updates + 1
    BY <1>10 DEF TableInv, change_replica, config
  <2>2. next \in Int /\ s \in Sockets
    <3>1. /\ NbReplica \in Nat \ {0} /\ NbSockets \in Nat \ {0}
      BY StartupAssumption DEF StartupAssumption
    <3>2. \A l \in Lcores : get_socketid(l) \in Nat
      BY DEF TableInv, get_socketid
    <3>3. s \in Sockets
      BY <2>1, <3>1, <3>2
         DEF TableInv, SocketsInRange, Sockets, Running, Assigned
    <3> QED BY <3>1, <3>3 DEF TableInv
  <2>3. /\ Aware' = Aware /\ SocketsInRange' = SocketsInRange
        /\ \A k \in Lcores : get_socketid(k)' = get_socketid(k)
    BY <2>1 DEF Aware, SocketsInRange, get_socketid
  <2>4. ASSUME NEW l \in Lcores
        PROVE  \E t \in tables', r \in Int : instance'[l] = <<t, r>>
    BY <2>1, <2>2, <2>4 DEF TableInv, Assigned
  <2>5. ASSUME NEW l \in Lcores, Aware
        PROVE  instance'[l] = <<get_socketid(l), active_replica'[get_socketid(l)]>>
    <3>1. get_socketid(l) = socket_of[l]
      BY <2>5 DEF Aware, get_socketid
    <3>2. instance[l] = <<get_socketid(l), active_replica[get_socketid(l)]>>
      BY <2>1, <2>5 DEF TableInv, Assigned
    <3>3. CASE l \in members
      BY <2>1, <2>2, <3>1, <3>3 DEF TableInv
    <3>4. CASE l \notin members
      BY <2>1, <3>1, <3>2, <3>4 DEF TableInv
    <3> QED BY <3>3, <3>4
  <2>6. /\ instance' \in [Lcores -> {Null} \cup (Int \X Int)]
        /\ active_replica' \in [Sockets -> Int]
        /\ updates' \in Nat /\ updates' # 0
    BY <2>1, <2>2 DEF TableInv, Sockets
  <2>7. tables' = {get_socketid(l) : l \in Lcores}'
    BY <2>1, <2>3 DEF TableInv, Assigned
  <2> QED BY <2>1, <2>3, <2>4, <2>5, <2>6, <2>7
       DEF TableInv, Running, Assigned
<1>11. CASE UNCHANGED vars
  BY <1>11, QuietTables DEF vars, config, later
<1> QED
  BY <1>2, <1>3, <1>4, <1>5, <1>6, <1>7, <1>8, <1>9, <1>10, <1>11
     DEF Next, Main

(* A polling lcore looks up in tables that exist, in the active replica if *)
(* the control plane finds it, and with the static entries until the first *)
(* update: for any lcores, sockets, replicas and order of their start.     *)
THEOREM PollingUsesTables == Spec => []TablesInUse
<1>1. Spec => []TableInv
  BY InitTables, StepTables, PTL DEF Spec
<1> QED BY <1>1, TablesAreInUse, PTL

-----------------------------------------------------------------------------
(* The switch: the types of its variables.                                 *)

\* Options that parse_args can read, and what they may set.
Readable(options) ==
  \E V : /\ options \in Seq(V)
         /\ \A o \in V : o.opt = "config" => o.triples \in Seq(Seq(Nat))

Frames     == 64 .. 9600
Confs(V)   == [enabled_port_mask : SUBSET MaskBits, numa_on : BOOLEAN,
               jumbo_frame : BOOLEAN, max_rx_pkt_len : Frames,
               lcore_params : V]
Queued(ps) == \A i \in DOMAIN ps : ps[i][2] \in 0 .. 255
IsConf(c)  == \E V : c \in Confs(V) /\ \A ps \in V : Queued(ps)

OptionsType == Readable(args) /\ IsConf(conf) /\ socket_of \in [Lcores -> Nat]

DevicesType ==
  /\ dev \in [PortIds -> [nb_rxq : Nat, txq : SUBSET Nat, rxq : SUBSET Nat,
                          started : BOOLEAN]]
  /\ pktmbuf_pool \subseteq Sockets
  /\ portid \in 0 .. nb_ports

LinksType == count \in 0 .. MaxCheckTime + 1 /\ print_flag \in BOOLEAN

\* After init_lcore_confs every lcore has an instance.
StateType ==
  /\ tables \subseteq Sockets
  /\ active_replica \in [Sockets -> Replicas]
  /\ instance \in [Lcores -> {Null} \cup (Nat \X Replicas)]
  /\ loaded \subseteq Nat \X Replicas
  /\ pc \in {"init_control_plane", "launch_dpdk", "wait_lcores"} =>
       \A l \in Lcores : instance[l] # Null

LaterType == controlled \in BOOLEAN /\ updates \in 0 .. MaxUpdates

StartupTypeInv ==
  OptionsType /\ DevicesType /\ LinksType /\ StateType /\ LaterType

(* A length that parse_max_pkt_len accepts is one of Frames.               *)
LEMMA LengthIsChecked ==
  ASSUME NEW n
  PROVE  parse_max_pkt_len(n) => n \in Frames
  BY ONLY SMT DEF parse_max_pkt_len, Frames

(* Each round of getopt_long leaves options that can be read.              *)
LEMMA ReadableRest ==
  ASSUME NEW options, Readable(options), options # <<>>
  PROVE  /\ Readable(Tail(options))
         /\ Head(options).opt = "config"
              => Head(options).triples \in Seq(Seq(Nat))
<1>1. PICK V : /\ options \in Seq(V)
               /\ \A o \in V : o.opt = "config" => o.triples \in Seq(Seq(Nat))
  BY DEF Readable
<1>2. Tail(options) \in Seq(V) /\ Head(options) \in V
  BY <1>1, HeadTailProperties
<1> QED
  BY <1>1, <1>2 DEF Readable

(* What the options set, one setting at a time.                            *)
LEMMA Settings ==
  ASSUME NEW c, IsConf(c)
  PROVE  /\ \A bits : IsConf([c EXCEPT !.enabled_port_mask
                                         = parse_portmask(bits)])
         /\ IsConf([c EXCEPT !.numa_on = FALSE])
         /\ IsConf([c EXCEPT !.jumbo_frame = TRUE])
         /\ \A n \in Frames : IsConf([c EXCEPT !.max_rx_pkt_len = n])
         /\ \A ps \in Seq(Seq(Nat)) :
              parse_config(ps) => IsConf([c EXCEPT !.lcore_params = ps])
<1>1. PICK V : c \in Confs(V) /\ \A ps \in V : Queued(ps)
  BY DEF IsConf
<1>2. ASSUME NEW bits
      PROVE  IsConf([c EXCEPT !.enabled_port_mask = parse_portmask(bits)])
  <2>1. parse_portmask(bits) \in SUBSET MaskBits
    BY DEF parse_portmask
  <2>2. [c EXCEPT !.enabled_port_mask = parse_portmask(bits)] \in Confs(V)
    BY <1>1, <2>1 DEF Confs
  <2> QED
    BY <1>1, <2>2 DEF IsConf
<1>3. /\ IsConf([c EXCEPT !.numa_on = FALSE])
      /\ IsConf([c EXCEPT !.jumbo_frame = TRUE])
      /\ \A n \in Frames : IsConf([c EXCEPT !.max_rx_pkt_len = n])
  <2>1. [c EXCEPT !.numa_on = FALSE] \in Confs(V)
    BY <1>1 DEF Confs
  <2>2. [c EXCEPT !.jumbo_frame = TRUE] \in Confs(V)
    BY <1>1 DEF Confs
  <2>3. \A n \in Frames : [c EXCEPT !.max_rx_pkt_len = n] \in Confs(V)
    BY <1>1 DEF Confs
  <2> QED
    BY <1>1, <2>1, <2>2, <2>3 DEF IsConf
<1>4. ASSUME NEW ps \in Seq(Seq(Nat)), parse_config(ps)
      PROVE  IsConf([c EXCEPT !.lcore_params = ps])
  <2>1. ASSUME NEW i \in DOMAIN ps
        PROVE  ps[i][2] \in 0 .. 255
    <3>1. ps[i] \in Seq(Nat)
      BY <2>1
    <3> DEFINE n == ps[i][2]
    <3>2. Len(ps[i]) = 3 /\ n <= 255
      BY <1>4, <2>1 DEF parse_config
    <3>3. 2 \in 1 .. Len(ps[i])
      BY <3>2
    <3>4. n \in Nat
      BY <3>1, <3>3, ElementOfSeq
    <3> HIDE DEF n
    <3>5. n \in 0 .. 255
      BY <3>2, <3>4
    <3> QED
      BY <3>5 DEF n
  <2> DEFINE W == V \cup {ps}
  <2>2. \A qs \in W : Queued(qs)
    BY <1>1, <2>1 DEF Queued
  <2>3. [c EXCEPT !.lcore_params = ps] \in Confs(W)
    BY <1>1 DEF Confs
  <2> HIDE DEF W
  <2> QED
    BY <2>2, <2>3 DEF IsConf
<1> QED
  BY ONLY <1>2, <1>3, <1>4, Zenon

(* Parsing keeps the types of the options.                                 *)
LEMMA OptionsStep == OptionsType /\ [Next]_vars => OptionsType'
<1> SUFFICES ASSUME OptionsType, [Next]_vars
             PROVE  OptionsType'
  OBVIOUS
<1>1. Readable(args) /\ IsConf(conf) /\ socket_of \in [Lcores -> Nat]
  BY DEF OptionsType
<1>2. ASSUME UNCHANGED <<args, conf, socket_of>>
      PROVE  OptionsType'
  BY <1>1, <1>2 DEF OptionsType
<1>3. ASSUME NEW options, NEW new, takes(options, new), Readable(options),
             IsConf(new)
      PROVE  OptionsType'
  BY <1>1, <1>3 DEF takes, OptionsType
<1>4. CASE rte_exit
  BY <1>2, <1>4 DEF rte_exit, config
<1>5. CASE parse_option
  <2> DEFINE o == Head(args)
             rest == Tail(args)
  <2>1. args # <<>>
    BY <1>5 DEF parse_option
  <2>2. Readable(rest) /\ (o.opt = "config" => o.triples \in Seq(Seq(Nat)))
    BY <1>1, <2>1, ReadableRest
  <2>3. rest # <<>> => Readable(Tail(rest))
    BY <2>2, ReadableRest
  <2> HIDE DEF o, rest
  <2>4. CASE option_p(o.mask)
    <3>1. IsConf([conf EXCEPT !.enabled_port_mask = parse_portmask(o.mask)])
      BY <1>1, Settings
    <3> QED
      BY <1>3, <1>4, <2>2, <2>4, <3>1 DEF option_p, rest
  <2>5. CASE option_without_effect
    BY <1>1, <1>3, <2>2, <2>5 DEF option_without_effect, rest
  <2>6. CASE o.opt = "config" /\ option_config(o.triples)
    <3>1. parse_config(o.triples) =>
            IsConf([conf EXCEPT !.lcore_params = o.triples])
      BY <1>1, <2>2, <2>6, Settings
    <3> QED
      BY <1>3, <1>4, <2>2, <2>6, <3>1 DEF option_config, rest
  <2>7. CASE option_no_numa
    BY <1>1, <1>3, <2>2, <2>7, Settings DEF option_no_numa, rest
  <2>8. CASE option_enable_jumbo
    <3> DEFINE jumbo == [conf EXCEPT !.jumbo_frame = TRUE]
    <3>1. IsConf(jumbo)
      BY <1>1, Settings
    <3>2. \A n \in Frames : IsConf([jumbo EXCEPT !.max_rx_pkt_len = n])
      BY <3>1, Settings
    <3> HIDE DEF jumbo
    <3>3. \/ rte_exit \/ takes(rest, jumbo)
          \/ rest # <<>> /\ takes(Tail(rest), jumbo)
          \/ /\ rest # <<>> /\ Head(rest).len \in Frames
             /\ takes(Tail(rest),
                      [jumbo EXCEPT !.max_rx_pkt_len = Head(rest).len])
      <4>1. CASE rest = <<>>
        BY ONLY <2>8, <4>1 DEF option_enable_jumbo, rest, jumbo
      <4>2. CASE rest # <<>> /\ Head(rest).opt = "max-pkt-len"
        <5>1. parse_max_pkt_len(Head(rest).len) => Head(rest).len \in Frames
          BY LengthIsChecked
        <5>2. IF parse_max_pkt_len(Head(rest).len)
              THEN takes(Tail(rest),
                         [jumbo EXCEPT !.max_rx_pkt_len = Head(rest).len])
              ELSE rte_exit
          BY ONLY <2>8, <4>2 DEF option_enable_jumbo, rest, jumbo
        <5> QED
          BY ONLY <4>2, <5>1, <5>2
      <4>3. CASE rest # <<>> /\ Head(rest).opt # "max-pkt-len"
        BY ONLY <2>8, <4>3 DEF option_enable_jumbo, rest, jumbo
      <4> QED
        BY <4>1, <4>2, <4>3
    <3> QED
      BY <1>3, <1>4, <2>2, <2>3, <3>1, <3>2, <3>3
  <2> QED
    BY <1>4, <1>5, <2>4, <2>5, <2>6, <2>7, <2>8 DEF parse_option, o
<1>6. CASE Next /\ ~ parse_option
  <2>1. UNCHANGED config
    BY <1>6 DEF Next, Main, options_end, check_lcore_params, check, rte_exit,
       init_lcore_rx_queues, check_port_config, init_port, ports_are_done,
       init_rx_queues, start_port, ports_are_started, check_link_status,
       init_memories, init_lcore_confs, init_control_plane, launch_dpdk,
       main_returns, device_fails, dpdk_main_loop, change_replica
  <2> QED
    BY <1>2, <2>1 DEF config
<1>7. CASE UNCHANGED vars
  BY <1>2, <1>7 DEF vars, config
<1> QED
  BY <1>5, <1>6, <1>7

(* The order of the natural numbers is well-founded.                       *)
LEMMA NatWF == IsWellFoundedOn({ss \in Nat \X Nat : ss[1] < ss[2]}, Nat)
  BY NatLessThanWellFounded DEF OpToRel

(* Every set of natural numbers has a least one.                           *)
LEMMA LeastNatural ==
  ASSUME NEW U, U \subseteq Nat, U # {}
  PROVE  \E n \in U : \A m \in U : n <= m
<1> DEFINE R == {ss \in Nat \X Nat : ss[1] < ss[2]}
<1>1. IsWellFoundedOn(R, Nat)
  BY NatWF
<1> HIDE DEF R
<1>2. PICK n \in U : \A m \in U : ~(<<m, n>> \in R)
  BY <1>1, WFMin
<1>3. \A m \in U : m \in Nat /\ n \in Nat /\ ~(m < n)
  BY <1>2 DEF R
<1> QED
  BY <1>3

(* The highest queue of a port is a maximum, and there is one more.        *)
LEMMA QueuesAreCounted ==
  ASSUME IsConf(conf), NEW p
  PROVE  get_port_n_rx_queues(p) \in Nat
<1> DEFINE S == {-1} \cup {t[2] : t \in {u \in Params : u[1] = p}}
           U == {255 - x : x \in S}
<1>1. \A x \in S : x \in -1 .. 255
  <2>1. Queued(conf.lcore_params)
    BY DEF IsConf, Confs
  <2>2. \A t \in Params : t[2] \in 0 .. 255
    BY <2>1 DEF Queued, Params
  <2> QED
    BY <2>2
<1>2. -1 \in S
  OBVIOUS
<1> HIDE DEF S
<1>3. U \subseteq Nat /\ U # {}
  BY <1>1, <1>2
<1>4. PICK u \in U : \A v \in U : u <= v
  BY <1>3, LeastNatural
<1>5. PICK x \in S : u = 255 - x
  BY <1>4
<1>6. \A y \in S : x >= y
  <2> SUFFICES ASSUME NEW y \in S
               PROVE  x >= y
    OBVIOUS
  <2>1. 255 - x <= 255 - y
    BY <1>4, <1>5
  <2>2. x \in Int /\ y \in Int
    BY <1>1
  <2> QED
    BY <2>1, <2>2
<1>7. Max(S) \in S
  BY <1>5, <1>6 DEF Max
<1>8. Max(S) \in -1 .. 255
  BY <1>1, <1>7
<1>9. \A m \in -1 .. 255 : 1 + m \in Nat
  OBVIOUS
<1> QED
  BY <1>8, <1>9 DEF get_port_n_rx_queues, S

(* The sockets of the lcores, if they are in range, have tables and pools. *)
LEMMA SocketsAre ==
  ASSUME OptionsType, SocketsInRange
  PROVE  \A l \in Lcores : get_socketid(l) \in Sockets
<1>1. \A l \in Lcores : get_socketid(l) \in Nat
  BY DEF OptionsType, get_socketid
<1>2. NbSockets \in Nat
  BY StartupAssumption DEF StartupAssumption
<1> QED
  BY <1>1, <1>2 DEF SocketsInRange, Sockets

(* The set-up keeps the types of the devices.                              *)
LEMMA DevicesStep ==
  OptionsType /\ ListsKept /\ DevicesType /\ [Next]_vars => DevicesType'
<1> DEFINE Port == [nb_rxq : Nat, txq : SUBSET Nat, rxq : SUBSET Nat,
                    started : BOOLEAN]
<1> SUFFICES ASSUME OptionsType, ListsKept, DevicesType, [Next]_vars
             PROVE  DevicesType'
  OBVIOUS
<1>1. /\ dev \in [PortIds -> Port] /\ pktmbuf_pool \subseteq Sockets
      /\ portid \in 0 .. nb_ports
  BY DEF DevicesType
<1>2. nb_ports \in Nat
  BY StartupAssumption DEF StartupAssumption, nb_ports
<1>3. portid < nb_ports => portid \in PortIds /\ portid + 1 \in 0 .. nb_ports
  BY <1>1, <1>2 DEF PortIds
<1>4. ASSUME dev' \in [PortIds -> Port], pktmbuf_pool' \subseteq Sockets,
             portid' \in 0 .. nb_ports
      PROVE  DevicesType'
  BY <1>4 DEF DevicesType
<1>5. ASSUME UNCHANGED <<dev, pktmbuf_pool, portid>>
      PROVE  DevicesType'
  BY <1>1, <1>4, <1>5
<1>6. CASE rte_exit
  BY <1>5, <1>6 DEF rte_exit, queues, loops
<1>7. CASE init_port
  <2>1. CASE portid \notin conf.enabled_port_mask
    <3>1. portid < nb_ports /\ portid' = portid + 1
          /\ UNCHANGED <<dev, pktmbuf_pool>>
      BY <1>7, <2>1 DEF init_port, queues
    <3> QED
      BY <1>1, <1>3, <1>4, <3>1
  <2>2. CASE portid \in conf.enabled_port_mask /\ ~ rte_exit
    <3> DEFINE n == get_port_n_rx_queues(portid)
               all == 0 .. Cardinality(Lcores) - 1
    <3>1. /\ portid < nb_ports /\ portid' = portid + 1 /\ SocketsInRange
          /\ dev' = [dev EXCEPT ![portid].nb_rxq = n, ![portid].txq = all]
          /\ init_mem
      BY <1>7, <2>2 DEF init_port
    <3>2. n \in Nat
      BY QueuesAreCounted DEF OptionsType
    <3>3. all \in SUBSET Nat
      OBVIOUS
    <3> HIDE DEF n, all
    <3>4. dev' \in [PortIds -> Port]
      BY <1>1, <1>3, <3>1, <3>2, <3>3
    <3>5. pktmbuf_pool' \subseteq Sockets
      BY <1>1, <3>1, SocketsAre DEF init_mem
    <3> QED
      BY <1>3, <1>4, <3>1, <3>4, <3>5
  <2> QED
    BY <1>6, <2>1, <2>2
<1>8. CASE init_rx_queues /\ ~ rte_exit
  <2> DEFINE all == UNION {polled(l) : l \in Lcores}
             set(q) == {r[2] : r \in {u \in all : u[1] = q}}
  <2>1. \A r \in all : r[2] \in Nat
    <3>1. Queued(conf.lcore_params)
      BY DEF OptionsType, IsConf, Confs
    <3>2. ASSUME NEW l \in Lcores, NEW i \in rx_queue_list[l]
          PROVE  conf.lcore_params[i][2] \in Nat
      <4>1. i \in DOMAIN conf.lcore_params
        BY DEF ListsKept
      <4>2. conf.lcore_params[i][2] \in 0 .. 255
        BY ONLY <3>1, <4>1 DEF Queued
      <4> QED
        BY ONLY <4>2
    <3>3. \A l \in Lcores : \A r \in polled(l) : r[2] \in Nat
      BY <3>2 DEF polled
    <3> QED
      BY <3>3
  <2>2. \A q : set(q) \in SUBSET Nat
    BY <2>1
  <2>3. /\ dev' = [q \in PortIds |-> [dev[q] EXCEPT !.rxq = set(q)]]
        /\ portid' = 0 /\ UNCHANGED pktmbuf_pool
    BY <1>8 DEF init_rx_queues
  <2> HIDE DEF set
  <2>4. dev' \in [PortIds -> Port]
    BY <1>1, <2>2, <2>3
  <2>5. portid' \in 0 .. nb_ports
    BY <1>2, <2>3
  <2>6. pktmbuf_pool' \subseteq Sockets
    BY <1>1, <2>3
  <2> QED
    BY <1>4, <2>4, <2>5, <2>6
<1>9. CASE start_port
  <2>1. /\ portid < nb_ports /\ portid' = portid + 1 /\ UNCHANGED pktmbuf_pool
        /\ dev' = [dev EXCEPT ![portid].started =
                                @ \/ portid \in conf.enabled_port_mask]
    BY <1>9 DEF start_port
  <2>2. (dev[portid].started \/ portid \in conf.enabled_port_mask) \in BOOLEAN
    OBVIOUS
  <2>3. dev' \in [PortIds -> Port]
    BY <1>1, <1>3, <2>1, <2>2
  <2> QED
    BY <1>1, <1>3, <1>4, <2>1, <2>3
<1>10. CASE Next /\ ~ init_port /\ ~ init_rx_queues /\ ~ start_port
  <2>1. UNCHANGED <<dev, pktmbuf_pool, portid>>
    BY <1>10 DEF Next, Main, parse_option, options_end, check_lcore_params,
       check, rte_exit, init_lcore_rx_queues, check_port_config,
       ports_are_done, ports_are_started, check_link_status, init_memories,
       init_lcore_confs, init_control_plane, launch_dpdk, main_returns,
       device_fails, dpdk_main_loop, change_replica, option_p, option_config,
       option_no_numa, option_without_effect, option_enable_jumbo, takes,
       queues, loops
  <2> QED
    BY <1>5, <2>1
<1>11. CASE UNCHANGED vars
  BY <1>5, <1>11 DEF vars, queues, loops
<1> QED
  BY <1>6, <1>7, <1>8, <1>9, <1>10, <1>11

(* Waiting for the links ends at the bound.                                *)
LEMMA LinksStep == LinksType /\ [Next]_vars => LinksType'
<1> SUFFICES ASSUME LinksType, [Next]_vars
             PROVE  LinksType'
  OBVIOUS
<1>1. ASSUME UNCHANGED <<count, print_flag>>
      PROVE  LinksType'
  BY <1>1 DEF LinksType
<1>2. CASE check_link_status
  <2>1. CASE UNCHANGED <<count, print_flag>>
    BY <1>1, <2>1
  <2>2. CASE /\ count <= MaxCheckTime /\ count' = count + 1
             /\ print_flag' \in BOOLEAN
    BY <2>2, StartupAssumption DEF LinksType, StartupAssumption
  <2> QED
    BY <1>2, <2>1, <2>2 DEF check_link_status
<1>3. CASE Next /\ ~ check_link_status
  <2>1. UNCHANGED <<count, print_flag>>
    BY <1>3 DEF Next, Main, parse_option, options_end, check_lcore_params,
       check, rte_exit, init_lcore_rx_queues, check_port_config, init_port,
       ports_are_done, init_rx_queues, start_port, ports_are_started,
       init_memories, init_lcore_confs, init_control_plane, launch_dpdk,
       main_returns, device_fails, dpdk_main_loop, change_replica, option_p,
       option_config, option_no_numa, option_without_effect,
       option_enable_jumbo, takes, loops
  <2> QED
    BY <1>1, <2>1
<1>4. CASE UNCHANGED vars
  BY <1>1, <1>4 DEF vars, loops
<1> QED
  BY <1>2, <1>3, <1>4

(* A switch of replicas is counted.                                        *)
LEMMA LaterStep == LaterType /\ [Next]_vars => LaterType'
<1> SUFFICES ASSUME LaterType, [Next]_vars
             PROVE  LaterType'
  OBVIOUS
<1>1. ASSUME UNCHANGED <<controlled, updates>>
      PROVE  LaterType'
  BY <1>1 DEF LaterType
<1>2. CASE init_control_plane
  BY <1>2 DEF init_control_plane, LaterType
<1>3. ASSUME NEW s \in tables, change_replica(s)
      PROVE  LaterType'
  BY <1>3, StartupAssumption DEF change_replica, LaterType, StartupAssumption
<1>4. CASE Next /\ ~ init_control_plane /\ ~ \E s \in tables : change_replica(s)
  <2>1. UNCHANGED <<controlled, updates>>
    BY <1>4 DEF Next, Main, parse_option, options_end, check_lcore_params,
       check, rte_exit, init_lcore_rx_queues, check_port_config, init_port,
       ports_are_done, init_rx_queues, start_port, ports_are_started,
       check_link_status, init_memories, init_lcore_confs, launch_dpdk,
       main_returns, device_fails, dpdk_main_loop, option_p, option_config,
       option_no_numa, option_without_effect, option_enable_jumbo, takes,
       later
  <2> QED
    BY <1>1, <2>1
<1>5. CASE UNCHANGED vars
  BY <1>1, <1>5 DEF vars, later
<1> QED
  BY <1>2, <1>3, <1>4, <1>5

(* An instance is a replica on a socket, whoever sets it.                  *)
LEMMA StateStep == OptionsType /\ StateType /\ [Next]_vars => StateType'
<1> SUFFICES ASSUME OptionsType, StateType, [Next]_vars
             PROVE  StateType'
  OBVIOUS
<1> DEFINE At == {"init_control_plane", "launch_dpdk", "wait_lcores"}
<1>0. /\ tables \subseteq Sockets
      /\ active_replica \in [Sockets -> Replicas]
      /\ instance \in [Lcores -> {Null} \cup (Nat \X Replicas)]
      /\ loaded \subseteq Nat \X Replicas
      /\ pc \in At => \A l \in Lcores : instance[l] # Null
  BY DEF StateType
<1>1. 0 \in Replicas /\ NbReplica \in Nat \ {0}
  BY StartupAssumption DEF StartupAssumption, Replicas
<1>2. \A r \in Nat \X Replicas : r # Null
  BY DEF Null
<1>3. ASSUME UNCHANGED state, pc' \in At => pc \in At
      PROVE  StateType'
  BY <1>0, <1>3 DEF state, StateType
<1>4. CASE rte_exit
  BY <1>3, <1>4 DEF rte_exit
<1>5. CASE init_memories
  <2>1. CASE SocketsInRange
    <3>1. \A l \in Lcores : get_socketid(l) \in Sockets
      BY <2>1, SocketsAre
    <3> DEFINE sockets == {get_socketid(l) : l \in Lcores}
    <3>2. /\ tables' = sockets /\ UNCHANGED <<instance, loaded>>
          /\ active_replica' = [s \in Sockets |-> IF s \in sockets THEN 0
                                                  ELSE active_replica[s]]
          /\ pc' = "init_lcore_confs"
      BY <1>5, <2>1 DEF init_memories, create_tables_on_socket
    <3>3. sockets \subseteq Sockets
      BY <3>1
    <3> HIDE DEF sockets
    <3> QED
      BY <1>0, <1>1, <3>2, <3>3 DEF StateType
  <2> QED
    BY <1>4, <1>5, <2>1 DEF init_memories
<1>6. CASE init_lcore_confs
  <2>1. \A l \in Lcores : home(l) \in Nat
    BY DEF OptionsType, home, get_socketid
  <2>2. /\ instance' = [l \in Lcores |-> <<home(l), 0>>]
        /\ UNCHANGED <<tables, active_replica, loaded>>
    BY <1>6 DEF init_lcore_confs
  <2>3. \A l \in Lcores : instance'[l] \in Nat \X Replicas
    BY <1>1, <2>1, <2>2
  <2>4. instance' \in [Lcores -> {Null} \cup (Nat \X Replicas)]
    BY <2>2, <2>3
  <2> QED
    BY <1>0, <1>2, <2>2, <2>3, <2>4 DEF StateType
<1>7. ASSUME NEW l \in Lcores, dpdk_main_loop(l)
      PROVE  StateType'
  <2>1. /\ pc = "wait_lcores" /\ UNCHANGED <<pc, tables, active_replica,
                                             instance>>
        /\ loaded' \in {loaded, loaded \cup {instance[l]}}
    BY <1>7 DEF dpdk_main_loop
  <2>2. instance[l] \in Nat \X Replicas
    BY <1>0, <2>1
  <2> QED
    BY <1>0, <2>1, <2>2 DEF StateType
<1>8. ASSUME NEW s \in tables, change_replica(s)
      PROVE  StateType'
  <2> DEFINE next == (active_replica[s] + 1) % NbReplica
             members == {l \in Lcores : socket_of[l] = s}
  <2>1. /\ UNCHANGED <<pc, tables, loaded>>
        /\ instance' = [l \in Lcores |-> IF l \in members THEN <<s, next>>
                                         ELSE instance[l]]
        /\ active_replica' = [active_replica EXCEPT ![s] =
                                IF members = {} THEN @ ELSE next]
    BY <1>8 DEF change_replica
  <2>2. s \in Sockets /\ s \in Nat
    BY <1>0 DEF Sockets
  <2>3. next \in Replicas
    <3>1. active_replica[s] + 1 \in Int
      BY <1>0, <2>2 DEF Replicas
    <3> QED
      BY <1>1, <3>1 DEF Replicas
  <2> HIDE DEF next, members
  <2>4. <<s, next>> \in Nat \X Replicas
    BY <2>2, <2>3
  <2>5. instance' \in [Lcores -> {Null} \cup (Nat \X Replicas)]
    BY <1>0, <2>1, <2>4
  <2>6. active_replica' \in [Sockets -> Replicas]
    BY <1>0, <2>1, <2>2, <2>3
  <2>7. pc' \in At => \A l \in Lcores : instance'[l] # Null
    BY <1>0, <1>2, <2>1, <2>4
  <2> QED
    BY <1>0, <2>1, <2>5, <2>6, <2>7 DEF StateType
<1>9. CASE /\ Next
           /\ ~ init_memories /\ ~ init_lcore_confs
           /\ ~ (\E l \in Lcores : dpdk_main_loop(l))
           /\ ~ \E s \in tables : change_replica(s)
  <2>1. UNCHANGED state /\ (pc' \in At => pc \in At)
    BY <1>9 DEF Next, Main, parse_option, options_end, check_lcore_params,
       check, rte_exit, init_lcore_rx_queues, check_port_config, init_port,
       ports_are_done, init_rx_queues, start_port, ports_are_started,
       check_link_status, init_control_plane, launch_dpdk, main_returns,
       device_fails, option_p, option_config, option_no_numa,
       option_without_effect, option_enable_jumbo, takes
  <2> QED
    BY <1>3, <2>1
<1>10. CASE UNCHANGED vars
  BY <1>3, <1>10 DEF vars
<1> QED
  BY <1>5, <1>6, <1>7, <1>8, <1>9, <1>10

(* The types with which main starts.                                       *)
LEMMA StartupTypesInit == Init => StartupTypeInv
<1> SUFFICES ASSUME Init
             PROVE  StartupTypeInv
  OBVIOUS
<1>1. Readable(args)
  <2> DEFINE V == {args[i] : i \in DOMAIN args}
  <2>1. args \in Seq(V)
    BY CommandLinesAssumption DEF Init, CommandLinesAssumption
  <2>2. \A o \in V : o.opt = "config" => o.triples \in Seq(Seq(Nat))
    BY CommandLinesAssumption DEF Init, CommandLinesAssumption
  <2> QED
    BY <2>1, <2>2 DEF Readable
<1>2. IsConf(conf)
  <2> DEFINE V == {lcore_params_array_default}
  <2>1. Queued(lcore_params_array_default)
    BY DEF Queued, lcore_params_array_default
  <2>2. conf = [enabled_port_mask |-> {}, numa_on |-> TRUE,
                jumbo_frame |-> FALSE, max_rx_pkt_len |-> 1518,
                lcore_params |-> lcore_params_array_default]
    BY DEF Init
  <2>3. conf \in Confs(V)
    BY <2>2 DEF Confs, Frames
  <2> QED
    BY <2>1, <2>3 DEF IsConf
<1>3. socket_of \in [Lcores -> Nat]
  BY StartupAssumption DEF Init, StartupAssumption
<1>4. DevicesType
  <2>1. nb_ports \in Nat
    BY StartupAssumption DEF StartupAssumption, nb_ports
  <2> QED
    BY <2>1 DEF Init, DevicesType
<1>5. LinksType /\ LaterType
  <2>1. count = 0 /\ print_flag = FALSE /\ controlled = FALSE /\ updates = 0
    BY DEF Init
  <2>2. 0 \in 0 .. MaxCheckTime + 1 /\ 0 \in 0 .. MaxUpdates
    BY StartupAssumption DEF StartupAssumption
  <2> QED
    BY <2>1, <2>2 DEF LinksType, LaterType
<1>6. StateType
  <2>1. 0 \in Replicas
    BY StartupAssumption DEF StartupAssumption, Replicas
  <2> QED
    BY <2>1 DEF Init, StateType
<1> QED
  BY <1>1, <1>2, <1>3, <1>4, <1>5, <1>6 DEF StartupTypeInv, OptionsType

(* The start-up keeps the types of its variables for every command line:   *)
(* masks have 32 bits, frames a length that devices accept, a port counts  *)
(* its queues, and sockets, replicas and rounds are below their limits.    *)
THEOREM StartupTypes == Spec => []TypeOK
<1>1. Spec => []ReadyInv
  BY InitReady, StepReady, PTL DEF Spec
<1>2. ReadyInv /\ StartupTypeInv /\ [Next]_vars => StartupTypeInv'
  BY OptionsStep, DevicesStep, LinksStep, StateStep, LaterStep
  DEF ReadyInv, StartupTypeInv
<1>3. ReadyInv /\ StartupTypeInv => TypeOK
  <2> SUFFICES ASSUME ReadyInv, StartupTypeInv
               PROVE  TypeOK
    OBVIOUS
  <2>1. /\ conf.enabled_port_mask \subseteq MaskBits
        /\ conf.numa_on \in BOOLEAN /\ conf.jumbo_frame \in BOOLEAN
        /\ conf.max_rx_pkt_len \in Frames
    <3>1. PICK V : conf \in Confs(V)
      BY DEF StartupTypeInv, OptionsType, IsConf
    <3>2. conf.enabled_port_mask \in SUBSET MaskBits
      BY ONLY <3>1 DEF Confs
    <3>3. conf.numa_on \in BOOLEAN /\ conf.jumbo_frame \in BOOLEAN
      BY ONLY <3>1 DEF Confs
    <3>4. conf.max_rx_pkt_len \in Frames
      BY ONLY <3>1 DEF Confs
    <3> QED
      BY <3>2, <3>3, <3>4
  <2>2. \A l \in Lcores : rx_queue_list[l] \subseteq DOMAIN conf.lcore_params
    BY DEF ReadyInv, ListsKept
  <2>3. /\ tx_queue_id \in [Lcores -> [PortIds -> Nat]]
        /\ lcore \in [Lcores -> {"wait", "launched", "polling", "returned"}]
    BY DEF ReadyInv, Shapes
  <2>4. DevicesType /\ LinksType /\ StateType /\ LaterType
    BY DEF StartupTypeInv
  <2> QED
    BY <2>1, <2>2, <2>3, <2>4, PTL
    DEF TypeOK, Frames, DevicesType, LinksType, StateType, LaterType
<1> QED
  BY <1>1, <1>2, <1>3, StartupTypesInit, PTL DEF Spec

-----------------------------------------------------------------------------
(* The controller: types.                                                  *)

\* A thread has a digest or a message only while it runs, and always a job.
HandsType ==
  \A t \in PoolThreads :
    /\ digest[t] # NULL => Runs(t, "input")
    /\ cell[t] # NULL => Runs(t, "output")
    /\ thread[t] = "runs" => job[t] \in Jobs

\* The descriptor to dispatch for is that of the connection accepted last.
ConnType == main \in {"dispatch_output", "sleep"} => conn \in Fds

\* The digests under way from a switch are those it sent last.
LastOf(q, n) == /\ Len(q) <= n
                /\ \A k \in 1 .. Len(q) : q[k] = n - Len(q) + k
UnderWay == \A c \in Conns : LastOf(to_controller[c], sent[c])

ControllerTypeInv == ControllerTypeOK /\ HandsType /\ ConnType /\ UnderWay

(* What fifo_add_msg leaves in a queue of its type.                        *)
LEMMA FifoAdds ==
  ASSUME NEW T, NEW q \in Seq(T), Len(q) <= QueueSize, NEW m \in T
  PROVE  /\ fifo_add_msg(q, m) \in Seq(T)
         /\ Len(fifo_add_msg(q, m)) <= QueueSize
<1>1. QueueSize \in Nat
  BY ControllerAssumption DEF ControllerAssumption
<1> QED
  BY <1>1 DEF fifo_add_msg

(* The head and the tail of a sequence that is not empty.                  *)
LEMMA HeadAndRest ==
  ASSUME NEW T, NEW q \in Seq(T), q # <<>>
  PROVE  /\ Head(q) \in T /\ Tail(q) \in Seq(T)
         /\ Len(q) \in Nat \ {0} /\ Len(Tail(q)) = Len(q) - 1
         /\ \A i \in 1 .. Len(q) - 1 : Tail(q)[i] = q[i + 1]
         /\ Head(q) = q[1]
  OBVIOUS

(* A switch that may send has not sent all digests.                        *)
LEMMA SentBelow ==
  ASSUME ControllerTypeOK, NEW c \in Conns, SentByAll < MaxDigests
  PROVE  sent[c] < MaxDigests
<1> DEFINE those == {d \in Digests : d[2] <= sent[d[1]]}
           mine  == 1 .. sent[c]
           f     == [k \in mine |-> <<c, k>>]
<1>1. MaxDigests \in Nat /\ MaxConns \in Nat /\ sent[c] \in 0 .. MaxDigests
  BY ControllerAssumption DEF ControllerAssumption, ControllerTypeOK
<1>2. IsFiniteSet(Digests)
  <2>1. IsFiniteSet(1 .. MaxConns) /\ IsFiniteSet(1 .. MaxDigests)
    BY <1>1, FS_Interval
  <2> QED
    BY <2>1, FS_Product DEF Digests, Conns
<1>3. IsFiniteSet(those)
  BY <1>2, FS_Subset
<1>4. \A k \in mine : <<c, k>> \in those
  BY <1>1 DEF Digests
<1>5. f \in Injection(mine, those)
  BY <1>4 DEF Injection, IsInjective
<1>6. Cardinality(mine) <= Cardinality(those)
  BY <1>3, <1>5, FS_Injection
<1>7. Cardinality(mine) = sent[c]
  BY <1>1, FS_Interval
<1>8. Cardinality(those) < MaxDigests /\ Cardinality(those) \in Nat
  BY <1>3, FS_CardinalityType DEF SentByAll
<1> QED
  BY <1>1, <1>6, <1>7, <1>8

(* What the assumptions on the constants say of the numbers.               *)
LEMMA Parameters ==
  /\ QueueSize \in Nat /\ InitMsgs \in Nat /\ DigestMsgs \in Nat
  /\ MaxConns \in Nat /\ MaxDigests \in Nat
  /\ NULL \notin Nat /\ NULL \notin Jobs /\ NULL \notin Digests
  BY ControllerAssumption DEF ControllerAssumption

(* The digests under way, one more sent.                                   *)
LEMMA OneMoreUnderWay ==
  ASSUME NEW T, NEW q \in Seq(T), NEW n \in Nat, LastOf(q, n)
  PROVE  LastOf(Append(q, n + 1), n + 1)
<1> DEFINE r == Append(q, n + 1)
<1>1. Len(q) \in Nat /\ Len(r) = Len(q) + 1 /\ r[Len(q) + 1] = n + 1
  OBVIOUS
<1>2. \A k \in 1 .. Len(q) : r[k] = q[k]
  OBVIOUS
<1> HIDE DEF r
<1>3. \A k \in 1 .. Len(r) : k \in 1 .. Len(q) \/ k = Len(q) + 1
  BY <1>1
<1>4. ASSUME NEW k \in 1 .. Len(r)
      PROVE  r[k] = n + 1 - Len(r) + k
  <2>1. CASE k \in 1 .. Len(q)
    <3>1. r[k] = n - Len(q) + k
      BY <1>2, <2>1 DEF LastOf
    <3> QED
      BY <1>1, <3>1
  <2>2. CASE k = Len(q) + 1
    BY <1>1, <2>2
  <2> QED
    BY <1>3, <2>1, <2>2
<1>5. Len(r) <= n + 1
  BY <1>1 DEF LastOf
<1> QED
  BY <1>4, <1>5 DEF r, LastOf

(* The digests under way, the first one read.                              *)
LEMMA OneLessUnderWay ==
  ASSUME NEW T, NEW q \in Seq(T), q # <<>>, NEW n \in Nat, LastOf(q, n)
  PROVE  LastOf(Tail(q), n) /\ Head(q) = n - Len(q) + 1
<1>1. /\ Len(q) \in Nat \ {0} /\ Len(Tail(q)) = Len(q) - 1
      /\ \A i \in 1 .. Len(q) - 1 : Tail(q)[i] = q[i + 1]
      /\ Head(q) = q[1]
  BY HeadAndRest
<1>2. Len(q) <= n /\ \A k \in 1 .. Len(q) : q[k] = n - Len(q) + k
  BY DEF LastOf
<1>3. \A i \in 1 .. Len(q) - 1 : Tail(q)[i] = n - Len(q) + (i + 1)
  BY <1>1, <1>2
<1> QED
  BY <1>1, <1>2, <1>3 DEF LastOf

(* They stay as long as none is sent or read.                              *)
LEMMA UnderWayStays ==
  UnderWay /\ to_controller' = to_controller /\ sent' = sent => UnderWay'
  BY DEF UnderWay

(* The types hold at the start, and every step keeps them: of the main     *)
(* thread, ...                                                             *)
LEMMA ControllerTypeInit == ControllerInit => ControllerTypeInv
  BY ControllerAssumption
  DEF ControllerAssumption, ControllerInit, ControllerTypeInv, ControllerTypeOK, HandsType,
      ConnType, UnderWay, LastOf, Runs

(* ... when it accepts a switch, dispatches for it and initialises it, ... *)
LEMMA ControllerTypeAccept == ControllerTypeInv /\ Accept => ControllerTypeInv'
<1> SUFFICES ASSUME ControllerTypeInv, Accept
             PROVE  ControllerTypeInv'
  OBVIOUS
<1> USE Parameters, UnderWayStays
    DEF ControllerTypeInv, ControllerTypeOK, HandsType, ConnType, Runs,
        network, exec, pool, work, fifos, MainGoto
<1>1. CASE accepts
  <2>1. /\ accepted' = accepted + 1 /\ accepted < MaxConns /\ main' = "dispatch_output"
        /\ UNCHANGED <<network, init_left, pool, work, fifos, length_valid, alive>>
    BY <1>1 DEF accepts, pending
  <2>2. accepted' \in 0 .. MaxConns
    BY <2>1
  <2>3. PICK f \in Fds : fd' = [fd EXCEPT ![f] = accepted'] /\ conn' = f
    BY <1>1 DEF accepts
  <2>4. fd' \in [Fds -> 0 .. MaxConns] /\ conn' \in Fds
    BY <2>2, <2>3
  <2> QED
    BY <2>1, <2>2, <2>4
<1>2. CASE accept_fails
  BY <1>2 DEF accept_fails, pending
<1>3. ASSUME NEW fn \in {"output", "input"}, dispatch(fn), conn \in Fds
      PROVE  /\ jobs' \in Seq(Jobs) /\ job' = job
             /\ thread' \in [PoolThreads -> {"blocked", "woken", "runs"}]
             /\ \A t \in PoolThreads : (thread'[t] = "runs") <=> (thread[t] = "runs")
  <2>1. [fn |-> fn, sock_fd |-> conn] \in Jobs
    BY <1>3 DEF Jobs
  <2>2. jobs' \in Seq(Jobs) /\ job' = job
    BY <1>3, <2>1 DEF dispatch
  <2>3. \/ thread' = thread
        \/ \E t \in PoolThreads : /\ thread[t] = "blocked"
                                 /\ thread' = [thread EXCEPT ![t] = "woken"]
    BY <1>3, Zenon DEF dispatch
  <2> QED
    BY <2>2, <2>3
<1>4. CASE dispatch_output
  BY <1>3, <1>4 DEF dispatch_output
<1>5. CASE dispatch_input
  BY <1>3, <1>5 DEF dispatch_input
<1>6. CASE init_sends
  <2>1. added' \in Nat
    BY <1>6 DEF init_sends, send_p4_msg
  <2>2. output_queue' \in Seq(Nat) /\ Len(output_queue') <= QueueSize
    BY <1>6, <2>1, FifoAdds DEF init_sends, send_p4_msg
  <2> QED
    BY <1>6, <2>1, <2>2 DEF init_sends
<1>7. CASE init_returns
  BY <1>7 DEF init_returns
<1> QED
  BY <1>1, <1>2, <1>4, <1>5, <1>6, <1>7 DEF Accept

(* ... when it reads a digest or learns that a switch is gone, ...         *)
LEMMA ControllerTypeRead ==
  ASSUME NEW f \in Fds
  PROVE  ControllerTypeInv /\ Read(f) => ControllerTypeInv'
<1> SUFFICES ASSUME ControllerTypeInv, Read(f)
             PROVE  ControllerTypeInv'
  OBVIOUS
<1> USE Parameters, UnderWayStays
    DEF ControllerTypeInv, ControllerTypeOK, HandsType, ConnType, Runs,
        network, exec, pool, work, fifos, MainGoto
<1>0. fd[f] # 0 => fd[f] \in Conns
  BY DEF Conns
<1>1. CASE main_reads(f)
  <2>1. fd[f] \in Conns /\ to_controller[fd[f]] \in Seq(1 .. MaxDigests)
    BY <1>0, <1>1 DEF main_reads
  <2>2. /\ Head(to_controller[fd[f]]) \in 1 .. MaxDigests
        /\ Tail(to_controller[fd[f]]) \in Seq(1 .. MaxDigests)
    BY <1>1, <2>1, HeadAndRest DEF main_reads
  <2>3. <<fd[f], Head(to_controller[fd[f]])>> \in Digests
    BY <2>1, <2>2 DEF Digests
  <2>4. input_queue' \in Seq(Digests) /\ Len(input_queue') <= QueueSize
    BY <1>1, <2>3, FifoAdds DEF main_reads
  <2>5. to_controller' \in [Conns -> Seq(1 .. MaxDigests)]
    BY <1>1, <2>1, <2>2 DEF main_reads
  <2>6. LastOf(Tail(to_controller[fd[f]]), sent[fd[f]])
    BY <1>1, <2>1, OneLessUnderWay DEF main_reads, UnderWay
  <2>7. UnderWay'
    BY <1>1, <2>1, <2>6 DEF main_reads, UnderWay
  <2> QED
    BY <1>1, <2>4, <2>5, <2>7 DEF main_reads
<1>2. CASE main_meets_eof(f)
  BY <1>2 DEF main_meets_eof
<1>3. CASE main_meets_error(f)
  BY <1>0, <1>3, SMTT(30) DEF main_meets_error
<1> QED
  BY <1>1, <1>2, <1>3 DEF Read

(* ... of the threads of the pool, ...                                     *)
LEMMA ControllerTypeWork ==
  ASSUME NEW t \in PoolThreads
  PROVE  ControllerTypeInv /\ Work(t) => ControllerTypeInv'
<1> SUFFICES ASSUME ControllerTypeInv, Work(t)
             PROVE  ControllerTypeInv'
  OBVIOUS
<1> USE Parameters, UnderWayStays
    DEF ControllerTypeInv, ControllerTypeOK, HandsType, ConnType, Runs,
        network, exec, pool, work, fifos
<1>1. CASE takes_job(t)
  <2>1. CASE jobs # <<>>
    <3>1. Head(jobs) \in Jobs /\ Tail(jobs) \in Seq(Jobs)
      BY <2>1, HeadAndRest
    <3>2. /\ thread' = [thread EXCEPT ![t] = "runs"]
          /\ job' = [job EXCEPT ![t] = Head(jobs)]
          /\ jobs' = Tail(jobs)
      BY <1>1, <2>1 DEF takes_job
    <3>3. HandsType'
      BY <1>1, <3>1, <3>2 DEF takes_job
    <3>4. ControllerTypeOK'
      BY <1>1, <3>1, <3>2 DEF takes_job
    <3> QED
      BY <1>1, <3>3, <3>4 DEF takes_job
  <2>2. CASE jobs = <<>>
    BY <1>1, <2>2 DEF takes_job
  <2> QED
    BY <2>1, <2>2
<1>2. CASE spurious_wakeup(t)
  BY <1>2 DEF spurious_wakeup
<1>3. CASE output_takes(t)
  <2>1. Head(output_queue) \in Nat /\ Tail(output_queue) \in Seq(Nat)
        /\ Len(Tail(output_queue)) <= QueueSize
    BY <1>3, HeadAndRest DEF output_takes
  <2> QED
    BY <1>3, <2>1 DEF output_takes
<1>4. CASE output_writes(t)
  <2>1. cell[t] \in Nat
    BY <1>4 DEF output_writes
  <2> QED
    BY <1>4, <2>1 DEF output_writes
<1>5. CASE input_takes(t)
  <2>1. Head(input_queue) \in Digests /\ Tail(input_queue) \in Seq(Digests)
        /\ Len(Tail(input_queue)) <= QueueSize
    BY <1>5, HeadAndRest DEF input_takes
  <2>2. /\ digest' = [digest EXCEPT ![t] = Head(input_queue)]
        /\ UNCHANGED <<cell, thread, job>> /\ Runs(t, "input")
    BY <1>5 DEF input_takes
  <2>3. HandsType'
    BY <2>2
  <2>4. /\ input_queue' = Tail(input_queue) /\ to_send' = DigestMsgs
        /\ UNCHANGED <<network, exec, pool, cell, handled, written, output_queue, added,
                       length_valid, alive>>
    BY <1>5 DEF input_takes
  <2>5. /\ digest' \in [PoolThreads -> Digests \union {NULL}]
        /\ to_send' \in 0 .. DigestMsgs
        /\ input_queue' \in Seq(Digests) /\ Len(input_queue') <= QueueSize
    BY <2>1, <2>2, <2>4
  <2>6. ControllerTypeOK'
    BY <2>4, <2>5
  <2> QED
    BY <2>3, <2>4, <2>6
<1>6. CASE input_sends(t)
  <2>1. added' \in Nat
    BY <1>6 DEF input_sends, send_p4_msg
  <2>2. output_queue' \in Seq(Nat) /\ Len(output_queue') <= QueueSize
    BY <1>6, <2>1, FifoAdds DEF input_sends, send_p4_msg
  <2>3. HandsType' /\ ConnType' /\ UnderWay'
    BY <1>6 DEF input_sends
  <2>4. /\ to_send > 0 /\ to_send' = to_send - 1
        /\ UNCHANGED <<network, exec, pool, cell, digest, handled, written, input_queue,
                       length_valid, alive>>
    BY <1>6 DEF input_sends
  <2>5. to_send' \in 0 .. DigestMsgs
    BY <2>4
  <2>6. ControllerTypeOK'
    BY <2>1, <2>2, <2>4, <2>5
  <2> QED
    BY <2>3, <2>6
<1>7. CASE input_frees(t)
  <2>1. digest[t] \in Digests
    BY <1>7 DEF input_frees
  <2> QED
    BY <1>7, <2>1 DEF input_frees
<1> QED
  BY <1>1, <1>2, <1>3, <1>4, <1>5, <1>6, <1>7 DEF Work

(* ... and of the switches.                                                *)
LEMMA ControllerTypeSwitch ==
  ASSUME NEW c \in Conns
  PROVE  ControllerTypeInv /\ Switch(c) => ControllerTypeInv'
<1> SUFFICES ASSUME ControllerTypeInv, Switch(c)
             PROVE  ControllerTypeInv'
  OBVIOUS
<1> USE Parameters, UnderWayStays
    DEF ControllerTypeInv, ControllerTypeOK, HandsType, ConnType, Runs,
        network, exec, pool, work, fifos
<1>1. CASE switch_connects(c)
  BY <1>1 DEF switch_connects
<1>2. CASE switch_sends(c)
  <2>1. sent[c] < MaxDigests /\ sent[c] \in 0 .. MaxDigests
    BY <1>2, SentBelow DEF switch_sends
  <2>7. sent[c] + 1 \in 1 .. MaxDigests
    BY ONLY <2>1, Parameters
  <2>8. sent' = [sent EXCEPT ![c] = sent[c] + 1]
    BY <1>2 DEF switch_sends
  <2>2. sent'[c] \in 1 .. MaxDigests /\ sent' \in [Conns -> 0 .. MaxDigests]
    BY <2>7, <2>8
  <2>3. to_controller' \in [Conns -> Seq(1 .. MaxDigests)]
    BY <1>2, <2>2 DEF switch_sends
  <2>4. LastOf(Append(to_controller[c], sent[c] + 1), sent[c] + 1)
    BY OneMoreUnderWay DEF UnderWay
  <2>5. sent'[c] = sent[c] + 1 /\ to_controller'[c] = Append(to_controller[c], sent[c] + 1)
    BY <1>2 DEF switch_sends
  <2>6. UnderWay'
    BY <1>2, <2>4, <2>5 DEF switch_sends, UnderWay
  <2> QED
    BY <1>2, <2>2, <2>3, <2>6 DEF switch_sends
<1>3. CASE switch_disconnects(c)
  <2>1. CASE peer' = [peer EXCEPT ![c] = "fin"] /\ UNCHANGED <<to_controller, sent>>
    BY <1>3, <2>1 DEF switch_disconnects
  <2>2. CASE /\ peer' = [peer EXCEPT ![c] = "rst"]
             /\ sent' = [sent EXCEPT ![c] = @ - Len(to_controller[c])]
             /\ to_controller' = [to_controller EXCEPT ![c] = <<>>]
    <3>1. sent[c] - Len(to_controller[c]) \in 0 .. MaxDigests
      <4>1. to_controller[c] \in Seq(1 .. MaxDigests) /\ sent[c] \in 0 .. MaxDigests
        OBVIOUS
      <4>2. Len(to_controller[c]) <= sent[c] /\ Len(to_controller[c]) \in Nat
        BY <4>1, LenProperties DEF UnderWay, LastOf
      <4> QED
        BY ONLY <4>1, <4>2, Parameters
    <3>2. /\ sent' \in [Conns -> 0 .. MaxDigests]
          /\ to_controller' \in [Conns -> Seq(1 .. MaxDigests)]
      <4>1. <<>> \in Seq(1 .. MaxDigests)
        OBVIOUS
      <4>2. sent \in [Conns -> 0 .. MaxDigests]
            /\ to_controller \in [Conns -> Seq(1 .. MaxDigests)]
        OBVIOUS
      <4> QED
        BY ONLY <2>2, <3>1, <4>1, <4>2
    <3>3. UnderWay'
      <4>1. sent'[c] \in Nat /\ LastOf(<<>>, sent'[c])
        BY <2>2, <3>1 DEF LastOf
      <4> QED
        BY <2>2, <4>1 DEF UnderWay
    <3> QED
      BY <1>3, <2>2, <3>2, <3>3 DEF switch_disconnects
  <2> QED
    BY <1>3, <2>1, <2>2 DEF switch_disconnects
<1> QED
  BY <1>1, <1>2, <1>3 DEF Switch

(* Together.                                                               *)
LEMMA ControllerTypeNext ==
  ControllerTypeInv /\ [ControllerNext]_controllervars => ControllerTypeInv'
<1> SUFFICES ASSUME ControllerTypeInv, [ControllerNext]_controllervars
             PROVE  ControllerTypeInv'
  OBVIOUS
<1>1. CASE dies \/ UNCHANGED controllervars
  <2>1. UNCHANGED <<network, exec, pool, work, fifos, length_valid>> /\ alive' \in BOOLEAN
    BY <1>1 DEF dies, controllervars, ControllerTypeInv, ControllerTypeOK
  <2> QED
    BY <2>1, UnderWayStays
    DEF ControllerTypeInv, ControllerTypeOK, HandsType, ConnType, Runs, network, exec, pool,
        work, fifos
<1> QED
  BY <1>1, ControllerTypeAccept, ControllerTypeRead, ControllerTypeWork, ControllerTypeSwitch
  DEF ControllerNext

-----------------------------------------------------------------------------
(* The controller: the jobs are taken in turn.                             *)

Outs  == {t \in PoolThreads : Runs(t, "output")}
Ins   == {t \in PoolThreads : Runs(t, "input")}
Taken == Cardinality(Outs) + Cardinality(Ins)

\* How many jobs execute_controller has dispatched, and the k-th of them.
Dispatched == IF length_valid
              THEN 2 * accepted - (CASE main = "dispatch_output" -> 2
                                     [] main = "sleep"           -> 1
                                     [] OTHER                    -> 0)
              ELSE 0
TurnOf(k) == IF k % 2 = 1 THEN "output" ELSE "input"

(* No job ever ends: those that run are the first that were dispatched, an *)
(* output_processor, an input_processor, and so on.  With three threads    *)
(* there is never a second input_processor, and for the first connection   *)
(* only one output_processor.                                              *)
InTurn == /\ Cardinality(Outs) \in {Cardinality(Ins), Cardinality(Ins) + 1}
          /\ Taken + Len(jobs) = Dispatched
          /\ \A i \in DOMAIN jobs : jobs[i].fn = TurnOf(Taken + i)
          /\ ~length_valid => main = "select"

(* The odd jobs are output_processors, the even ones input_processors.     *)
LEMMA Turns == \A k \in Nat : TurnOf(2 * k + 1) = "output" /\ TurnOf(2 * k + 2) = "input"
  BY DEF TurnOf

(* A thread runs one job, so no more than three are taken.                 *)
LEMMA SidesOf ==
  ASSUME NEW A, A \subseteq PoolThreads, NEW B, B \subseteq PoolThreads, A \intersect B = {}
  PROVE  /\ IsFiniteSet(A) /\ Cardinality(A) \in Nat
         /\ IsFiniteSet(B) /\ Cardinality(B) \in Nat
         /\ Cardinality(A) + Cardinality(B) <= 3
         /\ Cardinality(A) + Cardinality(B) = Cardinality(A \union B)
<1>1. IsFiniteSet(PoolThreads) /\ Cardinality(PoolThreads) = 3
  BY ControllerAssumption DEF ControllerAssumption
<1>2. IsFiniteSet(A) /\ IsFiniteSet(B)
  BY <1>1, FS_Subset
<1>3. Cardinality(A \union B) <= Cardinality(PoolThreads)
  <2>1. A \union B \subseteq PoolThreads
    OBVIOUS
  <2> QED
    BY <1>1, <2>1, FS_Subset
<1>4. Cardinality(A \union B) = Cardinality(A) + Cardinality(B) - Cardinality(A \intersect B)
  BY <1>2, FS_Union
<1>5. Cardinality(A \intersect B) = 0
  BY FS_EmptySet
<1>6. Cardinality(A) \in Nat /\ Cardinality(B) \in Nat
  BY <1>2, FS_CardinalityType
<1> QED
  BY <1>1, <1>2, <1>3, <1>4, <1>5, <1>6

(* The same of the threads that run an output_processor and those that run *)
(* an input_processor.                                                     *)
LEMMA Sides ==
  /\ IsFiniteSet(Outs) /\ Cardinality(Outs) \in Nat
  /\ IsFiniteSet(Ins) /\ Cardinality(Ins) \in Nat
  /\ Taken <= 3 /\ Taken \in Nat
<1>1. Outs \subseteq PoolThreads /\ Ins \subseteq PoolThreads /\ Outs \intersect Ins = {}
  BY DEF Outs, Ins, Runs
<1>2. /\ IsFiniteSet(Outs) /\ Cardinality(Outs) \in Nat
      /\ IsFiniteSet(Ins) /\ Cardinality(Ins) \in Nat
      /\ Cardinality(Outs) + Cardinality(Ins) <= 3
  BY <1>1, SidesOf, Zenon
<1> QED
  BY <1>2 DEF Taken

(* Of a set with one element at most, two elements are the same.           *)
LEMMA AtMostOne ==
  ASSUME NEW S, IsFiniteSet(S), Cardinality(S) <= 1, NEW s \in S, NEW t \in S
  PROVE  s = t
<1> SUFFICES ASSUME s # t PROVE FALSE
  OBVIOUS
<1>1. {s, t} \subseteq S
  OBVIOUS
<1>2. Cardinality({s, t}) = 2
  <2>1. IsFiniteSet({s}) /\ Cardinality({s}) = 1
    BY FS_Singleton
  <2>2. Cardinality({s} \union {t}) = Cardinality({s}) + 1
    BY <2>1, FS_AddElement
  <2>3. {s} \union {t} = {s, t}
    OBVIOUS
  <2> QED
    BY <2>1, <2>2, <2>3
<1>3. Cardinality({s, t}) <= Cardinality(S) /\ Cardinality(S) \in Nat
  BY <1>1, FS_Subset, FS_CardinalityType
<1> QED
  BY <1>2, <1>3

(* Only a thread that takes a job changes what runs.                       *)
LEMMA SidesStay ==
  ASSUME job' = job,
         \A t \in PoolThreads : (thread'[t] = "runs") <=> (thread[t] = "runs")
  PROVE  Outs' = Outs /\ Ins' = Ins /\ Taken' = Taken
<1>1. Outs' = Outs /\ Ins' = Ins
  BY DEF Outs, Ins, Runs
<1> QED
  BY <1>1 DEF Taken

(* At the start nothing runs and nothing was dispatched.                   *)
LEMMA InTurnInit == ControllerInit => InTurn
<1> SUFFICES ASSUME ControllerInit
             PROVE  InTurn
  OBVIOUS
<1>1. Outs = {} /\ Ins = {}
  BY DEF ControllerInit, Outs, Ins, Runs
<1>2. Taken = 0 /\ Cardinality(Outs) = Cardinality(Ins)
  BY <1>1, FS_EmptySet DEF Taken
<1>3. Len(jobs) = 0 /\ DOMAIN jobs = {} /\ main = "select" /\ Dispatched = 0
  BY DEF ControllerInit, Dispatched
<1> QED
  BY <1>2, <1>3 DEF InTurn

(* A thread takes the first job, which is the next in turn.                *)
LEMMA TakesInTurn ==
  ASSUME ControllerTypeInv, InTurn, NEW t \in PoolThreads, takes_job(t), jobs # <<>>
  PROVE  /\ Taken' = Taken + 1
         /\ Cardinality(Outs)' \in {Cardinality(Ins)', Cardinality(Ins)' + 1}
         /\ t \in (IF jobs[1].fn = "output" THEN Outs' ELSE Ins')
         /\ jobs[1].fn \in {"output", "input"}
<1>1. jobs \in Seq(Jobs) /\ Head(jobs) = jobs[1] /\ jobs[1] \in Jobs /\ 1 \in DOMAIN jobs
  BY HeadAndRest DEF ControllerTypeInv, ControllerTypeOK
<1>2. /\ thread[t] = "woken"
      /\ thread' = [thread EXCEPT ![t] = "runs"]
      /\ job' = [job EXCEPT ![t] = jobs[1]]
  BY <1>1 DEF takes_job
<1>3. /\ thread \in [PoolThreads -> {"blocked", "woken", "runs"}]
      /\ job \in [PoolThreads -> Jobs \union {NULL}]
  BY DEF ControllerTypeInv, ControllerTypeOK
<1>4. t \notin Outs /\ t \notin Ins
  BY <1>2 DEF Outs, Ins, Runs
<1>5. jobs[1].fn = TurnOf(Taken + 1) /\ jobs[1].fn \in {"output", "input"}
  BY <1>1 DEF InTurn, Jobs
<1>6. CASE Cardinality(Outs) = Cardinality(Ins)
  <2>1. Taken + 1 = 2 * Cardinality(Ins) + 1
    BY <1>6, Sides DEF Taken
  <2>2. jobs[1].fn = "output"
    BY <1>5, <2>1, Turns, Sides
  <2>3. Outs' = Outs \union {t} /\ Ins' = Ins
    BY <1>2, <1>3, <2>2 DEF Outs, Ins, Runs
  <2>4. Cardinality(Outs \union {t}) = Cardinality(Outs) + 1
    BY <1>4, Sides, FS_AddElement
  <2>5. Cardinality(Outs)' = Cardinality(Outs) + 1 /\ Cardinality(Ins)' = Cardinality(Ins)
    BY <2>3, <2>4
  <2> QED
    BY <1>6, <2>2, <2>3, <2>5, Sides DEF Taken
<1>7. CASE Cardinality(Outs) = Cardinality(Ins) + 1
  <2>1. Taken + 1 = 2 * Cardinality(Ins) + 2
    BY <1>7, Sides DEF Taken
  <2>2. jobs[1].fn = "input"
    BY <1>5, <2>1, Turns, Sides
  <2>3. Ins' = Ins \union {t} /\ Outs' = Outs
    BY <1>2, <1>3, <2>2 DEF Outs, Ins, Runs
  <2>4. Cardinality(Ins \union {t}) = Cardinality(Ins) + 1
    BY <1>4, Sides, FS_AddElement
  <2>5. Cardinality(Ins)' = Cardinality(Ins) + 1 /\ Cardinality(Outs)' = Cardinality(Outs)
    BY <2>3, <2>4
  <2> QED
    BY <1>7, <2>2, <2>3, <2>5, Sides DEF Taken
<1> QED
  BY <1>6, <1>7 DEF InTurn

(* A job is dispatched behind those that wait.                             *)
LEMMA DispatchesInTurn ==
  ASSUME ControllerTypeInv, InTurn, NEW fn \in {"output", "input"}, conn \in Fds,
         dispatch(fn), fn = TurnOf(Dispatched + 1), Dispatched' = Dispatched + 1
  PROVE  /\ Cardinality(Outs)' \in {Cardinality(Ins)', Cardinality(Ins)' + 1}
         /\ Taken' + Len(jobs') = Dispatched'
         /\ \A i \in DOMAIN jobs' : jobs'[i].fn = TurnOf(Taken' + i)
<1> DEFINE new == [fn |-> fn, sock_fd |-> conn]
<1>1. jobs \in Seq(Jobs) /\ new \in Jobs /\ new.fn = fn
  BY DEF ControllerTypeInv, ControllerTypeOK, Jobs
<1>2. jobs' = Append(jobs, new) /\ job' = job
  BY DEF dispatch
<1>3. \A t \in PoolThreads : (thread'[t] = "runs") <=> (thread[t] = "runs")
  <2>1. \/ thread' = thread
        \/ \E t \in PoolThreads : /\ thread[t] = "blocked"
                                 /\ thread' = [thread EXCEPT ![t] = "woken"]
    BY Zenon DEF dispatch
  <2> QED
    BY <2>1 DEF ControllerTypeInv, ControllerTypeOK
<1>4. Outs' = Outs /\ Ins' = Ins /\ Taken' = Taken
  BY <1>2, <1>3, SidesStay
<1> HIDE DEF new
<1>5. /\ Len(jobs) \in Nat /\ Len(jobs') = Len(jobs) + 1
      /\ DOMAIN jobs' = 1 .. Len(jobs) + 1 /\ DOMAIN jobs = 1 .. Len(jobs)
      /\ jobs'[Len(jobs) + 1] = new
      /\ \A i \in 1 .. Len(jobs) : jobs'[i] = jobs[i]
  BY <1>1, <1>2
<1>6. Taken + Len(jobs) = Dispatched /\ Taken \in Nat
  BY Sides DEF InTurn
<1>7. jobs'[Len(jobs) + 1].fn = TurnOf(Taken + (Len(jobs) + 1))
  <2>1. Taken + (Len(jobs) + 1) = Dispatched + 1
    BY <1>5, <1>6
  <2> QED
    BY <1>1, <1>5, <2>1
<1>8. ASSUME NEW i \in DOMAIN jobs'
      PROVE  jobs'[i].fn = TurnOf(Taken' + i)
  <2>1. i \in 1 .. Len(jobs) \/ i = Len(jobs) + 1
    BY <1>5
  <2> QED
    BY <1>4, <1>5, <1>7, <2>1 DEF InTurn
<1>9. Cardinality(Outs)' = Cardinality(Outs) /\ Cardinality(Ins)' = Cardinality(Ins)
  BY <1>4
<1> QED
  BY <1>4, <1>5, <1>6, <1>8, <1>9 DEF InTurn

(* The main thread dispatches in turn, for every connection both.          *)
LEMMA InTurnAccept == ControllerTypeInv /\ InTurn /\ Accept => InTurn'
<1> SUFFICES ASSUME ControllerTypeInv, InTurn, Accept
             PROVE  InTurn'
  OBVIOUS
<1>0. accepted \in Nat /\ length_valid \in BOOLEAN
  BY Parameters DEF ControllerTypeInv, ControllerTypeOK
<1>1. ASSUME UNCHANGED pool, UNCHANGED length_valid, Dispatched' = Dispatched,
             ~length_valid => main' = "select"
      PROVE  InTurn'
  <2>1. Outs' = Outs /\ Ins' = Ins /\ Taken' = Taken
    BY <1>1, SidesStay DEF pool
  <2>2. Cardinality(Outs)' = Cardinality(Outs) /\ Cardinality(Ins)' = Cardinality(Ins)
    BY <2>1
  <2> QED
    BY <1>1, <2>1, <2>2 DEF InTurn, pool
<1>2. CASE accepts
  <2>1. /\ length_valid /\ length_valid' = length_valid
        /\ main = "select" /\ main' = "dispatch_output" /\ accepted' = accepted + 1
        /\ UNCHANGED pool
    BY <1>2 DEF accepts, MainGoto
  <2>2. Dispatched' = Dispatched
    BY <1>0, <2>1 DEF Dispatched
  <2> QED
    BY <1>1, <2>1, <2>2
<1>3. CASE accept_fails
  <2>1. ~length_valid /\ length_valid' = length_valid /\ main' = "select" /\ UNCHANGED pool
    BY <1>3 DEF accept_fails, MainGoto
  <2>2. Dispatched' = Dispatched
    BY <2>1 DEF Dispatched
  <2> QED
    BY <1>1, <2>1, <2>2
<1>4. CASE dispatch_output
  <2>1. /\ main = "dispatch_output" /\ main' = "sleep" /\ dispatch("output")
        /\ UNCHANGED <<accepted, length_valid>> /\ length_valid
    BY <1>4 DEF dispatch_output, MainGoto, InTurn
  <2>2. Dispatched = 2 * accepted - 2 /\ Dispatched' = 2 * accepted - 1
    BY <1>0, <2>1 DEF Dispatched
  <2>3. Dispatched \in Nat
    <3>1. Taken + Len(jobs) \in Nat
      BY Sides DEF ControllerTypeInv, ControllerTypeOK
    <3> QED
      BY <3>1 DEF InTurn
  <2>4. accepted - 1 \in Nat
    BY <1>0, <2>2, <2>3
  <2>5. TurnOf(2 * (accepted - 1) + 1) = "output"
    BY <2>4, Turns
  <2>6. Dispatched + 1 = 2 * (accepted - 1) + 1 /\ Dispatched' = Dispatched + 1
    BY <1>0, <2>2
  <2>7. conn \in Fds
    BY <2>1 DEF ControllerTypeInv, ConnType
  <2> QED
    BY <2>1, <2>5, <2>6, <2>7, DispatchesInTurn DEF InTurn
<1>5. CASE dispatch_input
  <2>1. /\ main = "sleep" /\ main' = "init" /\ dispatch("input")
        /\ UNCHANGED <<accepted, length_valid>> /\ length_valid
    BY <1>5 DEF dispatch_input, MainGoto, InTurn
  <2>2. Dispatched = 2 * accepted - 1 /\ Dispatched' = 2 * accepted
    BY <1>0, <2>1 DEF Dispatched
  <2>3. Dispatched \in Nat
    <3>1. Taken + Len(jobs) \in Nat
      BY Sides DEF ControllerTypeInv, ControllerTypeOK
    <3> QED
      BY <3>1 DEF InTurn
  <2>4. accepted - 1 \in Nat
    BY <1>0, <2>2, <2>3
  <2>5. TurnOf(2 * (accepted - 1) + 2) = "input"
    BY <2>4, Turns
  <2>6. Dispatched + 1 = 2 * (accepted - 1) + 2 /\ Dispatched' = Dispatched + 1
    BY <1>0, <2>2
  <2>7. conn \in Fds
    BY <2>1 DEF ControllerTypeInv, ConnType
  <2> QED
    BY <2>1, <2>5, <2>6, <2>7, DispatchesInTurn DEF InTurn
<1>6. CASE init_sends \/ init_returns
  <2>1. /\ UNCHANGED pool /\ UNCHANGED <<accepted, length_valid>>
        /\ main = "init" /\ main' \in {"init", "select"}
    BY <1>6 DEF init_sends, init_returns, MainGoto
  <2>2. Dispatched' = Dispatched /\ (~length_valid => main' = "select")
    BY <2>1 DEF Dispatched, InTurn
  <2> QED
    BY <1>1, <2>1, <2>2
<1> QED
  BY <1>2, <1>3, <1>4, <1>5, <1>6 DEF Accept

(* A thread that takes a job, or finds none, keeps the turns.              *)
LEMMA InTurnTakes ==
  ASSUME NEW t \in PoolThreads
  PROVE  ControllerTypeInv /\ InTurn /\ takes_job(t) => InTurn'
<1> SUFFICES ASSUME ControllerTypeInv, InTurn, takes_job(t)
             PROVE  InTurn'
  OBVIOUS
<1>1. UNCHANGED <<main, accepted, length_valid>> /\ Dispatched' = Dispatched
  BY DEF takes_job, exec, Dispatched
<1>2. CASE jobs # <<>>
  <2>1. jobs \in Seq(Jobs) /\ jobs' = Tail(jobs)
    BY <1>2 DEF ControllerTypeInv, ControllerTypeOK, takes_job
  <2>2. /\ Len(jobs) \in Nat \ {0} /\ Len(jobs') = Len(jobs) - 1
        /\ \A i \in 1 .. Len(jobs) - 1 : jobs'[i] = jobs[i + 1]
    BY <1>2, <2>1, HeadAndRest
  <2>3. DOMAIN jobs = 1 .. Len(jobs) /\ DOMAIN jobs' = 1 .. Len(jobs) - 1
    BY <1>2, <2>1
  <2>4. Taken' = Taken + 1 /\ Taken \in Nat
        /\ Cardinality(Outs)' \in {Cardinality(Ins)', Cardinality(Ins)' + 1}
    BY <1>2, TakesInTurn, Sides
  <2>5. \A i \in DOMAIN jobs' : jobs'[i].fn = TurnOf(Taken' + i)
    <3> SUFFICES ASSUME NEW i \in DOMAIN jobs'
                 PROVE  jobs'[i].fn = TurnOf(Taken' + i)
      OBVIOUS
    <3>1. i + 1 \in DOMAIN jobs /\ jobs'[i] = jobs[i + 1] /\ Taken + (i + 1) = Taken' + i
      BY <2>2, <2>3, <2>4
    <3> QED
      BY <3>1 DEF InTurn
  <2>6. Taken' + Len(jobs') = Taken + Len(jobs)
    BY <2>2, <2>4
  <2> QED
    BY <1>1, <2>4, <2>5, <2>6 DEF InTurn
<1>3. CASE jobs = <<>>
  <2>1. job' = job /\ jobs' = jobs /\ thread[t] = "woken"
        /\ thread' = [thread EXCEPT ![t] = "blocked"]
    BY <1>3 DEF takes_job
  <2>2. Outs' = Outs /\ Ins' = Ins /\ Taken' = Taken
    BY <2>1, SidesStay DEF ControllerTypeInv, ControllerTypeOK
  <2>3. Cardinality(Outs)' = Cardinality(Outs) /\ Cardinality(Ins)' = Cardinality(Ins)
    BY <2>2
  <2> QED
    BY <1>1, <2>1, <2>2, <2>3 DEF InTurn
<1> QED
  BY <1>2, <1>3

-----------------------------------------------------------------------------
(* The controller: the queues are served.                                  *)

(* The first two jobs were given to threads, or to threads that wake up;   *)
(* of a later job that cannot be said.                                     *)
ServedInv == /\ Dispatched >= 1 => Served("output")
             /\ Dispatched >= 2 => Served("input")

(* The threads that wake up are counted.                                   *)
LEMMA WokenIs == Woken \subseteq PoolThreads /\ IsFiniteSet(Woken) /\ Cardinality(Woken) \in Nat
<1>1. Woken \subseteq PoolThreads
  BY DEF Woken
<1>2. IsFiniteSet(PoolThreads)
  BY ControllerAssumption DEF ControllerAssumption
<1> QED
  BY <1>1, <1>2, FS_Subset, FS_CardinalityType

(* A queue stays served while threads only wake up and jobs are added.     *)
LEMMA ServedStays ==
  ASSUME NEW fn, Served(fn), jobs \in Seq(Jobs), jobs' \in Seq(Jobs),
         Len(jobs) <= Len(jobs'), \A i \in DOMAIN jobs : jobs'[i] = jobs[i],
         Outs' = Outs, Ins' = Ins, fn \in {"output", "input"}, Woken \subseteq Woken'
  PROVE  Served(fn)'
<1>1. CASE \E t \in PoolThreads : Runs(t, fn)
  <2>1. \E t \in PoolThreads : Runs(t, fn)'
    BY <1>1 DEF Outs, Ins
  <2> QED
    BY <2>1 DEF Served
<1>2. CASE \E i \in DOMAIN jobs : jobs[i].fn = fn /\ i <= Cardinality(Woken)
  <2>1. PICK i \in DOMAIN jobs : jobs[i].fn = fn /\ i <= Cardinality(Woken)
    BY <1>2
  <2>2. IsFiniteSet(PoolThreads) /\ Woken' \subseteq PoolThreads
    BY ControllerAssumption DEF ControllerAssumption, Woken
  <2>3. Cardinality(Woken) <= Cardinality(Woken') /\ Cardinality(Woken') \in Nat
    BY <2>2, FS_Subset, FS_CardinalityType
  <2>4. i \in Nat /\ i \in DOMAIN jobs' /\ jobs'[i].fn = fn
    BY <2>1
  <2>5. i <= Cardinality(Woken')
    BY <2>1, <2>3, <2>4, WokenIs
  <2> QED
    BY <2>4, <2>5 DEF Served
<1> QED
  BY <1>1, <1>2 DEF Served

(* It also stays served when a thread takes the first job.                 *)
LEMMA ServedTakes ==
  ASSUME ControllerTypeInv, InTurn, NEW t \in PoolThreads, takes_job(t),
         NEW fn \in {"output", "input"}, Served(fn)
  PROVE  Served(fn)'
<1>1. CASE jobs = <<>>
  <2>1. job' = job /\ jobs' = jobs /\ thread[t] = "woken"
        /\ thread' = [thread EXCEPT ![t] = "blocked"]
    BY <1>1 DEF takes_job
  <2>2. \E s \in PoolThreads : Runs(s, fn)
    BY <1>1 DEF Served
  <2>3. \E s \in PoolThreads : Runs(s, fn)'
    BY <2>1, <2>2 DEF Runs, ControllerTypeInv, ControllerTypeOK
  <2> QED
    BY <2>3 DEF Served
<1>2. CASE jobs # <<>>
  <2>1. /\ jobs \in Seq(Jobs) /\ jobs' = Tail(jobs) /\ thread[t] = "woken"
        /\ thread' = [thread EXCEPT ![t] = "runs"]
        /\ job' = [job EXCEPT ![t] = Head(jobs)]
        /\ thread \in [PoolThreads -> {"blocked", "woken", "runs"}]
        /\ job \in [PoolThreads -> Jobs \union {NULL}]
    BY <1>2 DEF takes_job, ControllerTypeInv, ControllerTypeOK
  <2>2. CASE \E s \in PoolThreads : Runs(s, fn)
    <3>1. \E s \in PoolThreads : Runs(s, fn)'
      BY <2>1, <2>2 DEF Runs
    <3> QED
      BY <3>1 DEF Served
  <2>3. CASE \E i \in DOMAIN jobs : jobs[i].fn = fn /\ i <= Cardinality(Woken)
    <3>1. PICK i \in DOMAIN jobs : jobs[i].fn = fn /\ i <= Cardinality(Woken)
      BY <2>3
    <3>2. CASE i = 1
      <4>1. t \in (IF fn = "output" THEN Outs' ELSE Ins')
        BY <1>2, <3>1, <3>2, TakesInTurn
      <4>2. \E s \in PoolThreads : Runs(s, fn)'
        BY <4>1 DEF Outs, Ins
      <4> QED
        BY <4>2 DEF Served
    <3>3. CASE i # 1
      <4>1. /\ Len(jobs) \in Nat \ {0} /\ Len(jobs') = Len(jobs) - 1
            /\ \A k \in 1 .. Len(jobs) - 1 : jobs'[k] = jobs[k + 1]
        BY <1>2, <2>1, HeadAndRest
      <4>2. DOMAIN jobs = 1 .. Len(jobs) /\ DOMAIN jobs' = 1 .. Len(jobs) - 1
        BY <1>2, <2>1
      <4>3. i - 1 \in DOMAIN jobs' /\ jobs'[i - 1] = jobs[i] /\ i \in Nat
        BY <3>1, <3>3, <4>1, <4>2
      <4>4. Woken' = Woken \ {t} /\ t \in Woken
        BY <2>1 DEF Woken
      <4>5. Cardinality(Woken \ {t}) = Cardinality(Woken) - 1
        BY <4>4, WokenIs, FS_RemoveElement
      <4>6. i - 1 <= Cardinality(Woken)'
        BY <3>1, <4>3, <4>4, <4>5, WokenIs
      <4> QED
        BY <3>1, <4>3, <4>6 DEF Served
    <3> QED
      BY <3>2, <3>3
  <2> QED
    BY <2>2, <2>3, <1>2 DEF Served
<1> QED
  BY <1>1, <1>2

(* A job dispatched to an empty list wakes a thread up, unless all threads *)
(* run or are on their way.                                                *)
LEMMA DispatchWakes ==
  ASSUME ControllerTypeInv, NEW fn \in {"output", "input"}, conn \in Fds, dispatch(fn),
         jobs = <<>>, Taken <= 2
  PROVE  Served(fn)'
<1> DEFINE new == [fn |-> fn, sock_fd |-> conn]
<1>1. jobs' = <<new>> /\ new.fn = fn
  BY DEF dispatch
<1>2. DOMAIN jobs' = {1} /\ jobs'[1].fn = fn
  BY <1>1
<1>3. thread \in [PoolThreads -> {"blocked", "woken", "runs"}]
  BY DEF ControllerTypeInv, ControllerTypeOK
<1>4. \E t \in PoolThreads : thread'[t] = "woken"
  <2>1. CASE \E t \in PoolThreads : thread[t] = "blocked"
    <3>1. \E t \in PoolThreads : thread' = [thread EXCEPT ![t] = "woken"]
      BY <2>1, Zenon DEF dispatch
    <3> QED
      BY <1>3, <3>1
  <2>2. CASE \A t \in PoolThreads : thread[t] # "blocked"
    <3>1. thread' = thread
      BY <2>2, Zenon DEF dispatch
    <3>2. \E t \in PoolThreads : thread[t] # "runs"
      <4> SUFFICES ASSUME \A t \in PoolThreads : thread[t] = "runs"
                   PROVE  FALSE
        OBVIOUS
      <4>1. \A t \in PoolThreads : job[t].fn \in {"output", "input"}
        BY DEF ControllerTypeInv, HandsType, Jobs
      <4>2. Outs \union Ins = PoolThreads
        BY <4>1 DEF Outs, Ins, Runs
      <4>3. Outs \subseteq PoolThreads /\ Ins \subseteq PoolThreads /\ Outs \intersect Ins = {}
        BY DEF Outs, Ins, Runs
      <4>4. Cardinality(Outs) + Cardinality(Ins) = Cardinality(Outs \union Ins)
        BY <4>3, SidesOf, Zenon
      <4>5. Cardinality(PoolThreads) = 3
        BY ControllerAssumption DEF ControllerAssumption
      <4>6. Taken = 3
        BY <4>2, <4>4, <4>5 DEF Taken
      <4> QED
        BY <4>6
    <3> QED
      BY <1>3, <2>2, <3>1, <3>2
  <2> QED
    BY <2>1, <2>2
<1>5. Cardinality(Woken') >= 1
  <2>1. PICK t \in PoolThreads : thread'[t] = "woken"
    BY <1>4
  <2>2. IsFiniteSet(PoolThreads) /\ Woken' \subseteq PoolThreads /\ {t} \subseteq Woken'
    BY <2>1, ControllerAssumption DEF ControllerAssumption, Woken
  <2>3. IsFiniteSet(Woken')
    BY <2>2, FS_Subset
  <2>4. Cardinality({t}) <= Cardinality(Woken') /\ Cardinality({t}) = 1
    BY <2>2, <2>3, FS_Subset, FS_Singleton
  <2>5. Cardinality(Woken') \in Nat
    BY <2>3, FS_CardinalityType
  <2> QED
    BY <2>4, <2>5
<1> QED
  BY <1>2, <1>5 DEF Served

(* The main thread keeps the queues served. The first output_processor     *)
(* meets idle threads only, the first input_processor a pool in which one  *)
(* thread runs and none wakes up.                                          *)
LEMMA ServedAccept ==
  ControllerTypeInv /\ InTurn /\ InTurn' /\ ServedInv /\ Accept => ServedInv'
<1> SUFFICES ASSUME ControllerTypeInv, InTurn, ServedInv, Accept
             PROVE  ServedInv'
  OBVIOUS
<1>0. /\ accepted \in Nat /\ length_valid \in BOOLEAN
      /\ jobs \in Seq(Jobs) /\ Len(jobs) \in Nat
      /\ thread \in [PoolThreads -> {"blocked", "woken", "runs"}]
  BY Parameters DEF ControllerTypeInv, ControllerTypeOK
<1>1. ASSUME NEW fn \in {"output", "input"}, dispatch(fn), conn \in Fds
      PROVE  \A any \in {"output", "input"} : Served(any) => Served(any)'
  <2>1. [fn |-> fn, sock_fd |-> conn] \in Jobs
    BY <1>1 DEF Jobs
  <2>2. /\ jobs' = Append(jobs, [fn |-> fn, sock_fd |-> conn]) /\ job' = job
    BY <1>1 DEF dispatch
  <2>3. /\ jobs' \in Seq(Jobs) /\ Len(jobs) <= Len(jobs')
        /\ \A i \in DOMAIN jobs : jobs'[i] = jobs[i]
    BY <1>0, <2>1, <2>2
  <2>4. \/ thread' = thread
        \/ \E t \in PoolThreads : /\ thread[t] = "blocked"
                                 /\ thread' = [thread EXCEPT ![t] = "woken"]
    BY <1>1, Zenon DEF dispatch
  <2>5. Outs' = Outs /\ Ins' = Ins /\ Woken \subseteq Woken'
    BY <1>0, <2>2, <2>4 DEF Outs, Ins, Runs, Woken
  <2> QED
    BY <1>0, <2>3, <2>5, ServedStays
<1>2. CASE accepts \/ accept_fails \/ init_sends \/ init_returns
  <2>1. UNCHANGED pool /\ length_valid' = length_valid
    BY <1>2 DEF accepts, accept_fails, init_sends, init_returns
  <2>2. Dispatched' = Dispatched
    <3>1. CASE accepts
      BY <1>0, <2>1, <3>1 DEF accepts, MainGoto, Dispatched
    <3>2. CASE accept_fails
      BY <1>0, <2>1, <3>2 DEF accept_fails, Dispatched
    <3>3. CASE init_sends \/ init_returns
      BY <1>0, <2>1, <3>3 DEF init_sends, init_returns, MainGoto, Dispatched
    <3> QED
      BY <1>2, <3>1, <3>2, <3>3
  <2>3. \A any : Served(any)' <=> Served(any)
    BY <2>1 DEF Served, Runs, Woken, pool
  <2> QED
    BY <2>2, <2>3 DEF ServedInv
<1>3. CASE dispatch_output
  <2>1. /\ main = "dispatch_output" /\ main' = "sleep" /\ dispatch("output")
        /\ UNCHANGED <<accepted, length_valid>> /\ length_valid /\ conn \in Fds
    BY <1>3 DEF dispatch_output, MainGoto, InTurn, ControllerTypeInv, ConnType
  <2>2. Dispatched = 2 * accepted - 2 /\ Dispatched' = 2 * accepted - 1
    BY <1>0, <2>1 DEF Dispatched
  <2>3. CASE Dispatched = 0
    <3>1. Taken = 0 /\ Len(jobs) = 0
      BY <1>0, <2>3, Sides DEF InTurn
    <3>2. jobs = <<>>
      BY <1>0, <3>1
    <3>3. Served("output")'
      BY <2>1, <3>1, <3>2, DispatchWakes
    <3>4. Dispatched' = 1
      BY <1>0, <2>2, <2>3
    <3> QED
      BY <3>3, <3>4 DEF ServedInv
  <2>4. CASE Dispatched # 0
    <3>1. Dispatched \in Nat
      BY <1>0, Sides DEF InTurn
    <3>2. Dispatched >= 2
      BY <1>0, <2>2, <2>4, <3>1
    <3>3. Dispatched >= 1
      BY <3>1, <3>2
    <3> QED
      BY <1>1, <2>1, <3>2, <3>3 DEF ServedInv
  <2> QED
    BY <2>3, <2>4
<1>4. CASE dispatch_input
  <2>1. /\ main = "sleep" /\ main' = "init" /\ dispatch("input")
        /\ UNCHANGED <<accepted, length_valid>> /\ length_valid /\ conn \in Fds
        /\ \A t \in PoolThreads : thread[t] # "woken"
    BY <1>4 DEF dispatch_input, MainGoto, InTurn, ControllerTypeInv, ConnType
  <2>2. Dispatched = 2 * accepted - 1 /\ Dispatched' = 2 * accepted
    BY <1>0, <2>1 DEF Dispatched
  <2>3. CASE Dispatched = 1
    <3>1. Served("output")
      BY <2>3 DEF ServedInv
    <3>2. Woken = {} /\ Cardinality(Woken) = 0
      <4>1. Woken = {}
        BY <2>1 DEF Woken
      <4> QED
        BY <4>1, FS_EmptySet
    <3>3. Outs # {}
      BY <1>0, <3>1, <3>2 DEF Served, Outs
    <3>4. Taken # 0
      <4>1. Cardinality(Outs) # 0
        BY <3>3, Sides, FS_EmptySet
      <4> QED
        BY <4>1, Sides DEF Taken
    <3>5. Taken = 1 /\ Len(jobs) = 0
      BY <1>0, <2>3, <3>4, Sides DEF InTurn
    <3>6. jobs = <<>>
      BY <1>0, <3>5
    <3>7. Served("input")'
      BY <2>1, <3>5, <3>6, DispatchWakes
    <3> QED
      BY <1>1, <2>1, <3>1, <3>7 DEF ServedInv
  <2>4. CASE Dispatched # 1
    <3>1. Dispatched \in Nat
      BY <1>0, Sides DEF InTurn
    <3>2. Dispatched >= 2
      BY <1>0, <2>2, <2>4, <3>1
    <3>3. Dispatched >= 1
      BY <3>1, <3>2
    <3> QED
      BY <1>1, <2>1, <3>2, <3>3 DEF ServedInv
  <2> QED
    BY <2>3, <2>4
<1> QED
  BY <1>2, <1>3, <1>4 DEF Accept

(* Every step keeps the turns and the queues served.                       *)
LEMMA PoolNext ==
  ControllerTypeInv /\ InTurn /\ ServedInv /\ [ControllerNext]_controllervars
    => InTurn' /\ ServedInv'
<1> SUFFICES ASSUME ControllerTypeInv, InTurn, ServedInv, [ControllerNext]_controllervars
             PROVE  InTurn' /\ ServedInv'
  OBVIOUS
<1>1. CASE Accept
  BY <1>1, InTurnAccept, ServedAccept
<1>2. ASSUME NEW t \in PoolThreads, takes_job(t)
      PROVE  InTurn' /\ ServedInv'
  <2>1. Dispatched' = Dispatched
    BY <1>2 DEF takes_job, exec, Dispatched
  <2>2. Served("output") => Served("output")'
    BY <1>2, ServedTakes
  <2>3. Served("input") => Served("input")'
    BY <1>2, ServedTakes
  <2> QED
    BY <1>2, <2>1, <2>2, <2>3, InTurnTakes DEF ServedInv
<1>3. ASSUME NEW t \in PoolThreads, spurious_wakeup(t)
      PROVE  InTurn' /\ ServedInv'
  <2>1. /\ Dispatched' = Dispatched /\ UNCHANGED <<jobs, job, main, length_valid>>
        /\ thread[t] = "blocked" /\ thread' = [thread EXCEPT ![t] = "woken"]
    BY <1>3 DEF spurious_wakeup, exec, Dispatched
  <2>2. thread \in [PoolThreads -> {"blocked", "woken", "runs"}] /\ jobs \in Seq(Jobs)
    BY DEF ControllerTypeInv, ControllerTypeOK
  <2>3. Outs' = Outs /\ Ins' = Ins /\ Woken \subseteq Woken'
    BY <2>1, <2>2 DEF Outs, Ins, Runs, Woken
  <2>4. /\ Cardinality(Outs)' = Cardinality(Outs) /\ Cardinality(Ins)' = Cardinality(Ins)
        /\ Taken' = Taken
    BY <2>3 DEF Taken
  <2>5. \A fn \in {"output", "input"} : Served(fn) => Served(fn)'
    BY <2>1, <2>2, <2>3, ServedStays
  <2>6. InTurn'
    BY <2>1, <2>4 DEF InTurn
  <2> QED
    BY <2>1, <2>5, <2>6 DEF ServedInv
<1>4. ASSUME UNCHANGED <<pool, main, accepted, length_valid>>
      PROVE  InTurn' /\ ServedInv'
  BY <1>4 DEF InTurn, ServedInv, Served, Dispatched, Taken, Outs, Ins, Woken, Runs, pool
<1>5. ASSUME NEW f \in Fds, Read(f)
      PROVE  UNCHANGED <<pool, main, accepted, length_valid>>
  BY <1>5 DEF Read, main_reads, main_meets_eof, main_meets_error, MainGoto
<1>6. ASSUME NEW t \in PoolThreads,
             \/ output_takes(t) \/ output_writes(t) \/ input_takes(t)
             \/ input_sends(t) \/ input_frees(t)
      PROVE  UNCHANGED <<pool, main, accepted, length_valid>>
  BY <1>6 DEF output_takes, output_writes, input_takes, input_sends, input_frees, exec
<1>7. ASSUME NEW c \in Conns, Switch(c)
      PROVE  UNCHANGED <<pool, main, accepted, length_valid>>
  BY <1>7 DEF Switch, switch_connects, switch_sends, switch_disconnects, exec
<1>8. CASE dies \/ UNCHANGED controllervars
  BY <1>4, <1>8 DEF dies, controllervars, exec
<1> QED
  BY <1>1, <1>2, <1>3, <1>4, <1>5, <1>6, <1>7, <1>8 DEF ControllerNext, Work

ControllerInv == ControllerTypeInv /\ InTurn /\ ServedInv

(* The inductive invariant about the pool.                                 *)
LEMMA ControllerInvCorrect == ControllerSpec => []ControllerInv
<1>1. ControllerInit => ControllerInv
  <2> SUFFICES ASSUME ControllerInit
               PROVE  ControllerInv
    OBVIOUS
  <2>1. Dispatched = 0
    BY DEF ControllerInit, Dispatched
  <2> QED
    BY <2>1, ControllerTypeInit, InTurnInit DEF ControllerInv, ServedInv
<1>2. ControllerInv /\ [ControllerNext]_controllervars => ControllerInv'
  BY ControllerTypeNext, PoolNext DEF ControllerInv
<1> QED
  BY <1>1, <1>2, PTL DEF ControllerSpec

(* Each of the queues has a thread or gets one once the first switch is    *)
(* initialised, however many switches connect and threads wake up without  *)
(* a signal.                                                               *)
THEOREM QueuesAlwaysServed == ControllerSpec => []QueuesAreServed
<1>1. ControllerInv => QueuesAreServed
  <2> SUFFICES ASSUME ControllerInv, main \in {"init", "select"}, accepted > 0, length_valid
               PROVE  Served("output") /\ Served("input")
    BY DEF QueuesAreServed
  <2>1. accepted \in Nat
    BY Parameters DEF ControllerInv, ControllerTypeInv, ControllerTypeOK
  <2>2. Dispatched = 2 * accepted
    BY <2>1 DEF Dispatched
  <2>3. Dispatched >= 2 /\ Dispatched >= 1
    BY <2>1, <2>2
  <2> QED
    BY <2>3 DEF ControllerInv, ServedInv
<1> QED
  BY <1>1, ControllerInvCorrect, PTL

-----------------------------------------------------------------------------
(* The controller: order.                                                  *)

(* An element that moves from the head of a queue into a hand, or from a   *)
(* hand to the end of what is done, leaves the three the same sequence.    *)
LEMMA ThroughHand ==
  ASSUME NEW T, NEW a \in Seq(T), NEW q \in Seq(T), NEW x \in T
  PROVE  /\ q # <<>> => a \o <<Head(q)>> \o Tail(q) = a \o <<>> \o q
         /\ Append(a, x) \o <<>> \o q = a \o <<x>> \o q
<1>1. a \o <<>> = a
  BY ConcatEmptySeq
<1>2. ASSUME q # <<>>
      PROVE  a \o <<Head(q)>> \o Tail(q) = a \o q
  <2>1. Head(q) \in T /\ Tail(q) \in Seq(T)
    BY <1>2, HeadTailProperties
  <2>2. <<Head(q)>> \in Seq(T)
    BY <2>1
  <2>3. <<Head(q)>> \o Tail(q) = q
    BY <1>2, <2>1
  <2>4. (a \o <<Head(q)>>) \o Tail(q) = a \o (<<Head(q)>> \o Tail(q))
    BY <2>1, <2>2, ConcatAssociative
  <2> QED
    BY <2>3, <2>4
<1>3. Append(a, x) = a \o <<x>> /\ Append(a, x) \in Seq(T)
  BY AppendIsConcat, AppendProperties
<1>4. Append(a, x) \o <<>> = Append(a, x)
  BY <1>3, ConcatEmptySeq
<1> QED
  BY <1>1, <1>2, <1>3, <1>4

(* What is added to the queue comes last.                                  *)
LEMMA AddedLast ==
  ASSUME NEW T, NEW a \in Seq(T), NEW h \in Seq(T), NEW q \in Seq(T), NEW x \in T
  PROVE  /\ a \o h \o q \in Seq(T)
         /\ a \o h \o Append(q, x) = Append(a \o h \o q, x)
<1>1. a \o h \in Seq(T) /\ a \o h \o q \in Seq(T)
  <2>1. a \o h \in Seq(T)
    BY ConcatProperties
  <2> QED
    BY <2>1, ConcatProperties
<1>2. <<x>> \in Seq(T) /\ Append(q, x) = q \o <<x>>
  BY AppendIsConcat
<1>3. ((a \o h) \o q) \o <<x>> = (a \o h) \o (q \o <<x>>)
  <2> DEFINE p == a \o h
             l == <<x>>
  <2>1. p \in Seq(T) /\ l \in Seq(T)
    BY <1>1, <1>2
  <2> HIDE DEF p, l
  <2>2. (p \o q) \o l = p \o (q \o l)
    BY <2>1, ConcatAssociative, SMTT(30)
  <2> QED
    BY <2>2 DEF p, l
<1>4. Append(a \o h \o q, x) = (a \o h \o q) \o <<x>>
  BY <1>1, AppendIsConcat
<1> QED
  BY <1>1, <1>2, <1>3, <1>4

(* What threads that are none, or one, have in their hands.                *)
LEMMA InHandIs ==
  ASSUME NEW of
  PROVE  /\ InHand({}, of) = <<>>
         /\ \A t : InHand({t}, of) = <<of[t]>>
<1>1. ASSUME NEW t
      PROVE  InHand({t}, of) = <<of[t]>>
  <2>1. (CHOOSE s \in {t} : TRUE) = t
    OBVIOUS
  <2> QED
    BY <2>1 DEF InHand
<1> QED
  BY <1>1 DEF InHand

(* The type of what threads have in their hands.                           *)
LEMMA InHandType ==
  ASSUME NEW T, NEW threads, NEW of, \A t \in threads : of[t] \in T
  PROVE  InHand(threads, of) \in Seq(T)
<1>1. CASE threads = {}
  BY <1>1 DEF InHand
<1>2. CASE threads # {}
  <2>1. (CHOOSE t \in threads : TRUE) \in threads
    BY <1>2
  <2>2. of[CHOOSE t \in threads : TRUE] \in T
    BY <2>1
  <2> QED
    BY <1>2, <2>2 DEF InHand
<1> QED
  BY <1>1, <1>2

(* There is one thread at most that handles digests ...                    *)
LEMMA HandlingAlone ==
  ASSUME ControllerTypeInv, InTurn
  PROVE  /\ Handling \subseteq Ins /\ Cardinality(Ins) <= 1
         /\ \A s, t \in Ins : s = t
<1>1. Handling \subseteq Ins
  BY DEF Handling, Ins, ControllerTypeInv, HandsType
<1>2. Cardinality(Ins) <= 1
  BY Sides DEF InTurn, Taken
<1>3. ASSUME NEW s \in Ins, NEW t \in Ins
      PROVE  s = t
  BY <1>2, Sides, AtMostOne
<1> QED
  BY <1>1, <1>2, <1>3

(* ... and, for the first connection, one at most that writes.             *)
LEMMA WritingAlone ==
  ASSUME ControllerTypeInv, InTurn, accepted <= 1
  PROVE  /\ Writing \subseteq Outs
         /\ \A s, t \in Outs : s = t
<1>1. Writing \subseteq Outs
  BY DEF Writing, Outs, ControllerTypeInv, HandsType
<1>2. Dispatched <= 2
  <2>1. accepted \in Nat
    BY Parameters DEF ControllerTypeInv, ControllerTypeOK
  <2> QED
    BY <2>1 DEF Dispatched
<1>3. Taken + Len(jobs) = Dispatched /\ Len(jobs) \in Nat
  BY DEF InTurn, ControllerTypeInv, ControllerTypeOK
<1>4. Taken <= 2
  <2>1. Dispatched \in Nat
    BY <1>3, Sides
  <2> QED
    BY <1>2, <1>3, <2>1, Sides
<1>5. Cardinality(Outs) <= 1
  BY <1>4, Sides DEF InTurn, Taken
<1>6. ASSUME NEW s \in Outs, NEW t \in Outs
      PROVE  s = t
  BY <1>5, Sides, AtMostOne
<1> QED
  BY <1>1, <1>6

\* How many digests of a switch the controller has read from its connection.
read_of == [c \in Conns |-> sent[c] - Len(to_controller[c])]

(* The digests taken over are in order, and were read.                     *)
Ordered(s) == \A i, j \in DOMAIN s : i < j /\ s[i][1] = s[j][1] => s[i][2] < s[j][2]
DigestsInv == /\ Ordered(taken_over)
              /\ \A i \in DOMAIN taken_over : taken_over[i][2] <= read_of[taken_over[i][1]]

(* The digests taken over are digests.                                     *)
LEMMA TakenOverType ==
  ASSUME ControllerTypeInv
  PROVE  taken_over \in Seq(Digests) /\ InHand(Handling, digest) \in Seq(Digests)
<1>1. \A t \in Handling : digest[t] \in Digests
  BY DEF Handling, ControllerTypeInv, ControllerTypeOK
<1>2. InHand(Handling, digest) \in Seq(Digests)
  BY <1>1, InHandType
<1>3. handled \in Seq(Digests) /\ input_queue \in Seq(Digests)
  BY DEF ControllerTypeInv, ControllerTypeOK
<1>4. handled \o InHand(Handling, digest) \in Seq(Digests)
  BY <1>2, <1>3, ConcatProperties
<1> QED
  BY <1>2, <1>3, <1>4, ConcatProperties DEF taken_over

(* A digest newer than all of its switch may follow.                       *)
LEMMA OrderedAppend ==
  ASSUME NEW s \in Seq(Digests), Ordered(s), NEW b \in Conns, NEW x \in Nat,
         \A i \in DOMAIN s : s[i][1] = b => s[i][2] < x
  PROVE  Ordered(Append(s, <<b, x>>))
<1> DEFINE r == Append(s, <<b, x>>)
<1>1. /\ Len(s) \in Nat /\ DOMAIN s = 1 .. Len(s) /\ DOMAIN r = 1 .. Len(s) + 1
      /\ r[Len(s) + 1] = <<b, x>>
      /\ \A i \in 1 .. Len(s) : r[i] = s[i]
  OBVIOUS
<1> HIDE DEF r
<1>2. ASSUME NEW i \in DOMAIN r, NEW j \in DOMAIN r, i < j, r[i][1] = r[j][1]
      PROVE  r[i][2] < r[j][2]
  <2>1. i \in 1 .. Len(s)
    BY <1>1, <1>2
  <2>2. CASE j \in 1 .. Len(s)
    BY <1>1, <1>2, <2>1, <2>2 DEF Ordered
  <2>3. CASE j = Len(s) + 1
    <3>1. r[j][1] = b /\ r[j][2] = x
      BY <1>1, <2>3
    <3> QED
      BY <1>1, <1>2, <2>1, <3>1
  <2> QED
    BY <1>1, <2>2, <2>3
<1> QED
  BY <1>2 DEF Ordered, r

(* A digest is taken over as the newest of its switch, or is dropped.      *)
LEMMA DigestsRead ==
  ASSUME NEW f \in Fds
  PROVE  ControllerTypeInv /\ DigestsInv /\ main_reads(f) => DigestsInv'
<1> SUFFICES ASSUME ControllerTypeInv, DigestsInv, main_reads(f)
             PROVE  DigestsInv'
  OBVIOUS
<1> DEFINE b == fd[f]
           q == to_controller[b]
           d == <<b, Head(q)>>
<1>1. /\ b \in Conns /\ q \in Seq(1 .. MaxDigests) /\ q # <<>>
      /\ to_controller' = [to_controller EXCEPT ![b] = Tail(q)] /\ sent' = sent
      /\ input_queue' = fifo_add_msg(input_queue, d)
      /\ UNCHANGED <<handled, digest>>
  BY Parameters DEF main_reads, work, ControllerTypeInv, ControllerTypeOK, Conns
<1>2. /\ Head(q) \in 1 .. MaxDigests /\ Len(q) \in Nat \ {0} /\ Len(Tail(q)) = Len(q) - 1
      /\ d \in Digests
  BY <1>1, HeadAndRest DEF Digests
<1>3. LastOf(q, sent[b]) /\ sent[b] \in Nat
  BY <1>1, Parameters DEF ControllerTypeInv, ControllerTypeOK, UnderWay
<1>4. Head(q) = read_of[b] + 1
  BY <1>1, <1>2, <1>3, OneLessUnderWay DEF read_of
<1>5. \A c \in Conns : /\ sent[c] \in Nat /\ Len(to_controller[c]) \in Nat
                       /\ read_of[c] \in Int
  BY Parameters DEF read_of, ControllerTypeInv, ControllerTypeOK
<1>6. read_of'[b] = read_of[b] + 1
  <2>1. to_controller'[b] = Tail(q)
    BY <1>1 DEF ControllerTypeInv, ControllerTypeOK
  <2> QED
    <3>1. read_of'[b] = sent[b] - Len(Tail(q)) /\ read_of[b] = sent[b] - Len(q)
      BY <1>1, <2>1 DEF read_of
    <3> QED
      BY <1>2, <1>3, <3>1
<1>7. \A c \in Conns \ {b} : read_of'[c] = read_of[c]
  BY <1>1 DEF read_of, ControllerTypeInv, ControllerTypeOK
<1>8. \A c \in Conns : read_of[c] <= read_of'[c]
  BY <1>1, <1>5, <1>6, <1>7
<1>9. InHand(Handling, digest)' = InHand(Handling, digest)
  BY <1>1 DEF Handling, InHand
<1>10. /\ taken_over \in Seq(Digests)
       /\ \A i \in DOMAIN taken_over : taken_over[i] \in Digests
       /\ Len(taken_over) \in Nat
       /\ DOMAIN taken_over = 1 .. Len(taken_over)
  BY TakenOverType
<1>11. \A i \in DOMAIN taken_over :
         taken_over[i][1] \in Conns /\ taken_over[i][2] \in 1 .. MaxDigests
  BY <1>10 DEF Digests
<1> HIDE DEF b, q, d
<1>12. CASE taken_over' = taken_over
  <2>1. ASSUME NEW i \in DOMAIN taken_over
        PROVE  taken_over[i][2] <= read_of'[taken_over[i][1]]
    <3> DEFINE c == taken_over[i][1]
    <3>1. c \in Conns /\ taken_over[i][2] \in Int /\ taken_over[i][2] <= read_of[c]
      BY <1>11 DEF DigestsInv
    <3>2. read_of[c] <= read_of'[c] /\ read_of[c] \in Int /\ read_of'[c] \in Int
      BY <1>5, <1>6, <1>7, <1>8, <3>1
    <3> QED
      BY <3>1, <3>2
  <2> QED
    BY <1>12, <2>1 DEF DigestsInv, Ordered, read_of
<1>13. CASE taken_over' = Append(taken_over, d)
  <2>1. \A i \in DOMAIN taken_over : taken_over[i][1] = b => taken_over[i][2] < read_of[b] + 1
    <3> SUFFICES ASSUME NEW i \in DOMAIN taken_over, taken_over[i][1] = b
                 PROVE  taken_over[i][2] < read_of[b] + 1
      OBVIOUS
    <3>1. taken_over[i][2] <= read_of[b]
      BY DEF DigestsInv
    <3> QED
      BY <1>1, <1>5, <1>11, <3>1
  <2>2. d = <<b, read_of[b] + 1>> /\ read_of[b] + 1 \in Nat
    BY <1>2, <1>4 DEF d
  <2>3. Ordered(Append(taken_over, d))
    BY <1>1, <1>10, <2>1, <2>2, OrderedAppend DEF DigestsInv
  <2>4. /\ DOMAIN taken_over' = 1 .. Len(taken_over) + 1
        /\ taken_over'[Len(taken_over) + 1] = d
        /\ \A i \in 1 .. Len(taken_over) : taken_over'[i] = taken_over[i]
    BY <1>2, <1>10, <1>13
  <2>5. ASSUME NEW i \in DOMAIN taken_over'
        PROVE  taken_over'[i][2] <= read_of'[taken_over'[i][1]]
    <3>1. CASE i = Len(taken_over) + 1
      <4>1. taken_over'[i][1] = b /\ taken_over'[i][2] = read_of'[b]
        BY <1>6, <2>2, <2>4, <3>1
      <4> QED
        BY <1>1, <1>5, <1>6, <4>1
    <3>2. CASE i \in 1 .. Len(taken_over)
      <4> DEFINE c == taken_over[i][1]
      <4>1. /\ c \in Conns /\ taken_over[i][2] \in Int
            /\ taken_over[i][2] <= read_of[c] /\ taken_over'[i] = taken_over[i]
        BY <1>10, <1>11, <2>4, <3>2 DEF DigestsInv
      <4>2. read_of[c] <= read_of'[c] /\ read_of[c] \in Int /\ read_of'[c] \in Int
        BY <1>5, <1>6, <1>7, <1>8, <4>1
      <4> QED
        BY <4>1, <4>2
    <3> QED
      BY <1>10, <2>4, <3>1, <3>2
  <2> QED
    BY <1>13, <2>3, <2>5 DEF DigestsInv, read_of
<1>14. taken_over' = taken_over \/ taken_over' = Append(taken_over, d)
  <2>1. CASE input_queue' = input_queue
    BY <1>1, <1>9, <2>1 DEF taken_over
  <2>2. CASE input_queue' = Append(input_queue, d)
    <3>1. handled \in Seq(Digests) /\ input_queue \in Seq(Digests)
      BY DEF ControllerTypeInv, ControllerTypeOK
    <3>2. handled \o InHand(Handling, digest) \o Append(input_queue, d)
            = Append(handled \o InHand(Handling, digest) \o input_queue, d)
      <4> DEFINE h == InHand(Handling, digest)
      <4>1. h \in Seq(Digests)
        BY TakenOverType
      <4> HIDE DEF h
      <4>2. handled \o h \o Append(input_queue, d) = Append(handled \o h \o input_queue, d)
        BY <1>2, <3>1, <4>1, AddedLast, SMTT(30)
      <4> QED
        BY <4>2 DEF h
    <3> QED
      BY <1>1, <1>9, <2>2, <3>2 DEF taken_over
  <2> QED
    BY <1>1, <2>1, <2>2 DEF fifo_add_msg
<1> QED
  BY <1>12, <1>13, <1>14

(* What an input_processor does leaves them as they are.                   *)
LEMMA DigestsWork ==
  ASSUME NEW t \in PoolThreads
  PROVE  ControllerTypeInv /\ InTurn /\ (input_takes(t) \/ input_frees(t))
           => taken_over' = taken_over
<1> SUFFICES ASSUME ControllerTypeInv, InTurn, input_takes(t) \/ input_frees(t)
             PROVE  taken_over' = taken_over
  OBVIOUS
<1>1. /\ handled \in Seq(Digests) /\ input_queue \in Seq(Digests)
      /\ digest \in [PoolThreads -> Digests \union {NULL}]
  BY DEF ControllerTypeInv, ControllerTypeOK
<1>2. t \in Ins /\ \A s \in PoolThreads \ {t} : digest[s] = NULL
  <2>1. t \in Ins
    BY DEF input_takes, input_frees, Ins
  <2> QED
    BY <2>1, HandlingAlone DEF Handling
<1>3. CASE input_takes(t)
  <2>1. /\ digest[t] = NULL /\ input_queue # <<>> /\ handled' = handled
        /\ digest' = [digest EXCEPT ![t] = Head(input_queue)]
        /\ input_queue' = Tail(input_queue)
    BY <1>3 DEF input_takes
  <2>2. Head(input_queue) \in Digests /\ Head(input_queue) # NULL
    BY <1>1, <2>1, Parameters, HeadAndRest
  <2>3. Handling = {} /\ Handling' = {t} /\ digest'[t] = Head(input_queue)
    BY <1>1, <1>2, <2>1, <2>2 DEF Handling
  <2>4. InHand(Handling, digest) = <<>>
    BY <2>3, InHandIs
  <2>5. InHand(Handling', digest') = <<Head(input_queue)>>
    BY <2>3, InHandIs
  <2>6. handled \o <<Head(input_queue)>> \o Tail(input_queue) = handled \o <<>> \o input_queue
    BY <1>1, <2>1, <2>2, ThroughHand
  <2> QED
    BY <2>1, <2>4, <2>5, <2>6 DEF taken_over
<1>4. CASE input_frees(t)
  <2>1. /\ digest[t] # NULL /\ handled' = Append(handled, digest[t])
        /\ digest' = [digest EXCEPT ![t] = NULL] /\ input_queue' = input_queue
    BY <1>4 DEF input_frees, fifos
  <2>2. Handling = {t} /\ Handling' = {} /\ digest[t] \in Digests
    BY <1>1, <1>2, <2>1 DEF Handling
  <2>3. InHand(Handling, digest) = <<digest[t]>>
    BY <2>2, InHandIs
  <2>4. InHand(Handling', digest') = <<>>
    BY <2>2, InHandIs
  <2>5. Append(handled, digest[t]) \o <<>> \o input_queue
          = handled \o <<digest[t]>> \o input_queue
    BY <1>1, <2>2, ThroughHand
  <2> QED
    BY <2>1, <2>3, <2>4, <2>5 DEF taken_over
<1> QED
  BY <1>3, <1>4

(* A step that neither takes digests over nor changes how many were read   *)
(* keeps the order; a reset forgets what was sent and not read.            *)
LEMMA DigestsStay ==
  ASSUME ControllerTypeInv, DigestsInv, taken_over' = taken_over,
         \A c \in Conns : read_of'[c] = read_of[c]
  PROVE  DigestsInv'
<1>1. \A i \in DOMAIN taken_over : taken_over[i][1] \in Conns
  BY TakenOverType DEF Digests
<1>2. \A i \in DOMAIN taken_over : taken_over[i][2] <= read_of'[taken_over[i][1]]
  BY <1>1 DEF DigestsInv
<1> QED
  BY <1>2 DEF DigestsInv, Ordered, read_of

(* What a switch sends, or loses in a reset, was not read.                 *)
LEMMA DigestsSwitch ==
  ASSUME NEW c \in Conns
  PROVE  ControllerTypeInv /\ DigestsInv /\ Switch(c) => DigestsInv'
<1> SUFFICES ASSUME ControllerTypeInv, DigestsInv, Switch(c)
             PROVE  DigestsInv'
  OBVIOUS
<1>1. taken_over' = taken_over
  <2>1. UNCHANGED <<handled, digest, input_queue>>
    BY DEF Switch, switch_connects, switch_sends, switch_disconnects, work, fifos
  <2> QED
    BY <2>1 DEF taken_over, InHand, Handling
<1>2. \A b \in Conns : /\ sent[b] \in Nat
                       /\ to_controller[b] \in Seq(1 .. MaxDigests)
                       /\ Len(to_controller[b]) \in Nat
  BY Parameters DEF ControllerTypeInv, ControllerTypeOK
<1>3. \A b \in Conns : read_of'[b] = read_of[b]
  <2>1. CASE UNCHANGED <<to_controller, sent>>
    BY <2>1 DEF read_of
  <2>2. CASE switch_sends(c)
    <3>1. sent' = [sent EXCEPT ![c] = sent[c] + 1] /\ sent'[c] = sent[c] + 1
      BY <2>2 DEF switch_sends, ControllerTypeInv, ControllerTypeOK
    <3>2. to_controller' = [to_controller EXCEPT ![c] = Append(to_controller[c], sent[c] + 1)]
      BY <2>2, <3>1 DEF switch_sends
    <3>3. Len(Append(to_controller[c], sent[c] + 1)) = Len(to_controller[c]) + 1
      BY <1>2
    <3>4. Len(to_controller'[c]) = Len(to_controller[c]) + 1
      BY <3>2, <3>3 DEF ControllerTypeInv, ControllerTypeOK
    <3>5. \A b \in Conns \ {c} : sent'[b] = sent[b] /\ to_controller'[b] = to_controller[b]
      BY <3>1, <3>2 DEF ControllerTypeInv, ControllerTypeOK
    <3>6. sent'[c] - Len(to_controller'[c]) = sent[c] - Len(to_controller[c])
      BY <1>2, <3>1, <3>4
    <3> QED
      BY <3>5, <3>6 DEF read_of
  <2>3. CASE /\ sent' = [sent EXCEPT ![c] = @ - Len(to_controller[c])]
             /\ to_controller' = [to_controller EXCEPT ![c] = <<>>]
    <3>1. sent'[c] = sent[c] - Len(to_controller[c]) /\ Len(to_controller'[c]) = 0
      BY <2>3 DEF ControllerTypeInv, ControllerTypeOK
    <3>2. \A b \in Conns \ {c} : sent'[b] = sent[b] /\ to_controller'[b] = to_controller[b]
      BY <2>3 DEF ControllerTypeInv, ControllerTypeOK
    <3>3. sent'[c] - Len(to_controller'[c]) = sent[c] - Len(to_controller[c])
      BY <1>2, <3>1
    <3> QED
      BY <3>2, <3>3 DEF read_of
  <2> QED
    BY <2>1, <2>2, <2>3 DEF Switch, switch_connects, switch_disconnects
<1> QED
  BY <1>1, <1>3, DigestsStay

(* Every step keeps the order of the digests.                              *)
LEMMA DigestsNext ==
  ControllerTypeInv /\ InTurn /\ DigestsInv /\ [ControllerNext]_controllervars => DigestsInv'
<1> SUFFICES ASSUME ControllerTypeInv, InTurn, DigestsInv, [ControllerNext]_controllervars
             PROVE  DigestsInv'
  OBVIOUS
<1>1. ASSUME UNCHANGED <<to_controller, sent>>, taken_over' = taken_over
      PROVE  DigestsInv'
  <2>1. \A c \in Conns : read_of'[c] = read_of[c]
    BY <1>1 DEF read_of
  <2> QED
    BY <1>1, <2>1, DigestsStay
<1>2. ASSUME UNCHANGED <<handled, digest, input_queue>>
      PROVE  taken_over' = taken_over
  BY <1>2 DEF taken_over, InHand, Handling
<1>3. CASE Accept
  <2>1. UNCHANGED <<to_controller, sent>> /\ UNCHANGED <<handled, digest, input_queue>>
    BY <1>3 DEF Accept, accepts, accept_fails, dispatch_output, dispatch_input, init_sends,
                init_returns, network, work, fifos
  <2> QED
    BY <1>1, <1>2, <2>1
<1>4. ASSUME NEW f \in Fds, Read(f)
      PROVE  DigestsInv'
  <2>1. CASE main_reads(f)
    BY <2>1, DigestsRead
  <2>2. CASE main_meets_eof(f) \/ main_meets_error(f)
    <3>1. UNCHANGED <<to_controller, sent>> /\ UNCHANGED <<handled, digest, input_queue>>
      BY <2>2 DEF main_meets_eof, main_meets_error, network, work, fifos
    <3> QED
      BY <1>1, <1>2, <3>1
  <2> QED
    BY <1>4, <2>1, <2>2 DEF Read
<1>5. ASSUME NEW t \in PoolThreads, Work(t)
      PROVE  DigestsInv'
  <2>1. UNCHANGED <<to_controller, sent>>
    BY <1>5 DEF Work, takes_job, spurious_wakeup, output_takes, output_writes, input_takes,
                input_sends, input_frees, network
  <2>2. CASE input_takes(t) \/ input_frees(t)
    BY <1>1, <2>1, <2>2, DigestsWork
  <2>3. CASE ~ (input_takes(t) \/ input_frees(t))
    <3>1. UNCHANGED <<handled, digest, input_queue>>
      BY <1>5, <2>3 DEF Work, takes_job, spurious_wakeup, output_takes, output_writes,
                        input_sends, work, fifos
    <3> QED
      BY <1>1, <1>2, <2>1, <3>1
  <2> QED
    BY <2>2, <2>3
<1>6. ASSUME NEW c \in Conns, Switch(c)
      PROVE  DigestsInv'
  BY <1>6, DigestsSwitch
<1>7. CASE dies \/ UNCHANGED controllervars
  <2>1. UNCHANGED <<to_controller, sent>> /\ UNCHANGED <<handled, digest, input_queue>>
    BY <1>7 DEF dies, controllervars, network, work, fifos
  <2> QED
    BY <1>1, <1>2, <2>1
<1> QED
  BY <1>3, <1>4, <1>5, <1>6, <1>7 DEF ControllerNext

\* The messages, from those written to those that wait.
messages == written \o InHand(Writing, cell) \o output_queue

(* Those of the first connection are in the order of the calls.            *)
MessagesInv ==
  accepted <= 1 => /\ Increasing(messages)
                   /\ \A i \in DOMAIN messages : messages[i] <= added

(* The messages are numbers.                                               *)
LEMMA MessagesType ==
  ASSUME ControllerTypeInv
  PROVE  /\ messages \in Seq(Nat) /\ InHand(Writing, cell) \in Seq(Nat)
         /\ written \in Seq(Nat) /\ output_queue \in Seq(Nat) /\ added \in Nat
<1>1. \A t \in Writing : cell[t] \in Nat
  BY DEF Writing, ControllerTypeInv, ControllerTypeOK
<1>2. InHand(Writing, cell) \in Seq(Nat)
  BY <1>1, InHandType
<1>3. written \in Seq(Nat) /\ output_queue \in Seq(Nat) /\ added \in Nat
  BY DEF ControllerTypeInv, ControllerTypeOK
<1>4. written \o InHand(Writing, cell) \in Seq(Nat)
  BY <1>2, <1>3, ConcatProperties
<1> QED
  BY <1>2, <1>3, <1>4, ConcatProperties DEF messages

(* A number above all others may follow.                                   *)
LEMMA IncreasingAppend ==
  ASSUME NEW s \in Seq(Nat), Increasing(s), NEW n \in Nat, \A i \in DOMAIN s : s[i] <= n
  PROVE  /\ Increasing(Append(s, n + 1))
         /\ \A i \in DOMAIN Append(s, n + 1) : Append(s, n + 1)[i] <= n + 1
<1> DEFINE r == Append(s, n + 1)
<1>1. /\ Len(s) \in Nat /\ DOMAIN s = 1 .. Len(s) /\ DOMAIN r = 1 .. Len(s) + 1
      /\ r[Len(s) + 1] = n + 1
      /\ \A i \in 1 .. Len(s) : r[i] = s[i] /\ s[i] \in Nat
  OBVIOUS
<1> HIDE DEF r
<1>2. ASSUME NEW i \in DOMAIN r, NEW j \in DOMAIN r, i < j
      PROVE  r[i] < r[j]
  <2>1. i \in 1 .. Len(s)
    BY <1>1, <1>2
  <2>2. CASE j \in 1 .. Len(s)
    BY <1>1, <1>2, <2>1, <2>2 DEF Increasing
  <2>3. CASE j = Len(s) + 1
    <3>1. r[i] \in Nat /\ r[i] <= n /\ r[j] = n + 1
      BY <1>1, <2>1, <2>3
    <3> QED
      BY <3>1
  <2> QED
    BY <1>1, <2>2, <2>3
<1>3. ASSUME NEW i \in DOMAIN r
      PROVE  r[i] <= n + 1
  <2>1. CASE i \in 1 .. Len(s)
    <3>1. r[i] \in Nat /\ r[i] <= n
      BY <1>1, <2>1
    <3> QED
      BY <3>1
  <2>2. CASE i = Len(s) + 1
    BY <1>1, <2>2
  <2> QED
    BY <1>1, <2>1, <2>2
<1> QED
  BY <1>2, <1>3 DEF Increasing, r

(* A call of send_p4_msg numbers its message, which is queued or lost.     *)
LEMMA MessagesSent ==
  ASSUME ControllerTypeInv, MessagesInv, send_p4_msg,
         UNCHANGED <<accepted, written, cell>>
  PROVE  MessagesInv'
<1>1. added' = added + 1 /\ output_queue' = fifo_add_msg(output_queue, added + 1)
  BY DEF send_p4_msg
<1>2. InHand(Writing, cell)' = InHand(Writing, cell)
  BY DEF Writing, InHand
<1>3. added \in Nat /\ added + 1 \in Nat
  BY MessagesType
<1>4. CASE output_queue' = output_queue
  <2>1. messages' = messages
    BY <1>2, <1>4 DEF messages
  <2>2. \A i \in DOMAIN messages : messages[i] \in Nat
    BY MessagesType
  <2> QED
    BY <1>1, <1>3, <2>1, <2>2 DEF MessagesInv, Increasing
<1>5. CASE output_queue' = Append(output_queue, added + 1)
  <2>1. written \o InHand(Writing, cell) \o Append(output_queue, added + 1)
          = Append(written \o InHand(Writing, cell) \o output_queue, added + 1)
    <3>1. /\ written \in Seq(Nat) /\ InHand(Writing, cell) \in Seq(Nat)
          /\ output_queue \in Seq(Nat)
      BY MessagesType
    <3> DEFINE h == InHand(Writing, cell)
               m == added + 1
    <3>2. h \in Seq(Nat) /\ m \in Nat
      BY <1>3, <3>1
    <3> HIDE DEF h, m
    <3>3. written \o h \o Append(output_queue, m) = Append(written \o h \o output_queue, m)
      BY <3>1, <3>2, AddedLast, SMTT(30)
    <3> QED
      BY <3>3 DEF h, m
  <2>2. messages' = Append(messages, added + 1)
    BY <1>2, <1>5, <2>1 DEF messages
  <2>3. accepted <= 1 => /\ Increasing(Append(messages, added + 1))
                         /\ \A i \in DOMAIN Append(messages, added + 1) :
                              Append(messages, added + 1)[i] <= added + 1
    BY <1>3, MessagesType, IncreasingAppend DEF MessagesInv
  <2> QED
    BY <1>1, <2>2, <2>3 DEF MessagesInv, Increasing
<1> QED
  BY <1>1, <1>4, <1>5 DEF fifo_add_msg

(* What the only output_processor does leaves the messages as they are.    *)
LEMMA MessagesWork ==
  ASSUME NEW t \in PoolThreads
  PROVE  /\ ControllerTypeInv /\ InTurn /\ accepted <= 1
         /\ output_takes(t) \/ output_writes(t)
         => messages' = messages
<1> SUFFICES ASSUME ControllerTypeInv, InTurn, accepted <= 1,
                    output_takes(t) \/ output_writes(t)
             PROVE  messages' = messages
  OBVIOUS
<1>1. /\ written \in Seq(Nat) /\ output_queue \in Seq(Nat)
      /\ cell \in [PoolThreads -> Nat \union {NULL}]
  BY DEF ControllerTypeInv, ControllerTypeOK
<1>2. t \in Outs /\ \A s \in PoolThreads \ {t} : cell[s] = NULL
  <2>1. t \in Outs
    BY DEF output_takes, output_writes, Outs
  <2> QED
    BY <2>1, WritingAlone DEF Writing
<1>3. CASE output_takes(t)
  <2>1. /\ cell[t] = NULL /\ output_queue # <<>> /\ written' = written
        /\ cell' = [cell EXCEPT ![t] = Head(output_queue)]
        /\ output_queue' = Tail(output_queue)
    BY <1>3 DEF output_takes
  <2>2. Head(output_queue) \in Nat /\ Head(output_queue) # NULL
    BY <1>1, <2>1, Parameters, HeadAndRest
  <2>3. Writing = {} /\ Writing' = {t} /\ cell'[t] = Head(output_queue)
    BY <1>1, <1>2, <2>1, <2>2 DEF Writing
  <2>4. InHand(Writing, cell) = <<>>
    BY <2>3, InHandIs
  <2>5. InHand(Writing', cell') = <<Head(output_queue)>>
    BY <2>3, InHandIs
  <2>6. written \o <<Head(output_queue)>> \o Tail(output_queue) = written \o <<>> \o output_queue
    BY <1>1, <2>1, <2>2, ThroughHand
  <2> QED
    BY <2>1, <2>4, <2>5, <2>6 DEF messages
<1>4. CASE output_writes(t)
  <2>1. /\ cell[t] # NULL /\ written' = Append(written, cell[t])
        /\ cell' = [cell EXCEPT ![t] = NULL] /\ output_queue' = output_queue
    BY <1>4 DEF output_writes, fifos
  <2>2. Writing = {t} /\ Writing' = {} /\ cell[t] \in Nat
    BY <1>1, <1>2, <2>1 DEF Writing
  <2>3. InHand(Writing, cell) = <<cell[t]>>
    BY <2>2, InHandIs
  <2>4. InHand(Writing', cell') = <<>>
    BY <2>2, InHandIs
  <2>5. Append(written, cell[t]) \o <<>> \o output_queue
          = written \o <<cell[t]>> \o output_queue
    <3> DEFINE m == cell[t]
    <3>1. m \in Nat
      BY <2>2
    <3> HIDE DEF m
    <3>2. Append(written, m) \o <<>> \o output_queue = written \o <<m>> \o output_queue
      BY <1>1, <3>1, ThroughHand
    <3> QED
      BY <3>2 DEF m
  <2> QED
    BY <2>1, <2>3, <2>4, <2>5 DEF messages
<1> QED
  BY <1>3, <1>4

(* Every step keeps the order of the messages.                             *)
LEMMA MessagesNext ==
  ControllerTypeInv /\ InTurn /\ MessagesInv /\ [ControllerNext]_controllervars => MessagesInv'
<1> SUFFICES ASSUME ControllerTypeInv, InTurn, MessagesInv, [ControllerNext]_controllervars
             PROVE  MessagesInv'
  OBVIOUS
<1>1. ASSUME UNCHANGED <<written, cell, output_queue, added>>,
             accepted' <= 1 => accepted <= 1
      PROVE  MessagesInv'
  <2>1. messages' = messages
    BY <1>1 DEF messages, Writing, InHand
  <2> QED
    BY <1>1, <2>1 DEF MessagesInv, Increasing
<1>2. CASE Accept
  <2>1. CASE init_sends
    <3>1. send_p4_msg /\ UNCHANGED <<accepted, written, cell>>
      BY <2>1 DEF init_sends, work
    <3> QED
      BY <3>1, MessagesSent
  <2>2. CASE accepts \/ accept_fails
    <3>1. accepted' = accepted + 1 /\ UNCHANGED <<written, cell, output_queue, added>>
      BY <2>2 DEF accepts, accept_fails, work, fifos
    <3>2. accepted \in Nat
      BY Parameters DEF ControllerTypeInv, ControllerTypeOK
    <3> QED
      BY <1>1, <3>1, <3>2
  <2>3. CASE dispatch_output \/ dispatch_input \/ init_returns
    <3>1. UNCHANGED <<accepted, written, cell, output_queue, added>>
      BY <2>3 DEF dispatch_output, dispatch_input, init_returns, work, fifos
    <3> QED
      BY <1>1, <3>1
  <2> QED
    BY <1>2, <2>1, <2>2, <2>3 DEF Accept
<1>3. ASSUME NEW f \in Fds, Read(f)
      PROVE  MessagesInv'
  <2>1. UNCHANGED <<accepted, written, cell, output_queue, added>>
    BY <1>3 DEF Read, main_reads, main_meets_eof, main_meets_error, work, fifos
  <2> QED
    BY <1>1, <2>1
<1>4. ASSUME NEW t \in PoolThreads, Work(t)
      PROVE  MessagesInv'
  <2>1. CASE input_sends(t)
    <3>1. send_p4_msg /\ UNCHANGED <<accepted, written, cell>>
      BY <2>1 DEF input_sends, exec
    <3> QED
      BY <3>1, MessagesSent
  <2>2. CASE output_takes(t) \/ output_writes(t)
    <3>1. UNCHANGED <<accepted, added>>
      BY <2>2 DEF output_takes, output_writes, exec, fifos
    <3>2. accepted <= 1 => messages' = messages
      BY <2>2, MessagesWork
    <3> QED
      BY <3>1, <3>2 DEF MessagesInv, Increasing
  <2>3. CASE takes_job(t) \/ spurious_wakeup(t) \/ input_takes(t) \/ input_frees(t)
    <3>1. UNCHANGED <<accepted, written, cell, output_queue, added>>
      BY <2>3 DEF takes_job, spurious_wakeup, input_takes, input_frees, exec, work, fifos
    <3> QED
      BY <1>1, <3>1
  <2> QED
    BY <1>4, <2>1, <2>2, <2>3 DEF Work
<1>5. ASSUME NEW c \in Conns, Switch(c)
      PROVE  MessagesInv'
  <2>1. UNCHANGED <<accepted, written, cell, output_queue, added>>
    BY <1>5 DEF Switch, switch_connects, switch_sends, switch_disconnects, exec, work, fifos
  <2> QED
    BY <1>1, <2>1
<1>6. CASE dies \/ UNCHANGED controllervars
  <2>1. UNCHANGED <<accepted, written, cell, output_queue, added>>
    BY <1>6 DEF dies, controllervars, exec, work, fifos
  <2> QED
    BY <1>1, <2>1
<1> QED
  BY <1>2, <1>3, <1>4, <1>5, <1>6 DEF ControllerNext

OrderInv == DigestsInv /\ MessagesInv

(* The digests of every switch are handled in the order it sent them, by   *)
(* one thread, none twice, and the messages of the first connection are    *)
(* written in the order of the calls of send_p4_msg: however long the      *)
(* queues are, whatever the handlers send, and however often switches      *)
(* connect again.                                                          *)
THEOREM OrderIsKept == ControllerSpec => []OrderKept
<1>1. ControllerInit => OrderInv
  <2> SUFFICES ASSUME ControllerInit
               PROVE  OrderInv
    OBVIOUS
  <2>1. Handling = {} /\ Writing = {}
    BY DEF ControllerInit, Handling, Writing
  <2>2. taken_over = <<>> /\ messages = <<>>
    BY <2>1, InHandIs DEF ControllerInit, taken_over, messages
  <2> QED
    BY <2>2 DEF OrderInv, DigestsInv, MessagesInv, Ordered, Increasing
<1>2. ControllerInv /\ OrderInv /\ [ControllerNext]_controllervars => OrderInv'
  BY DigestsNext, MessagesNext DEF ControllerInv, OrderInv
<1>3. ControllerInv /\ OrderInv => OrderKept
  <2> SUFFICES ASSUME ControllerTypeInv, InTurn, DigestsInv, MessagesInv
               PROVE  OrderKept
    BY DEF ControllerInv, OrderInv
  <2>1. Cardinality(Handling) <= 1
    <3>1. Cardinality(Handling) <= Cardinality(Ins) /\ Cardinality(Ins) <= 1
      BY HandlingAlone, Sides, FS_Subset
    <3>2. Cardinality(Handling) \in Nat
      BY HandlingAlone, Sides, FS_Subset, FS_CardinalityType
    <3> QED
      BY <3>1, <3>2, Sides
  <2>2. ASSUME NEW c \in Conns, NEW k \in DOMAIN to_controller[c]
        PROVE  /\ to_controller[c][k] = read_of[c] + k /\ k \in Nat \ {0}
               /\ read_of[c] \in Int
    <3>1. /\ sent[c] \in Nat /\ to_controller[c] \in Seq(1 .. MaxDigests)
          /\ LastOf(to_controller[c], sent[c])
      BY Parameters DEF ControllerTypeInv, ControllerTypeOK, UnderWay
    <3>2. k \in 1 .. Len(to_controller[c]) /\ Len(to_controller[c]) \in Nat
      BY <3>1
    <3> QED
      BY <3>1, <3>2 DEF LastOf, read_of
  <2>3. ASSUME NEW i \in DOMAIN taken_over, NEW k \in DOMAIN to_controller[taken_over[i][1]]
        PROVE  taken_over[i][2] < to_controller[taken_over[i][1]][k]
    <3> DEFINE c == taken_over[i][1]
    <3>1. c \in Conns /\ taken_over[i][2] \in 1 .. MaxDigests
      BY TakenOverType DEF Digests
    <3>2. taken_over[i][2] <= read_of[c]
      BY DEF DigestsInv
    <3>3. /\ to_controller[c][k] = read_of[c] + k /\ k \in Nat \ {0}
          /\ read_of[c] \in Int
      BY <2>2, <3>1
    <3> QED
      BY <3>1, <3>2, <3>3
  <2>4. ASSUME NEW c \in Conns
        PROVE  Increasing(to_controller[c])
    BY <2>2 DEF Increasing
  <2> QED
    BY <2>1, <2>3, <2>4
    DEF OrderKept, ControllerTypeInv, DigestsInv, Ordered, MessagesInv, messages
<1> QED
  BY <1>1, <1>2, <1>3, ControllerInvCorrect, PTL DEF ControllerSpec

==============================================================================
