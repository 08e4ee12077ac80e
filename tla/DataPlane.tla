------------------------------ MODULE DataPlane ------------------------------
(***************************************************************************)
(* One lcore of the data plane: dpdk_main_loop (main_loop.c), the pipeline *)
(* it is configured with (generated dataplane.c, parser.c, actions.c), and *)
(* the transmit buffers.                                                   *)
(*                                                                         *)
(* The lcore polls its receive queues.  A batch of packets goes through    *)
(*   parse, product5, routable, routing, switching, vlan_egress, acl       *)
(* as a whole, one table after the other; only the packets for which       *)
(* routable answers route are diverted through routing.  Descriptors       *)
(* (packet_descriptor_t) are used again for the next batch, and only part  *)
(* of their fields is set anew.  The control plane changes the tables      *)
(* between two lookups; ReplicaTables shows that it does not do so during  *)
(* one.                                                                    *)
(*                                                                         *)
(* product5 is empty and has no default action, vlan_egress holds _nop     *)
(* only, and apply_table_acl runs _nop whatever it finds: with the entries *)
(* of l2l3_acl_init_all_real these three change nothing, and neither the   *)
(* controller nor the lcore adds others.  egress_spec, mcast_grp and       *)
(* dropped keep what the last packet of the descriptor left there; no one  *)
(* acts on them, for send_packets takes the port from port_list.  The      *)
(* checksum written by update_packet is left out.                          *)
(*                                                                         *)
(* Packets are numbered in the order in which they are received.           *)
(***************************************************************************)
EXTENDS ControlMessages

CONSTANTS
  Ports,          \* the ports of port_list
  port_list,      \* where a packet of each port is sent to
  RxQueues,       \* the ports of rx_queue_list
  MAX_PKT_BURST,
  Frames,         \* what can arrive: src, dst, vid, ip (the bytes of the
                  \* source address, which table_routing_key reads) and ttl
  InitTables,     \* the tables when the lcore starts to poll
  Changes,        \* what a controller may ask for
  MaxPkts,        \* bound: packets received
  MaxChanges      \* bound: messages handled

ASSUME DataPlaneAssumption ==
  /\ port_list \in [Ports -> Ports]
  /\ RxQueues \in Seq(Ports)
  /\ MAX_PKT_BURST \in Nat \ {0}
  /\ \A f \in Frames : /\ f = [src |-> f.src, dst |-> f.dst, vid |-> f.vid,
                              ip |-> f.ip, ttl |-> f.ttl]
                       /\ f.ttl \in 0 .. 255
  /\ MaxPkts \in Nat /\ MaxChanges \in Nat

ASSUME ChangesAssumption == \A c \in Changes : request(c)

VARIABLES
  pc,          \* the stage the lcore is in
  queue,       \* i of the receive loop, from 1
  elapsed,     \* diff_tsc > drain_tsc
  tables,      \* every state of the tables so far, the present one last
  handled,     \* the changes asked for by the messages handled so far
  pd,          \* the packet descriptors
  batch_size,
  diversionQ,  \* the descriptors that routable diverts
  next,        \* i of the loop in send_packets, from 1
  tx_mbufs,    \* per port, the packets that wait for a burst
  wire,        \* per port, what rte_eth_tx_burst took
  freed,       \* what it did not take
  received,    \* every packet as it came
  mbuf,        \* every packet as it is now
  seen         \* the states of the tables a packet's batch began and ended in

batchvars == <<pd, batch_size, diversionQ, next>>
txvars    == <<tx_mbufs, wire, freed>>
pktvars   == <<received, mbuf, seen>>
tblvars   == <<tables, handled>>
vars == <<pc, queue, elapsed, tblvars, batchvars, txvars, pktvars>>

Slots == 1 .. MAX_PKT_BURST
Batch == 1 .. batch_size
Pkts  == 1 .. Len(received)

\* A table: its entries and its default action.
lookup(table, key) == IF key \in DOMAIN table.entries THEN table.entries[key]
                      ELSE table.default_val

now == tables[Len(tables)]

-----------------------------------------------------------------------------

\* init_dataplane, for every descriptor.
Init == /\ pc = "drain"
        /\ queue = 1
        /\ elapsed = TRUE
        /\ tables = <<InitTables>>
        /\ handled = <<>>
        /\ pd = [i \in Slots |->
                   [wrapper |-> 0, ttl |-> 0, modified |-> FALSE,
                    egress_spec |-> 0, mcast_grp |-> 0, dropped |-> 0]]
        /\ batch_size = 0
        /\ diversionQ = {}
        /\ next = 1
        /\ tx_mbufs = [p \in Ports |-> <<>>]
        /\ wire = [p \in Ports |-> <<>>]
        /\ freed = {}
        /\ received = <<>>
        /\ mbuf = <<>>
        /\ seen = <<>>

-----------------------------------------------------------------------------
(* Transmission.                                                           *)

elements(s) == {s[j] : j \in DOMAIN s}

\* Seeded bug: what the NIC does not take is not freed.
send_burst_leaks(bursts, n) ==
  /\ wire' = [p \in Ports |-> wire[p] \o SubSeq(bursts[p], 1, n[p])]
  /\ UNCHANGED freed

\* rte_eth_tx_burst takes the first n[p] packets of a burst on each port p.
send_burst(bursts, n) ==
  /\ wire' = [p \in Ports |-> wire[p] \o SubSeq(bursts[p], 1, n[p])]
  /\ freed' = freed \union
       UNION {elements(SubSeq(bursts[p], n[p] + 1, Len(bursts[p]))) :
              p \in Ports}

\* How many packets of each burst the NIC may take.
accepted(bursts) == {n \in [Ports -> 0 .. MAX_PKT_BURST] :
                       \A p \in Ports : n[p] <= Len(bursts[p])}

\* The timer has not expired: on to the receive queues.
no_drain == /\ pc = "drain"
            /\ ~elapsed
            /\ pc' = "rx"
            /\ queue' = 1
            /\ UNCHANGED <<elapsed, tblvars, batchvars, txvars, pktvars>>

\* Seeded bug: the timer is reset and the buffers are not sent.
tx_drain_skipped ==
  /\ pc = "drain"
  /\ elapsed
  /\ elapsed' = FALSE
  /\ pc' = "rx"
  /\ queue' = 1
  /\ UNCHANGED <<tblvars, batchvars, txvars, pktvars>>

\* Every buffer that is not empty is sent.
tx_drain ==
  /\ pc = "drain"
  /\ elapsed
  /\ \E n \in accepted(tx_mbufs) : send_burst(tx_mbufs, n)
  /\ tx_mbufs' = [p \in Ports |-> <<>>]
  /\ elapsed' = FALSE
  /\ pc' = "rx"
  /\ queue' = 1
  /\ UNCHANGED <<tblvars, batchvars, pktvars>>

\* rte_rdtsc has moved on by more than drain_tsc.
tick == /\ ~elapsed
        /\ elapsed' = TRUE
        /\ UNCHANGED <<pc, queue, tblvars, batchvars, txvars, pktvars>>

-----------------------------------------------------------------------------
(* Reception and parsing.                                                  *)

rx_done == /\ pc = "rx"
           /\ queue > Len(RxQueues)
           /\ pc' = "drain"
           /\ UNCHANGED <<queue, elapsed, tblvars, batchvars, txvars, pktvars>>

nothing_received ==
  /\ pc = "rx"
  /\ queue <= Len(RxQueues)
  /\ queue' = queue + 1
  /\ UNCHANGED <<pc, elapsed, tblvars, batchvars, txvars, pktvars>>

\* Seeded bug: the cached ttl of the descriptor's last packet is kept.
parse_packet_ttl_kept(i, pkt, frame) ==
  [pd[i] EXCEPT !.wrapper = pkt, !.modified = FALSE]

\* The pointers and the cached fields of a descriptor are set anew.
parse_packet(i, pkt, frame) ==
  [pd[i] EXCEPT !.wrapper = pkt, !.ttl = frame.ttl, !.modified = FALSE]

packets_received(frames) ==
  LET n == Len(frames)
  IN  /\ batch_size' = n
      /\ received' = received \o frames
      /\ mbuf' = mbuf \o frames
      /\ seen' = seen \o [j \in 1 .. n |-> <<Len(tables), 0>>]
      /\ pd' = [i \in Slots |->
                  IF i <= n
                  THEN parse_packet(i, Len(received) + i, frames[i])
                  ELSE pd[i]]

rx_burst ==
  /\ pc = "rx"
  /\ queue <= Len(RxQueues)
  /\ \E n \in 1 .. MAX_PKT_BURST :
       /\ Len(received) + n <= MaxPkts
       /\ \E frames \in [1 .. n -> Frames] : packets_received(frames)
  /\ pc' = "routable"
  /\ UNCHANGED <<queue, elapsed, tblvars, diversionQ, next, txvars>>

-----------------------------------------------------------------------------
(* The pipeline.  A stage looks up the whole batch, then acts on it.       *)

header(i) == mbuf[pd[i].wrapper]

routable_answer(state, h)  == lookup(state.routable, <<h.src, h.dst, h.vid>>)

\* The bytes of the address are read as a little-endian number, without a
\* conversion, so that the last byte of the address is the highest.  A rule
\* is a sequence of the highest bytes.
routing_answer(state, h) ==
  LET number == Reverse(h.ip)
      hits   == {rule \in DOMAIN state.routing.entries :
                   rule = SubSeq(number, 1, Len(rule))}
  IN  IF hits = {} THEN state.routing.default_val
      ELSE state.routing.entries[CHOOSE rule \in hits :
             \A other \in hits : Len(other) <= Len(rule)]

switching_answer(state, h) == lookup(state.switching, <<h.dst, h.vid>>)

apply_table_routable ==
  /\ pc = "routable"
  /\ diversionQ' =
       {i \in Batch : routable_answer(now, header(i)).action = "route"}
  /\ pc' = IF diversionQ' = {} THEN "switching" ELSE "routing"
  /\ UNCHANGED <<queue, elapsed, tblvars, pd, batch_size, next, txvars, pktvars>>

\* action_code_set_nhop writes the addresses into the packet and the ttl into
\* the descriptor; the vid of the parameters is not used.
set_nhop(h, hop) == [h EXCEPT !.src = hop.smac, !.dst = hop.dmac]

apply_table_routing ==
  /\ pc = "routing"
  /\ LET answer(i) == routing_answer(now, header(i))
         hops  == {i \in diversionQ : answer(i).action = "set_nhop"}
         drops == {i \in diversionQ : answer(i).action = "_drop"}
     IN  /\ mbuf' = [p \in Pkts |->
                       IF \E i \in hops : pd[i].wrapper = p
                       THEN set_nhop(mbuf[p], routing_answer(now, mbuf[p]))
                       ELSE mbuf[p]]
         /\ pd' = [i \in Slots |->
                     IF i \in hops
                     THEN [pd[i] EXCEPT !.ttl = @ - 1, !.modified = TRUE]
                     ELSE IF i \in drops THEN [pd[i] EXCEPT !.dropped = 1]
                     ELSE pd[i]]
  /\ pc' = "switching"
  /\ UNCHANGED <<queue, elapsed, tblvars, batch_size, diversionQ, next, txvars,
                 received, seen>>

\* Then vlan_egress and acl, which change nothing.
apply_table_switching ==
  /\ pc = "switching"
  /\ LET answer(i) == switching_answer(now, header(i))
     IN  pd' = [i \in Slots |->
                  IF i \in Batch /\ answer(i).action = "forward"
                  THEN [pd[i] EXCEPT !.egress_spec = answer(i).port]
                  ELSE IF i \in Batch /\ answer(i).action = "broadcast"
                  THEN [pd[i] EXCEPT !.mcast_grp = 1]
                  ELSE pd[i]]
  /\ pc' = "update"
  /\ UNCHANGED <<queue, elapsed, tblvars, batch_size, diversionQ, next, txvars,
                 pktvars>>

\* The ttl of the header has eight bits.
update_packet ==
  /\ pc = "update"
  /\ mbuf' = [p \in Pkts |->
                IF \E i \in Batch : pd[i].wrapper = p /\ pd[i].modified
                THEN LET i == CHOOSE j \in Batch : pd[j].wrapper = p
                     IN  [mbuf[p] EXCEPT !.ttl = pd[i].ttl % 256]
                ELSE mbuf[p]]
  /\ seen' = [p \in Pkts |-> IF \E i \in Batch : pd[i].wrapper = p
                             THEN <<seen[p][1], Len(tables)>>
                             ELSE seen[p]]
  /\ pc' = "send"
  /\ next' = 1
  /\ UNCHANGED <<queue, elapsed, tblvars, pd, batch_size, diversionQ, txvars,
                 received>>

-----------------------------------------------------------------------------
(* send_packets: one packet at a time into the buffer of its port.         *)

outport == port_list[RxQueues[queue]]

\* The buffer of the port with the next packet of the batch.
longer == Append(tx_mbufs[outport], pd[next].wrapper)

buffer_packet ==
  /\ pc = "send"
  /\ next <= batch_size
  /\ Len(longer) < MAX_PKT_BURST
  /\ tx_mbufs' = [tx_mbufs EXCEPT ![outport] = longer]
  /\ next' = next + 1
  /\ UNCHANGED <<pc, queue, elapsed, tblvars, pd, batch_size, diversionQ, wire,
                 freed, pktvars>>

\* Seeded bug: what the NIC does not take stays in the buffer, but m_table
\* is not moved down.
buffer_full_not_moved ==
  /\ pc = "send"
  /\ next <= batch_size
  /\ Len(longer) = MAX_PKT_BURST
  /\ \E n \in 1 .. MAX_PKT_BURST :
       /\ wire' = [wire EXCEPT ![outport] = @ \o SubSeq(longer, 1, n)]
       /\ tx_mbufs' = [tx_mbufs EXCEPT ![outport] =
                         SubSeq(longer, 1, MAX_PKT_BURST - n)]
  /\ next' = next + 1
  /\ UNCHANGED <<pc, queue, elapsed, tblvars, pd, batch_size, diversionQ, freed,
                 pktvars>>

buffer_full ==
  /\ pc = "send"
  /\ next <= batch_size
  /\ Len(longer) = MAX_PKT_BURST
  /\ LET bursts == [p \in Ports |-> IF p = outport THEN longer ELSE <<>>]
     IN  \E n \in accepted(bursts) : send_burst(bursts, n)
  /\ tx_mbufs' = [tx_mbufs EXCEPT ![outport] = <<>>]
  /\ next' = next + 1
  /\ UNCHANGED <<pc, queue, elapsed, tblvars, pd, batch_size, diversionQ,
                 pktvars>>

\* On to the next receive queue.
send_packets_returns ==
  /\ pc = "send"
  /\ next > batch_size
  /\ pc' = "rx"
  /\ queue' = queue + 1
  /\ diversionQ' = {}
  /\ batch_size' = 0
  /\ next' = 1
  /\ UNCHANGED <<elapsed, tblvars, pd, txvars, pktvars>>

-----------------------------------------------------------------------------
(* The control plane: input_processor handles a message.  The lcore sees    *)
(* the outcome at once, between two lookups.                               *)

change_table ==
  /\ Len(handled) < MaxChanges
  /\ \E c \in Changes :
       /\ tables' = Append(tables, handle_p4_msg(now, message(c)))
       /\ handled' = Append(handled, c)
  /\ UNCHANGED <<pc, queue, elapsed, batchvars, txvars, pktvars>>

-----------------------------------------------------------------------------

MainLoop == \/ no_drain \/ tx_drain
            \/ rx_done \/ nothing_received \/ rx_burst
            \/ apply_table_routable \/ apply_table_routing
            \/ apply_table_switching \/ update_packet
            \/ buffer_packet \/ buffer_full \/ send_packets_returns

Next == MainLoop \/ tick \/ change_table

Spec == Init /\ [][Next]_vars

(* The lcore runs nothing but its loop, and the time stamp counter grows.  *)
FairSpec == Spec /\ WF_vars(MainLoop) /\ WF_vars(tick)

-----------------------------------------------------------------------------
(* Properties.                                                             *)

Stages == {"drain", "rx", "routable", "routing", "switching", "update", "send"}

(* Every variable has its type; between two steps a transmit buffer is     *)
(* never full, so that m_table[len] of send_packets is inside the array.   *)
TypeOK ==
  /\ pc \in Stages
  /\ queue \in 1 .. Len(RxQueues) + 1
  /\ elapsed \in BOOLEAN
  /\ Len(tables) \in 1 .. MaxChanges + 1
  /\ \A i \in Slots : /\ pd[i].wrapper \in 0 .. Len(received)
                      /\ pd[i].ttl \in -1 .. 255
                      /\ pd[i].modified \in BOOLEAN
                      /\ pd[i].dropped \in {0, 1}
  /\ batch_size \in 0 .. MAX_PKT_BURST
  /\ diversionQ \subseteq Batch
  /\ next \in 1 .. batch_size + 1
  /\ \A p \in Ports : /\ Len(tx_mbufs[p]) < MAX_PKT_BURST
                      /\ elements(tx_mbufs[p]) \union elements(wire[p])
                           \subseteq Pkts
  /\ freed \subseteq Pkts
  /\ Len(mbuf) = Len(received) /\ Len(seen) = Len(received)

\* Where a packet is: in the rest of the batch, in a buffer, sent, freed.
positions(s, p) == {j \in DOMAIN s : s[j] = p}
places(p) ==
  {<<"batch", 0, i>> : i \in {j \in next .. batch_size : pd[j].wrapper = p}}
    \union {<<"freed", 0, j>> : j \in freed \intersect {p}}
    \union UNION {{<<"buffer", q, j>> : j \in positions(tx_mbufs[q], p)}
                    \union {<<"wire", q, j>> : j \in positions(wire[q], p)} :
                  q \in Ports}

(* No packet is lost, sent twice, sent and freed, or left in a buffer that *)
(* was sent: send_packets, send_burst and the drain hand every received    *)
(* packet on exactly once, whatever part of a burst the NIC takes; and no  *)
(* buffer is full between two steps (TypeOK).                              *)
PacketsConserved ==
  TypeOK /\ \A p \in Pkts : \E here \in places(p) : places(p) = {here}

(* Packets leave a port in the order in which they arrived at its partner  *)
(* in port_list, across bursts that were filled, drained or cut short.     *)
SentInOrder ==
  \A q \in Ports : LET s == wire[q] \o tx_mbufs[q]
                   IN  \A j \in 1 .. Len(s) - 1 : s[j] < s[j + 1]

\* What the pipeline should make of a frame, given the states of the tables
\* that routable and routing were looked up in.
treated(f, s1, s2) ==
  IF /\ routable_answer(s1, f).action = "route"
     /\ routing_answer(s2, f).action = "set_nhop"
  THEN [set_nhop(f, routing_answer(s2, f)) EXCEPT !.ttl = (@ - 1) % 256]
  ELSE f

(* A packet leaves the pipeline with its own headers, treated by the       *)
(* entries for its own keys that were in the tables during its batch:      *)
(* nothing of the packets that shared its batch or used its descriptor     *)
(* before, no half of set_nhop, and no entry of another time.              *)
TreatedByOwnEntries ==
  \A p \in Pkts : seen[p][2] # 0 =>
    \E v1 \in seen[p][1] .. seen[p][2] : \E v2 \in v1 .. seen[p][2] :
      mbuf[p] = treated(received[p], tables[v1], tables[v2])

\* The key asked for: of an address, the bytes in front.
asked(c) == IF c.table = "routing" THEN SubSeq(c.key[1], 1, c.key[2] \div 8)
            ELSE c.key

(* A message changes what its sender asked for and nothing else, and one   *)
(* for a table or an action that the switch does not have changes nothing: *)
(* the structs that the controller places one behind the other, in network *)
(* byte order, are found by handle_p4_add_table_entry and                  *)
(* handle_p4_set_default_action, and taken for the right keys and          *)
(* parameters; a prefix in front of an address ends in front in rte_lpm.   *)
TablesFollowMessages ==
  \A n \in DOMAIN handled :
    LET c == handled[n]
        before == tables[n]
    IN  tables[n + 1] =
          IF ~known(c) THEN before
          ELSE IF c.fun = "add"
          THEN [before EXCEPT ![c.table] = add(@, asked(c), c.value)]
          ELSE [before EXCEPT ![c.table] = setdefault(@, c.value)]

(* Every received packet is sent or freed, also when no further packet     *)
(* comes to fill its burst: the drain timer sees to it.                    *)
EveryPacketLeaves ==
  \A p \in 1 .. MaxPkts :
    p \in Pkts ~> p \in freed \union UNION {elements(wire[q]) : q \in Ports}
=============================================================================
