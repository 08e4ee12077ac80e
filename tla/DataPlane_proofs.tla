--------------------------- MODULE DataPlane_proofs ---------------------------
(***************************************************************************)
(* Theorems about DataPlane, for every size of a burst, all ports, receive *)
(* queues and frames, any number of packets, whatever part of a burst the  *)
(* NIC takes and whenever the tables change, by whatever messages a        *)
(* controller program can send.                                            *)
(***************************************************************************)
EXTENDS DataPlane, SequenceTheorems, WellFoundedInduction, TLAPS

\* A sequence, of whatever.
isSeq(s) == \E S : s \in Seq(S)

BatchStages == {"routable", "routing", "switching", "update", "send"}

Fields == {"wrapper", "ttl", "modified", "egress_spec", "mcast_grp", "dropped"}

-----------------------------------------------------------------------------
(* The inductive invariant.                                                *)

Control ==
  /\ pc \in Stages
  /\ elapsed \in BOOLEAN
  /\ queue \in 1 .. Len(RxQueues) + 1
  /\ batch_size \in 0 .. MAX_PKT_BURST
  /\ next \in 1 .. batch_size + 1
  /\ diversionQ \subseteq Batch
  /\ pc \in {"drain", "rx"} => batch_size = 0
  /\ pc # "send" => next = 1
  /\ pc \in BatchStages => queue <= Len(RxQueues)

Records ==
  /\ isSeq(tables) /\ isSeq(handled) /\ isSeq(mbuf)
  /\ received \in Seq(Frames)
  /\ seen \in Seq(Nat \X Nat)
  /\ Len(tables) = Len(handled) + 1 /\ Len(handled) <= MaxChanges
  /\ Len(mbuf) = Len(received) /\ Len(seen) = Len(received)
  /\ \A p \in Pkts : /\ seen[p][1] \in 1 .. Len(tables)
                     /\ seen[p][2] \in 0 .. Len(tables)

\* The packets of a batch are the last ones received, in order.
Descriptors ==
  /\ \A i \in Slots : /\ DOMAIN pd[i] = Fields
                      /\ pd[i].wrapper \in 0 .. Len(received)
                      /\ pd[i].ttl \in -1 .. 255
                      /\ pd[i].modified \in BOOLEAN
                      /\ pd[i].dropped \in {0, 1}
  /\ batch_size <= Len(received)
  /\ \A i \in Batch : pd[i].wrapper = Len(received) - batch_size + i

Buffers ==
  /\ tx_mbufs \in [Ports -> Seq(Nat)] /\ wire \in [Ports -> Seq(Nat)]
  /\ \A q \in Ports : Len(tx_mbufs[q]) < MAX_PKT_BURST

\* Everything up to this packet was handed to send_packet.
done == Len(received) - batch_size + next - 1

increasing(s) == \A j, k \in 1 .. Len(s) : j < k => s[j] < s[k]

below(s, t) == \A j \in 1 .. Len(s), k \in 1 .. Len(t) : s[j] < t[k]

\* Of functions W and B from ports to sets, and a set F: each of the packets
\* 1 .. d is in exactly one place.
split(W, B, F, d) ==
  /\ F \subseteq 1 .. d
  /\ \A q \in Ports : W[q] \subseteq 1 .. d /\ B[q] \subseteq 1 .. d
  /\ \A p \in 1 .. d : p \in F \/ \E q \in Ports : p \in W[q] \/ p \in B[q]
  /\ \A q, r \in Ports : W[q] \intersect B[r] = {}
  /\ \A q, r \in Ports : q # r => /\ W[q] \intersect W[r] = {}
                                  /\ B[q] \intersect B[r] = {}
  /\ \A q \in Ports : F \intersect W[q] = {} /\ F \intersect B[q] = {}

onWire   == [q \in Ports |-> elements(wire[q])]
inBuffer == [q \in Ports |-> elements(tx_mbufs[q])]

Handed ==
  /\ \A q \in Ports : /\ increasing(wire[q]) /\ increasing(tx_mbufs[q])
                      /\ below(wire[q], tx_mbufs[q])
  /\ split(onWire, inBuffer, freed, done)

routed(s, f) == routable_answer(s, f).action = "route"
has_hop(s, f) == routing_answer(s, f).action = "set_nhop"

\* The packet of a descriptor has come so far: through parse_packet, ...
parsed(i) == LET p == pd[i].wrapper
             IN  /\ mbuf[p] = received[p]
                 /\ pd[i].ttl = received[p].ttl
                 /\ pd[i].modified = FALSE

\* ... routable, for some state of the tables, ...
diverted(i) ==
  LET p == pd[i].wrapper
  IN  \E v \in seen[p][1] .. Len(tables) :
        routed(tables[v], received[p]) <=> i \in diversionQ

\* ... and routing.
rewritten(i) ==
  LET p == pd[i].wrapper
      f == received[p]
  IN  \E v1 \in seen[p][1] .. Len(tables) : \E v2 \in v1 .. Len(tables) :
        IF routed(tables[v1], f) /\ has_hop(tables[v2], f)
        THEN /\ mbuf[p] = set_nhop(f, routing_answer(tables[v2], f))
             /\ pd[i].ttl = f.ttl - 1
             /\ pd[i].modified = TRUE
        ELSE mbuf[p] = f /\ pd[i].modified = FALSE

Treating ==
  /\ \A i \in Batch :
       /\ pc # "send" => seen[pd[i].wrapper][2] = 0
       /\ pc \in {"routable", "routing"} => parsed(i)
       /\ pc = "routing" => diverted(i)
       /\ pc \in {"switching", "update"} => rewritten(i)
  /\ TreatedByOwnEntries

Inv == Control /\ Records /\ Descriptors /\ Buffers /\ Handed /\ Treating

-----------------------------------------------------------------------------
(* Sequences.                                                              *)

(* The length and the domain of a sequence, of whatever.                   *)
LEMMA SeqOfAny ==
  ASSUME NEW s, isSeq(s)
  PROVE  Len(s) \in Nat /\ DOMAIN s = 1 .. Len(s)
  BY LenProperties DEF isSeq

(* A sequence with one more element, of whatever.                          *)
LEMMA AppendAny ==
  ASSUME NEW s, isSeq(s), NEW x
  PROVE  /\ isSeq(Append(s, x)) /\ Len(Append(s, x)) = Len(s) + 1
         /\ \A i \in 1 .. Len(s) : Append(s, x)[i] = s[i]
         /\ Append(s, x)[Len(s) + 1] = x
<1>1. PICK S : s \in Seq(S)
  BY DEF isSeq
<1>2. s \in Seq(S \union {x})
  BY <1>1
<1> QED
  BY <1>2, AppendProperties DEF isSeq

(* Two sequences, one behind the other.                                    *)
LEMMA ConcatAny ==
  ASSUME NEW s, isSeq(s), NEW t, isSeq(t)
  PROVE  /\ isSeq(s \o t) /\ Len(s \o t) = Len(s) + Len(t)
         /\ \A i \in 1 .. Len(s) : (s \o t)[i] = s[i]
         /\ \A i \in 1 .. Len(t) : (s \o t)[Len(s) + i] = t[i]
<1>1. PICK S : s \in Seq(S)
  BY DEF isSeq
<1>2. PICK T : t \in Seq(T)
  BY DEF isSeq
<1>3. s \in Seq(S \union T) /\ t \in Seq(S \union T)
  BY <1>1, <1>2
<1>4. Len(s) \in Nat /\ Len(t) \in Nat
  BY <1>3, LenProperties
<1>5. /\ s \o t \in Seq(S \union T) /\ Len(s \o t) = Len(s) + Len(t)
      /\ \A i \in 1 .. Len(s) + Len(t) : (s \o t)[i] =
           IF i <= Len(s) THEN s[i] ELSE t[i - Len(s)]
  BY <1>3, ConcatProperties
<1>6. \A i \in 1 .. Len(s) : (s \o t)[i] = s[i]
  BY <1>4, <1>5
<1>7. \A i \in 1 .. Len(t) : (s \o t)[Len(s) + i] = t[i]
  BY <1>4, <1>5
<1> QED
  BY <1>5, <1>6, <1>7 DEF isSeq

(* A function from 1 .. n is a sequence of length n.                       *)
LEMMA FunctionIsSeq ==
  ASSUME NEW n \in Nat, NEW f, NEW S, f \in [1 .. n -> S]
  PROVE  f \in Seq(S) /\ Len(f) = n
  OBVIOUS

(* elements, by index.                                                     *)
LEMMA ElementsOf ==
  ASSUME NEW s, isSeq(s)
  PROVE  elements(s) = {s[j] : j \in 1 .. Len(s)}
  BY SeqOfAny DEF elements

-----------------------------------------------------------------------------
(* Where the lcore is.                                                     *)

(* There are finitely many receive queues.                                 *)
LEMMA RxLen == Len(RxQueues) \in Nat
  BY DataPlaneAssumption, LenProperties

(* Between the batches there is no packet at work, and the loop of         *)
(* send_packets runs in the stage send only.                               *)
LEMMA ControlStep ==
  ASSUME Control, [Next]_vars
  PROVE  Control'
<1> USE DataPlaneAssumption, RxLen
        DEF Control, Stages, BatchStages, Batch, tblvars, batchvars, txvars,
            pktvars
<1>1. CASE no_drain
  BY <1>1 DEF no_drain
<1>2. CASE tx_drain
  <2>1. elapsed' \in BOOLEAN
    BY <1>2 DEF tx_drain
  <2>2. /\ pc = "drain" /\ pc' = "rx" /\ queue' = 1
        /\ UNCHANGED <<batch_size, diversionQ, next>>
    BY <1>2 DEF tx_drain
  <2> QED
    BY <2>1, <2>2
<1>3. CASE rx_done
  BY <1>3 DEF rx_done
<1>4. CASE nothing_received
  BY <1>4 DEF nothing_received
<1>5. CASE rx_burst
  <2>1. PICK n \in 1 .. MAX_PKT_BURST :
          \E frames \in [1 .. n -> Frames] : packets_received(frames)
    BY <1>5 DEF rx_burst
  <2>2. PICK frames \in [1 .. n -> Frames] : packets_received(frames)
    BY <2>1
  <2>3. Len(frames) = n
    BY FunctionIsSeq
  <2>4. batch_size' = n
    BY <2>2, <2>3 DEF packets_received
  <2> QED
    BY <1>5, <2>4 DEF rx_burst
<1>6. CASE apply_table_routable
  BY <1>6 DEF apply_table_routable
<1>7. CASE apply_table_routing
  BY <1>7 DEF apply_table_routing
<1>8. CASE apply_table_switching
  BY <1>8 DEF apply_table_switching
<1>9. CASE update_packet
  BY <1>9 DEF update_packet
<1>10. CASE buffer_packet
  BY <1>10 DEF buffer_packet
<1>11. CASE buffer_full
  BY <1>11 DEF buffer_full
<1>12. CASE send_packets_returns
  BY <1>12 DEF send_packets_returns
<1>13. CASE tick
  BY <1>13 DEF tick
<1>14. CASE change_table
  BY <1>14 DEF change_table
<1>15. CASE UNCHANGED vars
  BY <1>15 DEF vars
<1> QED
  BY <1>1, <1>2, <1>3, <1>4, <1>5, <1>6, <1>7, <1>8, <1>9, <1>10, <1>11,
     <1>12, <1>13, <1>14, <1>15 DEF Next, MainLoop

-----------------------------------------------------------------------------
(* What is kept of the packets and of the tables.                          *)

(* packets_received, in terms of the sequences.                            *)
LEMMA Received ==
  ASSUME Records, NEW n \in 1 .. MAX_PKT_BURST, NEW frames \in [1 .. n -> Frames],
         packets_received(frames)
  PROVE  /\ batch_size' = n
         /\ received' \in Seq(Frames) /\ isSeq(mbuf') /\ seen' \in Seq(Nat \X Nat)
         /\ Len(received') = Len(received) + n
         /\ Len(mbuf') = Len(received) + n
         /\ Len(seen') = Len(received) + n
         /\ \A p \in Pkts : /\ received'[p] = received[p]
                            /\ mbuf'[p] = mbuf[p]
                            /\ seen'[p] = seen[p]
         /\ \A i \in 1 .. n :
              /\ received'[Len(received) + i] = frames[i]
              /\ mbuf'[Len(received) + i] = frames[i]
              /\ seen'[Len(received) + i] = <<Len(tables), 0>>
         /\ pd' = [i \in Slots |->
                     IF i <= n
                     THEN parse_packet(i, Len(received) + i, frames[i])
                     ELSE pd[i]]
<1> DEFINE first == [j \in 1 .. n |-> <<Len(tables), 0>>]
<1>1. n \in Nat
  OBVIOUS
<1>2. frames \in Seq(Frames) /\ Len(frames) = n
  BY <1>1, FunctionIsSeq
<1>3. Len(tables) \in Nat
  BY SeqOfAny DEF Records
<1>4. first \in Seq(Nat \X Nat) /\ Len(first) = n
  BY <1>1, <1>3, FunctionIsSeq
<1>5. \A i \in 1 .. n : first[i] = <<Len(tables), 0>>
  OBVIOUS
<1> HIDE DEF first
<1>6. /\ received' = received \o frames
      /\ mbuf' = mbuf \o frames
      /\ seen' = seen \o first
      /\ batch_size' = n
      /\ pd' = [i \in Slots |->
                  IF i <= n
                  THEN parse_packet(i, Len(received) + i, frames[i])
                  ELSE pd[i]]
  BY <1>2 DEF packets_received, first
<1>7. isSeq(received) /\ isSeq(mbuf) /\ isSeq(seen) /\ isSeq(frames) /\ isSeq(first)
  BY <1>2, <1>4 DEF Records, isSeq
<1>8. received' \in Seq(Frames) /\ seen' \in Seq(Nat \X Nat) /\ isSeq(mbuf')
  BY <1>2, <1>4, <1>6, <1>7, ConcatProperties, ConcatAny DEF Records
<1>9. Len(mbuf) = Len(received) /\ Len(seen) = Len(received)
  BY DEF Records
<1>10. /\ Len(received') = Len(received) + n
       /\ \A p \in Pkts : received'[p] = received[p]
       /\ \A i \in 1 .. n : received'[Len(received) + i] = frames[i]
  <2>1. /\ Len(received \o frames) = Len(received) + Len(frames)
        /\ \A i \in 1 .. Len(received) : (received \o frames)[i] = received[i]
        /\ \A i \in 1 .. Len(frames) : (received \o frames)[Len(received) + i] = frames[i]
    BY <1>7, ConcatAny
  <2> QED
    BY <2>1, <1>2, <1>5, <1>6 DEF Pkts
<1>11. /\ Len(mbuf') = Len(received) + n
       /\ \A p \in Pkts : mbuf'[p] = mbuf[p]
       /\ \A i \in 1 .. n : mbuf'[Len(received) + i] = frames[i]
  <2>1. /\ Len(mbuf \o frames) = Len(mbuf) + Len(frames)
        /\ \A i \in 1 .. Len(mbuf) : (mbuf \o frames)[i] = mbuf[i]
        /\ \A i \in 1 .. Len(frames) : (mbuf \o frames)[Len(mbuf) + i] = frames[i]
    BY <1>7, ConcatAny
  <2> QED
    BY <2>1, <1>2, <1>9, <1>5, <1>6 DEF Pkts
<1>12. /\ Len(seen') = Len(received) + n
       /\ \A p \in Pkts : seen'[p] = seen[p]
       /\ \A i \in 1 .. n : seen'[Len(received) + i] = <<Len(tables), 0>>
  <2>1. /\ Len(seen \o first) = Len(seen) + Len(first)
        /\ \A i \in 1 .. Len(seen) : (seen \o first)[i] = seen[i]
        /\ \A i \in 1 .. Len(first) : (seen \o first)[Len(seen) + i] = first[i]
    BY <1>7, ConcatAny
  <2> QED
    BY <2>1, <1>4, <1>9, <1>5, <1>6 DEF Pkts
<1> QED
  BY <1>6, <1>8, <1>10, <1>11, <1>12

(* A function of the packets is a sequence as long as received.            *)
LEMMA PerPacket ==
  ASSUME Records, NEW f, NEW S, f \in [Pkts -> S]
  PROVE  isSeq(f) /\ Len(f) = Len(received) /\ f \in Seq(S)
<1>1. Len(received) \in Nat
  BY LenProperties DEF Records
<1> QED
  BY <1>1, FunctionIsSeq DEF Pkts, isSeq

(* One state of the tables for every message handled, and the records of a *)
(* packet for every packet received.                                       *)
LEMMA RecordsStep ==
  ASSUME Records, [Next]_vars
  PROVE  Records'
<1>1. CASE rx_burst
  <2>1. PICK n \in 1 .. MAX_PKT_BURST :
          \E frames \in [1 .. n -> Frames] : packets_received(frames)
    BY <1>1 DEF rx_burst
  <2>2. PICK frames \in [1 .. n -> Frames] : packets_received(frames)
    BY <2>1
  <2>3. UNCHANGED tblvars
    BY <1>1 DEF rx_burst
  <2>4. Len(received) \in Nat /\ Len(tables) \in Nat /\ Len(tables) >= 1
    BY LenProperties, SeqOfAny DEF Records
  <2>5. \A p \in Pkts' : /\ seen'[p][1] \in 1 .. Len(tables)
                         /\ seen'[p][2] \in 0 .. Len(tables)
    <3> SUFFICES ASSUME NEW p \in Pkts'
                 PROVE  /\ seen'[p][1] \in 1 .. Len(tables)
                        /\ seen'[p][2] \in 0 .. Len(tables)
      OBVIOUS
    <3>1. CASE p \in Pkts
      BY <3>1, <2>2, Received DEF Records
    <3>2. CASE p \notin Pkts
      <4>1. p - Len(received) \in 1 .. n /\ p = Len(received) + (p - Len(received))
        BY <3>2, <2>2, <2>4, Received DEF Pkts
      <4>2. seen'[p] = <<Len(tables), 0>>
        BY <4>1, <2>2, Received
      <4> QED
        BY <4>2, <2>4
    <3> QED
      BY <3>1, <3>2
  <2> QED
    BY <2>2, <2>3, <2>5, Received DEF Records, tblvars
<1>2. CASE apply_table_routing
  <2>1. UNCHANGED <<tables, handled, received, seen>>
    BY <1>2 DEF apply_table_routing, tblvars
  <2>2. isSeq(mbuf') /\ Len(mbuf') = Len(received)
    <3>1. mbuf' \in [Pkts -> {mbuf'[p] : p \in Pkts}]
      BY <1>2 DEF apply_table_routing
    <3> QED
      BY <3>1, PerPacket
  <2> QED
    BY <2>1, <2>2 DEF Records, Pkts
<1>3. CASE update_packet
  <2>1. UNCHANGED <<tables, handled, received>>
    BY <1>3 DEF update_packet, tblvars
  <2>2. isSeq(mbuf') /\ Len(mbuf') = Len(received)
    <3>1. mbuf' \in [Pkts -> {mbuf'[p] : p \in Pkts}]
      BY <1>3 DEF update_packet
    <3> QED
      BY <3>1, PerPacket
  <2>3. Len(tables) \in Nat /\ \A p \in Pkts : seen[p] \in Nat \X Nat
    BY SeqOfAny, LenProperties, ElementOfSeq DEF Records, Pkts
  <2>4. \A p \in Pkts : \/ seen'[p] = seen[p]
                        \/ seen'[p] = <<seen[p][1], Len(tables)>>
    BY <1>3 DEF update_packet
  <2>5. seen' \in [Pkts -> Nat \X Nat]
    <3>1. seen' = [p \in Pkts |-> seen'[p]]
      BY <1>3 DEF update_packet
    <3> QED
      BY <3>1, <2>3, <2>4
  <2>6. \A p \in Pkts : /\ seen'[p][1] \in 1 .. Len(tables)
                        /\ seen'[p][2] \in 0 .. Len(tables)
    BY <2>3, <2>4 DEF Records
  <2> QED
    BY <2>1, <2>2, <2>5, <2>6, PerPacket DEF Records, Pkts
<1>4. CASE change_table
  <2>1. PICK c \in Changes : /\ tables' = Append(tables, handle_p4_msg(now, message(c)))
                             /\ handled' = Append(handled, c)
    BY <1>4 DEF change_table
  <2>2. /\ isSeq(tables') /\ Len(tables') = Len(tables) + 1
        /\ isSeq(handled') /\ Len(handled') = Len(handled) + 1
    BY <2>1, AppendAny DEF Records
  <2>3. UNCHANGED pktvars /\ Len(handled) < MaxChanges
    BY <1>4 DEF change_table
  <2>4. Len(tables) \in Nat /\ Len(handled) \in Nat /\ MaxChanges \in Nat
    BY SeqOfAny, DataPlaneAssumption DEF Records
  <2> QED
    BY <2>2, <2>3, <2>4 DEF Records, pktvars, Pkts
<1>5. CASE UNCHANGED <<tblvars, pktvars>>
  BY <1>5 DEF Records, tblvars, pktvars, Pkts
<1> QED
  BY <1>1, <1>2, <1>3, <1>4, <1>5
  DEF Next, MainLoop, vars, no_drain, tx_drain, rx_done, nothing_received,
      apply_table_routable, apply_table_switching, buffer_packet, buffer_full,
      send_packets_returns, tick

-----------------------------------------------------------------------------
(* The descriptors.                                                        *)

(* A batch has descriptors enough.                                         *)
LEMMA BatchInSlots == Control => Batch \subseteq Slots
  BY DataPlaneAssumption DEF Control, Batch, Slots

(* The ttl of a packet as it came.                                         *)
LEMMA TtlOfFrame ==
  ASSUME Records, NEW p \in Pkts
  PROVE  received[p] \in Frames /\ received[p].ttl \in 0 .. 255
  BY ElementOfSeq, DataPlaneAssumption DEF Records, Pkts

(* A packet of the batch is one of the packets.                            *)
LEMMA OfBatch ==
  ASSUME Control, Records, Descriptors, NEW i \in Batch
  PROVE  i \in Slots /\ pd[i].wrapper \in Pkts
<1>1. Len(received) \in Nat /\ batch_size \in Nat
  BY LenProperties, DataPlaneAssumption DEF Records, Control
<1>2. pd[i].wrapper = Len(received) - batch_size + i /\ batch_size <= Len(received)
  BY DEF Descriptors
<1>3. i \in 1 .. batch_size
  BY DEF Batch
<1> QED
  BY <1>1, <1>2, <1>3, BatchInSlots DEF Pkts

(* No two descriptors of a batch have the same packet.                     *)
LEMMA OwnPacket ==
  ASSUME Control, Records, Descriptors, NEW i \in Batch, NEW j \in Batch,
         pd[i].wrapper = pd[j].wrapper
  PROVE  i = j
<1>1. Len(received) \in Nat /\ batch_size \in Nat
  BY LenProperties, DataPlaneAssumption DEF Records, Control
<1>2. pd[i].wrapper = Len(received) - batch_size + i
  BY DEF Descriptors
<1>3. pd[j].wrapper = Len(received) - batch_size + j
  BY DEF Descriptors
<1>4. i \in Int /\ j \in Int
  BY DEF Batch
<1> HIDE DEF Batch
<1> QED
  BY ONLY <1>1, <1>2, <1>3, <1>4, pd[i].wrapper = pd[j].wrapper

(* A descriptor after action_code_set_nhop.                                *)
LEMMA Hopped ==
  ASSUME NEW d, DOMAIN d = Fields
  PROVE  LET e == [d EXCEPT !.ttl = d.ttl - 1, !.modified = TRUE]
         IN  /\ DOMAIN e = Fields
             /\ e.wrapper = d.wrapper /\ e.ttl = d.ttl - 1 /\ e.modified = TRUE
             /\ e.dropped = d.dropped
  BY DEF Fields

(* The descriptors keep pointing at the packets of the batch; the ttl of   *)
(* one is decremented once, so that it never is below -1.                  *)
LEMMA DescriptorsStep ==
  ASSUME Inv, [Next]_vars
  PROVE  Descriptors'
<1>0. Control /\ Records /\ Descriptors /\ Treating
  BY DEF Inv
<1>1. CASE rx_burst
  <2>1. PICK n \in 1 .. MAX_PKT_BURST :
          \E frames \in [1 .. n -> Frames] : packets_received(frames)
    BY <1>1 DEF rx_burst
  <2>2. PICK frames \in [1 .. n -> Frames] : packets_received(frames)
    BY <2>1
  <2>3. /\ batch_size' = n /\ Len(received') = Len(received) + n
        /\ pd' = [i \in Slots |->
                    IF i <= n
                    THEN parse_packet(i, Len(received) + i, frames[i])
                    ELSE pd[i]]
    BY <1>0, <2>2, Received
  <2>4. Len(received) \in Nat
    BY <1>0, LenProperties DEF Records
  <2>5. ASSUME NEW i \in Slots, i <= n
        PROVE  /\ DOMAIN pd'[i] = Fields
               /\ pd'[i].wrapper = Len(received) + i
               /\ pd'[i].ttl = frames[i].ttl
               /\ pd'[i].dropped = pd[i].dropped
               /\ pd'[i].modified \in BOOLEAN
    <3>1. pd'[i] = parse_packet(i, Len(received) + i, frames[i])
      BY <2>3, <2>5
    <3>2. /\ DOMAIN pd'[i] = Fields
          /\ pd'[i].wrapper = Len(received) + i
          /\ pd'[i].ttl = frames[i].ttl
          /\ pd'[i].modified = FALSE
          /\ pd'[i].dropped = pd[i].dropped
      <4>1. DOMAIN pd[i] = Fields
        BY <1>0 DEF Descriptors
      <4> QED
        BY <3>1, <4>1 DEF parse_packet, Fields
    <3>3. pd'[i].modified \in BOOLEAN
      BY <3>2
    <3> QED
      BY <3>2, <3>3
  <2>6. \A i \in Slots : i <= n => i \in 1 .. n /\ frames[i].ttl \in 0 .. 255
    BY DataPlaneAssumption DEF Slots
  <2>7. \A i \in Slots : ~(i <= n) => pd'[i] = pd[i]
    BY <2>3
  <2>8. ASSUME NEW i \in Slots
        PROVE  /\ DOMAIN pd'[i] = Fields
               /\ pd'[i].wrapper \in 0 .. Len(received')
               /\ pd'[i].ttl \in -1 .. 255
               /\ pd'[i].modified \in BOOLEAN
               /\ pd'[i].dropped \in {0, 1}
    <3>1. CASE i <= n
      <4>1. pd'[i].modified \in BOOLEAN
        BY <2>5, <3>1
      <4>2. pd'[i].ttl \in -1 .. 255
        <5>1. pd'[i].ttl = frames[i].ttl
          BY <2>5, <3>1
        <5>2. frames[i].ttl \in 0 .. 255
          BY <2>6, <3>1
        <5> QED
          BY <5>1, <5>2
      <4>3. pd'[i].wrapper \in 0 .. Len(received')
        BY <2>3, <2>4, <2>5, <2>6, <3>1
      <4> QED
        BY <1>0, <2>5, <3>1, <4>1, <4>2, <4>3 DEF Descriptors
    <3>2. CASE ~(i <= n)
      <4>1. pd'[i] = pd[i]
        BY <2>7, <3>2
      <4>2. pd[i].wrapper \in 0 .. Len(received')
        BY <1>0, <2>3, <2>4 DEF Descriptors
      <4> QED
        BY <1>0, <4>1, <4>2 DEF Descriptors
    <3> QED
      BY <3>1, <3>2
  <2>9. \A i \in 1 .. n : i \in Slots /\ i <= n
    BY DataPlaneAssumption DEF Slots
  <2>10. \A i \in Batch' : pd'[i].wrapper = Len(received') - batch_size' + i
    BY <2>3, <2>4, <2>5, <2>9 DEF Batch
  <2>11. batch_size' <= Len(received')
    BY <2>3, <2>4
  <2> QED
    BY <2>8, <2>10, <2>11 DEF Descriptors
<1>2. CASE apply_table_routing
  <2>1. UNCHANGED <<received, batch_size>>
    BY <1>2 DEF apply_table_routing
  <2>2. \A i \in Slots :
          \/ /\ i \in diversionQ
             /\ pd'[i] = [pd[i] EXCEPT !.ttl = pd[i].ttl - 1, !.modified = TRUE]
          \/ pd'[i] = [pd[i] EXCEPT !.dropped = 1]
          \/ pd'[i] = pd[i]
    BY <1>2 DEF apply_table_routing
  <2>3. \A i \in diversionQ : pd[i].ttl \in 0 .. 255
    <3> TAKE i \in diversionQ
    <3>1. i \in Batch /\ pc = "routing"
      BY <1>0, <1>2 DEF Control, apply_table_routing
    <3>2. pd[i].ttl = received[pd[i].wrapper].ttl
      BY <1>0, <3>1 DEF Treating, parsed
    <3> QED
      BY <1>0, <3>1, <3>2, OfBatch, TtlOfFrame
  <2>4. ASSUME NEW i \in Slots
        PROVE  /\ DOMAIN pd'[i] = Fields
               /\ pd'[i].wrapper = pd[i].wrapper
               /\ pd'[i].ttl \in -1 .. 255
               /\ pd'[i].modified \in BOOLEAN
               /\ pd'[i].dropped \in {0, 1}
    <3>0. /\ DOMAIN pd[i] = Fields
          /\ pd[i].ttl \in -1 .. 255
          /\ pd[i].modified \in BOOLEAN
          /\ pd[i].dropped \in {0, 1}
      BY <1>0 DEF Descriptors
    <3>1. CASE /\ i \in diversionQ
               /\ pd'[i] = [pd[i] EXCEPT !.ttl = pd[i].ttl - 1, !.modified = TRUE]
      <4>1. /\ DOMAIN pd'[i] = Fields
            /\ pd'[i].wrapper = pd[i].wrapper
            /\ pd'[i].ttl = pd[i].ttl - 1
            /\ pd'[i].modified = TRUE
            /\ pd'[i].dropped = pd[i].dropped
        BY <3>0, <3>1, Hopped
      <4>2. pd'[i].ttl \in -1 .. 255
        BY <2>3, <3>1, <4>1
      <4> QED
        BY <3>0, <4>1, <4>2
    <3>2. CASE pd'[i] = [pd[i] EXCEPT !.dropped = 1]
      BY <3>0, <3>2 DEF Fields
    <3>3. CASE pd'[i] = pd[i]
      BY <3>0, <3>3
    <3> QED
      BY <2>2, <3>1, <3>2, <3>3
  <2> QED
    BY <1>0, <2>1, <2>4, BatchInSlots DEF Descriptors, Batch
<1>3. CASE apply_table_switching
  <2>1. UNCHANGED <<received, batch_size>>
    BY <1>3 DEF apply_table_switching, pktvars
  <2>2. \A i \in Slots :
          \/ \E x : pd'[i] = [pd[i] EXCEPT !.egress_spec = x]
          \/ pd'[i] = [pd[i] EXCEPT !.mcast_grp = 1]
          \/ pd'[i] = pd[i]
    BY <1>3 DEF apply_table_switching
  <2>3. ASSUME NEW i \in Slots
        PROVE  /\ DOMAIN pd'[i] = Fields
               /\ pd'[i].wrapper = pd[i].wrapper
               /\ pd'[i].ttl = pd[i].ttl
               /\ pd'[i].modified = pd[i].modified
               /\ pd'[i].dropped = pd[i].dropped
    BY <1>0, <2>2 DEF Descriptors, Fields
  <2> QED
    BY <1>0, <2>1, <2>3, BatchInSlots, ZenonT(40) DEF Descriptors, Batch
<1>4. CASE send_packets_returns
  <2>1. batch_size' = 0 /\ UNCHANGED <<pd, received>>
    BY <1>4 DEF send_packets_returns, pktvars
  <2>2. Len(received) \in Nat
    BY <1>0, LenProperties DEF Records
  <2> QED
    BY <1>0, <2>1, <2>2 DEF Descriptors, Batch
<1>5. CASE UNCHANGED <<pd, batch_size, received>>
  BY <1>0, <1>5 DEF Descriptors, Batch
<1> QED
  BY <1>1, <1>2, <1>3, <1>4, <1>5
  DEF Next, MainLoop, vars, batchvars, pktvars, no_drain, tx_drain, rx_done,
      nothing_received, apply_table_routable, update_packet, buffer_packet,
      buffer_full, tick, change_table

-----------------------------------------------------------------------------
(* The pipeline.                                                           *)

(* What treats a packet does not depend on the later states of the tables  *)
(* and on the other packets.                                               *)
LEMMA TreatedKept ==
  ASSUME Records, TreatedByOwnEntries,
         \A p \in Pkts : seen[p][2] # 0 => /\ mbuf'[p] = mbuf[p]
                                           /\ received'[p] = received[p]
                                           /\ seen'[p] = seen[p],
         \A v \in 1 .. Len(tables) : tables'[v] = tables[v],
         NEW p \in Pkts, seen[p][2] # 0
  PROVE  \E v1 \in seen'[p][1] .. seen'[p][2] :
           \E v2 \in v1 .. seen'[p][2] :
             mbuf'[p] = treated(received'[p], tables'[v1], tables'[v2])
<1>1. Len(tables) \in Nat /\ seen[p][1] \in 1 .. Len(tables)
      /\ seen[p][2] \in 0 .. Len(tables)
  BY SeqOfAny DEF Records
<1>2. PICK v1 \in seen[p][1] .. seen[p][2] : \E v2 \in v1 .. seen[p][2] :
        mbuf[p] = treated(received[p], tables[v1], tables[v2])
  BY DEF TreatedByOwnEntries
<1>3. PICK v2 \in v1 .. seen[p][2] :
        mbuf[p] = treated(received[p], tables[v1], tables[v2])
  BY <1>2
<1>4. v1 \in 1 .. Len(tables) /\ v2 \in 1 .. Len(tables)
  BY <1>1
<1>5. tables'[v1] = tables[v1] /\ tables'[v2] = tables[v2]
  BY <1>4
<1>6. mbuf'[p] = treated(received'[p], tables'[v1], tables'[v2])
  BY <1>3, <1>5
<1> QED
  BY <1>6

(* A batch starts out parsed.                                              *)
LEMMA RxTreating ==
  ASSUME Inv, rx_burst
  PROVE  Treating'
<1>0. Control /\ Records /\ Descriptors /\ Treating /\ Control' /\ Descriptors'
      /\ Records'
  BY ControlStep, RecordsStep, DescriptorsStep DEF Inv, Next, MainLoop
<1>1. PICK n \in 1 .. MAX_PKT_BURST :
        \E frames \in [1 .. n -> Frames] : packets_received(frames)
  BY DEF rx_burst
<1>2. PICK frames \in [1 .. n -> Frames] : packets_received(frames)
  BY <1>1
<1>3. pc' = "routable" /\ UNCHANGED tables
  BY DEF rx_burst, tblvars
<1>4. Len(received) \in Nat
  BY <1>0, LenProperties DEF Records
<1>5. batch_size' = n /\ Len(received') = Len(received) + n
  BY <1>0, <1>2, Received
<1>6. ASSUME NEW i \in Batch'
      PROVE  seen'[pd'[i].wrapper][2] = 0 /\ parsed(i)'
  <2>1. i \in 1 .. n /\ pd'[i].wrapper = Len(received) + i
    BY <1>0, <1>4, <1>5 DEF Descriptors, Batch
  <2>2. /\ received'[Len(received) + i] = frames[i]
        /\ mbuf'[Len(received) + i] = frames[i]
        /\ seen'[Len(received) + i] = <<Len(tables), 0>>
    BY <1>0, <1>2, <2>1, Received
  <2>3. i \in Slots /\ DOMAIN pd[i] = Fields
    BY <1>0, <2>1, DataPlaneAssumption DEF Slots, Descriptors
  <2>4. pd'[i] = parse_packet(i, Len(received) + i, frames[i])
    <3>1. pd' = [j \in Slots |->
                   IF j <= n
                   THEN parse_packet(j, Len(received) + j, frames[j])
                   ELSE pd[j]]
      BY <1>0, <1>2, Received
    <3>2. i <= n
      BY <2>1
    <3> QED
      BY <2>3, <3>1, <3>2
  <2>5. pd'[i].ttl = frames[i].ttl /\ pd'[i].modified = FALSE
    BY <2>3, <2>4 DEF parse_packet, Fields
  <2> QED
    BY <2>1, <2>2, <2>5 DEF parsed
<1>7. TreatedByOwnEntries'
  <2> SUFFICES ASSUME NEW p \in Pkts', seen'[p][2] # 0
               PROVE  \E v1 \in seen'[p][1] .. seen'[p][2] :
                        \E v2 \in v1 .. seen'[p][2] :
                          mbuf'[p] = treated(received'[p], tables'[v1], tables'[v2])
    BY DEF TreatedByOwnEntries
  <2>1. p \in Pkts
    <3> SUFFICES ASSUME p \notin Pkts PROVE FALSE
      OBVIOUS
    <3>1. p - Len(received) \in 1 .. n /\ p = Len(received) + (p - Len(received))
      BY <1>4, <1>5 DEF Pkts
    <3>2. seen'[p] = <<Len(tables), 0>>
      BY <1>0, <1>2, <3>1, Received
    <3> QED
      BY <3>2
  <2>2. \A q \in Pkts : /\ mbuf'[q] = mbuf[q] /\ received'[q] = received[q]
                        /\ seen'[q] = seen[q]
    BY <1>0, <1>2, Received
  <2>3. seen[p][2] # 0
    BY <2>1, <2>2
  <2> QED
    BY <1>0, <1>3, <2>1, <2>2, <2>3, TreatedKept DEF Treating
<1> QED
  BY <1>3, <1>6, <1>7 DEF Treating

(* routable diverts the packets by the tables of its lookup ...            *)
LEMMA RoutableTreating ==
  ASSUME Inv, apply_table_routable
  PROVE  Treating'
<1>0. Control /\ Records /\ Descriptors /\ Treating
  BY DEF Inv
<1>1. /\ pc = "routable" /\ UNCHANGED <<tables, pd, batch_size, received, mbuf, seen>>
      /\ pc' = IF diversionQ' = {} THEN "switching" ELSE "routing"
      /\ diversionQ' =
           {i \in Batch : routable_answer(now, header(i)).action = "route"}
  BY DEF apply_table_routable, tblvars, pktvars
<1>2. Len(tables) \in Nat /\ Batch' = Batch
  BY <1>0, <1>1, SeqOfAny DEF Records, Batch
<1>3. ASSUME NEW i \in Batch
      PROVE  /\ seen[pd[i].wrapper][2] = 0
             /\ parsed(i)
             /\ Len(tables) \in seen[pd[i].wrapper][1] .. Len(tables)
             /\ routed(now, received[pd[i].wrapper]) <=> i \in diversionQ'
  <2>1. seen[pd[i].wrapper][2] = 0 /\ parsed(i)
    BY <1>0, <1>1 DEF Treating
  <2>2. header(i) = received[pd[i].wrapper]
    BY <2>1 DEF parsed, header
  <2>3. seen[pd[i].wrapper][1] \in 1 .. Len(tables)
    BY <1>0, OfBatch DEF Records
  <2> QED
    BY <1>1, <1>2, <2>1, <2>2, <2>3 DEF routed
<1>4. ASSUME NEW i \in Batch
      PROVE  diverted(i)'
  BY <1>1, <1>2, <1>3 DEF diverted, now
<1>5. ASSUME NEW i \in Batch, diversionQ' = {}
      PROVE  rewritten(i)'
  <2> DEFINE f == received[pd[i].wrapper]
             v == Len(tables)
  <2>1. ~(routed(tables[v], f) /\ has_hop(tables[v], f))
    BY <1>3, <1>5 DEF now
  <2>2. mbuf[pd[i].wrapper] = f /\ pd[i].modified = FALSE
    BY <1>3 DEF parsed
  <2>3. v \in seen[pd[i].wrapper][1] .. v /\ v \in v .. v
    BY <1>2, <1>3
  <2> QED
    BY <1>1, <2>1, <2>2, <2>3 DEF rewritten
<1>6. TreatedByOwnEntries'
  BY <1>0, <1>1 DEF Treating, TreatedByOwnEntries, Pkts
<1>7. ASSUME NEW i \in Batch
      PROVE  parsed(i)'
  BY <1>1, <1>3 DEF parsed
<1> QED
  BY <1>1, <1>2, <1>3, <1>4, <1>5, <1>6, <1>7 DEF Treating

(* ... routing rewrites those that it diverted, by tables as old or newer  *)
(* ...                                                                     *)
LEMMA RoutingTreating ==
  ASSUME Inv, apply_table_routing
  PROVE  Treating'
<1> DEFINE hit(i) == /\ i \in diversionQ
                     /\ routing_answer(now, header(i)).action = "set_nhop"
<1>0. Control /\ Records /\ Descriptors /\ Treating
  BY DEF Inv
<1>1. /\ pc = "routing" /\ pc' = "switching"
      /\ UNCHANGED <<tables, batch_size, received, seen>>
      /\ \A p \in Pkts : mbuf'[p] =
           IF \E i \in diversionQ : hit(i) /\ pd[i].wrapper = p
           THEN set_nhop(mbuf[p], routing_answer(now, mbuf[p]))
           ELSE mbuf[p]
      /\ \A i \in Slots :
           \/ hit(i) /\ pd'[i] = [pd[i] EXCEPT !.ttl = pd[i].ttl - 1, !.modified = TRUE]
           \/ ~hit(i) /\ pd'[i] = [pd[i] EXCEPT !.dropped = 1]
           \/ ~hit(i) /\ pd'[i] = pd[i]
  BY DEF apply_table_routing, tblvars
<1>2. Len(tables) \in Nat /\ Batch' = Batch /\ diversionQ \subseteq Batch
  BY <1>0, <1>1, SeqOfAny DEF Records, Control, Batch
<1> HIDE DEF hit
<1>3. ASSUME NEW i \in Batch
      PROVE  /\ seen[pd[i].wrapper][2] = 0 /\ pd'[i].wrapper = pd[i].wrapper
             /\ rewritten(i)'
  <2> DEFINE p == pd[i].wrapper
             f == received[p]
             v == Len(tables)
  <2>1. /\ seen[p][2] = 0 /\ mbuf[p] = f /\ pd[i].ttl = f.ttl
        /\ pd[i].modified = FALSE
    BY <1>0, <1>1 DEF Treating, parsed
  <2>2. i \in Slots /\ p \in Pkts /\ DOMAIN pd[i] = Fields
    BY <1>0, OfBatch DEF Descriptors
  <2>3. PICK v1 \in seen[p][1] .. v : routed(tables[v1], f) <=> i \in diversionQ
    BY <1>0, <1>1 DEF Treating, diverted
  <2>4. seen[p][1] \in 1 .. v
    BY <1>0, <2>2 DEF Records
  <2>5. v \in v1 .. v
    BY <1>2, <2>3, <2>4
  <2>6. (routed(tables[v1], f) /\ has_hop(tables[v], f)) <=> hit(i)
    BY <1>0, <2>1, <2>3 DEF hit, has_hop, header, now
  <2>7. CASE hit(i)
    <3>1. pd'[i] = [pd[i] EXCEPT !.ttl = pd[i].ttl - 1, !.modified = TRUE]
      BY <1>1, <2>2, <2>7
    <3>2. /\ pd'[i].wrapper = p /\ pd'[i].ttl = pd[i].ttl - 1
          /\ pd'[i].modified = TRUE
      BY <2>2, <3>1 DEF Fields
    <3>3. mbuf'[p] = set_nhop(f, routing_answer(tables[v], f))
      BY <1>1, <2>1, <2>2, <2>7 DEF hit, now
    <3>4. rewritten(i)'
      <4>1. routed(tables[v1], f) /\ has_hop(tables[v], f)
        BY <2>6, <2>7
      <4>2. pd'[i].ttl = f.ttl - 1
        BY <2>1, <3>2
      <4>3. received' = received /\ tables' = tables /\ seen' = seen
        BY <1>1
      <4> QED
        BY <2>3, <2>5, <3>2, <3>3, <4>1, <4>2, <4>3 DEF rewritten
    <3> QED
      BY <2>1, <3>2, <3>4
  <2>8. CASE ~hit(i)
    <3>1. pd'[i].wrapper = p /\ pd'[i].modified = FALSE
      BY <1>1, <2>1, <2>2, <2>8 DEF Fields
    <3>2. mbuf'[p] = f
      <4>1. ~\E j \in diversionQ : hit(j) /\ pd[j].wrapper = p
        BY <1>0, <1>2, <2>8, OwnPacket
      <4> QED
        BY <1>1, <2>1, <2>2, <4>1
    <3>3. rewritten(i)'
      BY <1>1, <2>3, <2>5, <2>6, <2>8, <3>1, <3>2 DEF rewritten
    <3> QED
      BY <2>1, <3>1, <3>3
  <2> QED
    BY <2>7, <2>8
<1>4. TreatedByOwnEntries'
  <2> SUFFICES ASSUME NEW p \in Pkts, seen[p][2] # 0
               PROVE  \E v1 \in seen'[p][1] .. seen'[p][2] :
                        \E v2 \in v1 .. seen'[p][2] :
                          mbuf'[p] = treated(received'[p], tables'[v1], tables'[v2])
    BY <1>1 DEF TreatedByOwnEntries, Pkts
  <2>1. \A q \in Pkts : seen[q][2] # 0 => /\ mbuf'[q] = mbuf[q]
                                          /\ received'[q] = received[q]
                                          /\ seen'[q] = seen[q]
    <3> TAKE q \in Pkts
    <3> HAVE seen[q][2] # 0
    <3>1. ~\E i \in diversionQ : pd[i].wrapper = q
      BY <1>2, <1>3
    <3>2. mbuf'[q] = mbuf[q]
      BY <1>1, <3>1
    <3> QED
      BY <1>1, <3>2
  <2> QED
    BY <1>0, <1>1, <2>1, TreatedKept DEF Treating
<1> QED
  BY <1>1, <1>2, <1>3, <1>4 DEF Treating

(* ... switching rewrites none ...                                         *)
LEMMA SwitchingTreating ==
  ASSUME Inv, apply_table_switching
  PROVE  Treating'
<1>0. Control /\ Records /\ Descriptors /\ Treating
  BY DEF Inv
<1>1. /\ pc = "switching" /\ pc' = "update"
      /\ UNCHANGED <<tables, batch_size, received, mbuf, seen>>
      /\ \A i \in Slots :
           \/ \E x : pd'[i] = [pd[i] EXCEPT !.egress_spec = x]
           \/ pd'[i] = [pd[i] EXCEPT !.mcast_grp = 1]
           \/ pd'[i] = pd[i]
  BY DEF apply_table_switching, tblvars, pktvars
<1>2. Batch' = Batch
  BY <1>1 DEF Batch
<1>3. ASSUME NEW i \in Batch
      PROVE  /\ pd'[i].wrapper = pd[i].wrapper /\ pd'[i].ttl = pd[i].ttl
             /\ pd'[i].modified = pd[i].modified
  <2>1. i \in Slots /\ DOMAIN pd[i] = Fields
    BY <1>0, OfBatch DEF Descriptors
  <2> QED
    BY <1>1, <2>1 DEF Fields
<1>4. ASSUME NEW i \in Batch
      PROVE  seen'[pd'[i].wrapper][2] = 0 /\ rewritten(i)'
  <2>1. seen[pd[i].wrapper][2] = 0 /\ rewritten(i)
    BY <1>0, <1>1 DEF Treating
  <2> QED
    BY <1>1, <1>3, <2>1 DEF rewritten
<1>5. TreatedByOwnEntries'
  BY <1>0, <1>1 DEF Treating, TreatedByOwnEntries, Pkts
<1> QED
  BY <1>1, <1>2, <1>4, <1>5 DEF Treating

(* set_nhop and the ttl, together.                                         *)
LEMMA TreatedRouted ==
  ASSUME NEW f \in Frames, NEW s1, NEW s2, routed(s1, f), has_hop(s2, f)
  PROVE  treated(f, s1, s2) =
           [set_nhop(f, routing_answer(s2, f)) EXCEPT !.ttl = (f.ttl - 1) % 256]
<1>1. f = [src |-> f.src, dst |-> f.dst, vid |-> f.vid, ip |-> f.ip,
           ttl |-> f.ttl]
  BY DataPlaneAssumption
<1>2. set_nhop(f, routing_answer(s2, f)).ttl = f.ttl
  BY <1>1 DEF set_nhop
<1> HIDE DEF set_nhop
<1> QED
  BY <1>2 DEF treated, routed, has_hop

(* ... and update_packet writes the ttl of its own descriptor into each.   *)
LEMMA UpdateTreating ==
  ASSUME Inv, update_packet
  PROVE  Treating'
<1>0. Control /\ Records /\ Descriptors /\ Treating
  BY DEF Inv
<1>1. /\ pc = "update" /\ pc' = "send"
      /\ UNCHANGED <<tables, pd, batch_size, received>>
      /\ \A p \in Pkts : mbuf'[p] =
           IF \E i \in Batch : pd[i].wrapper = p /\ pd[i].modified
           THEN LET i == CHOOSE j \in Batch : pd[j].wrapper = p
                IN  [mbuf[p] EXCEPT !.ttl = pd[i].ttl % 256]
           ELSE mbuf[p]
      /\ \A p \in Pkts : seen'[p] = IF \E i \in Batch : pd[i].wrapper = p
                                    THEN <<seen[p][1], Len(tables)>>
                                    ELSE seen[p]
  BY DEF update_packet, tblvars
<1>2. TreatedByOwnEntries'
  <2> SUFFICES ASSUME NEW p \in Pkts, seen'[p][2] # 0
               PROVE  \E v1 \in seen'[p][1] .. seen'[p][2] :
                        \E v2 \in v1 .. seen'[p][2] :
                          mbuf'[p] = treated(received'[p], tables'[v1], tables'[v2])
    BY <1>1 DEF TreatedByOwnEntries, Pkts
  <2>1. CASE \E i \in Batch : pd[i].wrapper = p
    <3>1. PICK i \in Batch : pd[i].wrapper = p
      BY <2>1
    <3> DEFINE f == received[p]
    <3>2. seen'[p] = <<seen[p][1], Len(tables)>>
      BY <1>1, <3>1
    <3>3. PICK v1 \in seen[p][1] .. Len(tables) : \E v2 \in v1 .. Len(tables) :
            IF routed(tables[v1], f) /\ has_hop(tables[v2], f)
            THEN /\ mbuf[p] = set_nhop(f, routing_answer(tables[v2], f))
                 /\ pd[i].ttl = f.ttl - 1
                 /\ pd[i].modified = TRUE
            ELSE mbuf[p] = f /\ pd[i].modified = FALSE
      BY <1>0, <1>1, <3>1 DEF Treating, rewritten
    <3>4. PICK v2 \in v1 .. Len(tables) :
            IF routed(tables[v1], f) /\ has_hop(tables[v2], f)
            THEN /\ mbuf[p] = set_nhop(f, routing_answer(tables[v2], f))
                 /\ pd[i].ttl = f.ttl - 1
                 /\ pd[i].modified = TRUE
            ELSE mbuf[p] = f /\ pd[i].modified = FALSE
      BY <3>3
    <3>5. i = CHOOSE j \in Batch : pd[j].wrapper = p
      BY <1>0, <3>1, OwnPacket
    <3>6. (\E j \in Batch : pd[j].wrapper = p /\ pd[j].modified) <=> pd[i].modified
      BY <1>0, <3>1, OwnPacket
    <3>7. mbuf'[p] = treated(f, tables[v1], tables[v2])
      <4>1. CASE routed(tables[v1], f) /\ has_hop(tables[v2], f)
        <5>1. mbuf'[p] = [mbuf[p] EXCEPT !.ttl = pd[i].ttl % 256]
          BY <1>1, <3>4, <3>5, <3>6, <4>1
        <5>2. f \in Frames
          BY <1>0, TtlOfFrame
        <5> QED
          BY <3>4, <4>1, <5>1, <5>2, TreatedRouted
      <4>2. CASE ~(routed(tables[v1], f) /\ has_hop(tables[v2], f))
        BY <1>1, <3>4, <3>6, <4>2 DEF treated, routed, has_hop
      <4> QED
        BY <4>1, <4>2
    <3> QED
      BY <1>1, <3>2, <3>7
  <2>2. CASE ~\E i \in Batch : pd[i].wrapper = p
    <3>1. mbuf'[p] = mbuf[p] /\ seen'[p] = seen[p]
      BY <1>1, <2>2
    <3> QED
      BY <1>0, <1>1, <3>1 DEF Treating, TreatedByOwnEntries
  <2> QED
    BY <2>1, <2>2
<1> QED
  BY <1>1, <1>2 DEF Treating

(* A message adds a state of the tables and takes none away.               *)
LEMMA ChangeTreating ==
  ASSUME Inv, change_table
  PROVE  Treating'
<1>0. Control /\ Records /\ Descriptors /\ Treating
  BY DEF Inv
<1>1. PICK c \in Changes : tables' = Append(tables, handle_p4_msg(now, message(c)))
  BY DEF change_table
<1>2. UNCHANGED <<pc, pd, batch_size, diversionQ, received, mbuf, seen>>
  BY DEF change_table, batchvars, pktvars
<1>3. /\ Len(tables) \in Nat /\ Len(tables') = Len(tables) + 1
      /\ \A v \in 1 .. Len(tables) : tables'[v] = tables[v]
  BY <1>0, <1>1, SeqOfAny, AppendAny DEF Records
<1>4. Batch' = Batch /\ Pkts' = Pkts
  BY <1>2 DEF Batch, Pkts
<1>5. ASSUME NEW i \in Batch
      PROVE  /\ diverted(i) => diverted(i)'
             /\ rewritten(i) => rewritten(i)'
  <2> DEFINE p == pd[i].wrapper
             f == received[p]
  <2>1. seen[p][1] \in 1 .. Len(tables)
    BY <1>0, OfBatch DEF Records
  <2>2. ASSUME diverted(i) PROVE diverted(i)'
    <3>1. PICK v \in seen[p][1] .. Len(tables) :
            routed(tables[v], f) <=> i \in diversionQ
      BY <2>2 DEF diverted
    <3>2. v \in 1 .. Len(tables) /\ v \in seen[p][1] .. Len(tables')
      BY <1>3, <2>1, <3>1
    <3> QED
      BY <1>2, <1>3, <3>1, <3>2 DEF diverted
  <2>3. ASSUME rewritten(i) PROVE rewritten(i)'
    <3> DEFINE as(t1, t2) == IF routed(t1, f) /\ has_hop(t2, f)
                             THEN /\ mbuf[p] = set_nhop(f, routing_answer(t2, f))
                                  /\ pd[i].ttl = f.ttl - 1
                                  /\ pd[i].modified = TRUE
                             ELSE mbuf[p] = f /\ pd[i].modified = FALSE
    <3>1. PICK v1 \in seen[p][1] .. Len(tables) :
            \E v2 \in v1 .. Len(tables) : as(tables[v1], tables[v2])
      BY <2>3 DEF rewritten
    <3>2. PICK v2 \in v1 .. Len(tables) : as(tables[v1], tables[v2])
      BY <3>1
    <3> HIDE DEF as
    <3>3. /\ v1 \in 1 .. Len(tables) /\ v2 \in 1 .. Len(tables)
          /\ v1 \in seen[p][1] .. Len(tables') /\ v2 \in v1 .. Len(tables')
      BY <1>3, <2>1
    <3>4. as(tables'[v1], tables'[v2])
      BY <1>3, <3>2, <3>3
    <3> QED
      BY <1>2, <3>3, <3>4 DEF rewritten, as
  <2> QED
    BY <2>2, <2>3
<1>6. TreatedByOwnEntries'
  <2> SUFFICES ASSUME NEW p \in Pkts, seen[p][2] # 0
               PROVE  \E v1 \in seen'[p][1] .. seen'[p][2] :
                        \E v2 \in v1 .. seen'[p][2] :
                          mbuf'[p] = treated(received'[p], tables'[v1], tables'[v2])
    BY <1>2, <1>4 DEF TreatedByOwnEntries
  <2> QED
    BY <1>0, <1>2, <1>3, TreatedKept DEF Treating
<1>7. ASSUME NEW i \in Batch
      PROVE  parsed(i) => parsed(i)'
  BY <1>2 DEF parsed
<1> QED
  BY <1>0, <1>2, <1>4, <1>5, <1>6, <1>7 DEF Treating

(* Steps that touch neither packets nor tables.                            *)
LEMMA OtherTreating ==
  ASSUME Inv, UNCHANGED <<pd, batch_size, diversionQ, tables, pktvars>>,
         pc' = pc \/ batch_size = 0
  PROVE  Treating'
<1>0. Control /\ Treating
  BY DEF Inv
<1>1. Batch' = Batch /\ (batch_size = 0 => Batch = {})
  BY DEF Batch
<1>2. TreatedByOwnEntries'
  BY <1>0 DEF Treating, TreatedByOwnEntries, Pkts, pktvars
<1>3. ASSUME NEW i \in Batch
      PROVE  parsed(i)' = parsed(i) /\ diverted(i)' = diverted(i)
             /\ rewritten(i)' = rewritten(i) /\ seen'[pd'[i].wrapper] = seen[pd[i].wrapper]
  BY DEF parsed, diverted, rewritten, pktvars
<1> QED
  BY <1>0, <1>1, <1>2, <1>3 DEF Treating

(* Every step keeps what is known of the treatment of the packets.         *)
LEMMA TreatingStep ==
  ASSUME Inv, [Next]_vars
  PROVE  Treating'
<1>0. Control
  BY DEF Inv
<1>1. CASE rx_burst
  BY <1>1, RxTreating
<1>2. CASE apply_table_routable
  BY <1>2, RoutableTreating
<1>3. CASE apply_table_routing
  BY <1>3, RoutingTreating
<1>4. CASE apply_table_switching
  BY <1>4, SwitchingTreating
<1>5. CASE update_packet
  BY <1>5, UpdateTreating
<1>6. CASE change_table
  BY <1>6, ChangeTreating
<1>7. CASE send_packets_returns
  <2>1. batch_size' = 0 /\ UNCHANGED <<pktvars, tables>>
    BY <1>7 DEF send_packets_returns, tblvars
  <2>2. Batch' = {}
    BY <2>1 DEF Batch
  <2>3. TreatedByOwnEntries'
    BY <2>1 DEF Inv, Treating, TreatedByOwnEntries, Pkts, pktvars
  <2> QED
    BY <2>2, <2>3 DEF Treating
<1>8. CASE /\ UNCHANGED <<pd, batch_size, diversionQ, tables, pktvars>>
           /\ pc' = pc \/ batch_size = 0
  BY <1>8, OtherTreating
<1> QED
  BY <1>0, <1>1, <1>2, <1>3, <1>4, <1>5, <1>6, <1>7, <1>8
  DEF Next, MainLoop, vars, tblvars, batchvars, pktvars, Control, no_drain,
      tx_drain, rx_done, nothing_received, buffer_packet, buffer_full, tick

-----------------------------------------------------------------------------
(* Transmission.  First the sequences: part of a burst goes on the wire,   *)
(* and a packet is put into a buffer.                                      *)

(* The empty buffer.                                                       *)
LEMMA EmptyNat ==
  /\ <<>> \in Seq(Nat) /\ Len(<<>>) = 0 /\ elements(<<>>) = {}
  /\ increasing(<<>>) /\ \A w : below(w, <<>>)
<1>1. <<>> \in Seq(Nat) /\ Len(<<>>) = 0
  BY EmptySeq
<1>2. elements(<<>>) = {}
  <2>1. DOMAIN <<>> = 1 .. 0
    BY <1>1, LenProperties
  <2>2. 1 .. 0 = {}
    OBVIOUS
  <2> QED
    BY <2>1, <2>2 DEF elements
<1> QED
  BY <1>1, <1>2 DEF increasing, below

(* The part of a burst that is taken, on the wire behind what was sent,    *)
(* and the rest of it.                                                     *)
LEMMA CutBurst ==
  ASSUME NEW w \in Seq(Nat), NEW b \in Seq(Nat), increasing(w), increasing(b),
         below(w, b), NEW n \in 0 .. Len(b)
  PROVE  LET sent == SubSeq(b, 1, n)
             rest == SubSeq(b, n + 1, Len(b))
         IN  /\ w \o sent \in Seq(Nat) /\ increasing(w \o sent)
             /\ elements(w \o sent) = elements(w) \union elements(sent)
             /\ elements(sent) \union elements(rest) = elements(b)
             /\ elements(sent) \intersect elements(rest) = {}
<1> DEFINE sent == SubSeq(b, 1, n)
           rest == SubSeq(b, n + 1, Len(b))
           l == Len(b)
<1>1. l \in Nat /\ Len(w) \in Nat /\ n \in Nat /\ n <= l
  BY LenProperties
<1>2. \A i \in 1 .. l : b[i] \in Nat
  BY ElementOfSeq
<1>3. sent \in Seq(Nat) /\ Len(sent) = n /\ \A i \in 1 .. n : sent[i] = b[i]
  <2>1. \A i \in 1 .. n : b[i] \in Nat
    BY <1>1, <1>2
  <2>2. /\ sent \in Seq(Nat) /\ Len(sent) = IF 1 <= n THEN n - 1 + 1 ELSE 0
        /\ \A i \in 1 .. n - 1 + 1 : sent[i] = b[1 + i - 1]
    BY <1>1, <2>1, SubSeqProperties
  <2> QED
    BY <1>1, <2>2
<1>4. /\ rest \in Seq(Nat) /\ Len(rest) = l - n
      /\ \A i \in 1 .. l - n : rest[i] = b[n + i]
  <2>1. \A i \in n + 1 .. l : b[i] \in Nat
    BY <1>1, <1>2
  <2>2. /\ rest \in Seq(Nat)
        /\ Len(rest) = IF n + 1 <= l THEN l - (n + 1) + 1 ELSE 0
        /\ \A i \in 1 .. l - (n + 1) + 1 : rest[i] = b[(n + 1) + i - 1]
    BY <1>1, <2>1, SubSeqProperties
  <2> QED
    BY <1>1, <2>2
<1> HIDE DEF sent, rest
<1>5. /\ w \o sent \in Seq(Nat) /\ Len(w \o sent) = Len(w) + n
      /\ \A i \in 1 .. Len(w) + n :
           (w \o sent)[i] = IF i <= Len(w) THEN w[i] ELSE sent[i - Len(w)]
  BY <1>3, ConcatProperties
<1>6. increasing(w \o sent)
  <2> SUFFICES ASSUME NEW i \in 1 .. Len(w) + n, NEW j \in 1 .. Len(w) + n, i < j
               PROVE  (w \o sent)[i] < (w \o sent)[j]
    BY <1>5 DEF increasing
  <2>1. CASE j <= Len(w)
    BY <1>1, <1>5, <2>1 DEF increasing
  <2>2. CASE i <= Len(w) /\ ~(j <= Len(w))
    <3>1. j - Len(w) \in 1 .. n /\ j - Len(w) \in 1 .. l
      BY <1>1, <2>2
    <3>2. (w \o sent)[j] = b[j - Len(w)] /\ (w \o sent)[i] = w[i]
      BY <1>3, <1>5, <2>2, <3>1
    <3>3. i \in 1 .. Len(w)
      BY <1>1, <2>2
    <3> QED
      BY <3>1, <3>2, <3>3 DEF below
  <2>3. CASE ~(i <= Len(w))
    <3>1. /\ i - Len(w) \in 1 .. n /\ j - Len(w) \in 1 .. n
          /\ i - Len(w) \in 1 .. l /\ j - Len(w) \in 1 .. l
          /\ i - Len(w) < j - Len(w) /\ ~(j <= Len(w))
      BY <1>1, <2>3
    <3>2. (w \o sent)[i] = b[i - Len(w)] /\ (w \o sent)[j] = b[j - Len(w)]
      BY <1>3, <1>5, <2>3, <3>1
    <3> QED
      BY <3>1, <3>2 DEF increasing
  <2> QED
    BY <2>1, <2>2, <2>3
<1>7. /\ elements(w) = {w[i] : i \in 1 .. Len(w)}
      /\ elements(b) = {b[i] : i \in 1 .. l}
      /\ elements(sent) = {b[i] : i \in 1 .. n}
      /\ elements(rest) = {b[n + i] : i \in 1 .. l - n}
      /\ elements(w \o sent) = {(w \o sent)[i] : i \in 1 .. Len(w) + n}
  <2>1. isSeq(w) /\ isSeq(b) /\ isSeq(sent) /\ isSeq(rest) /\ isSeq(w \o sent)
    BY <1>3, <1>4, <1>5 DEF isSeq
  <2>2. /\ elements(sent) = {sent[i] : i \in 1 .. n}
        /\ elements(rest) = {rest[i] : i \in 1 .. l - n}
    <3>1. elements(sent) = {sent[i] : i \in 1 .. Len(sent)}
      BY <2>1, ElementsOf
    <3>2. elements(rest) = {rest[i] : i \in 1 .. Len(rest)}
      BY <2>1, ElementsOf
    <3> QED
      BY <1>3, <1>4, <3>1, <3>2
  <2>3. {sent[i] : i \in 1 .. n} = {b[i] : i \in 1 .. n}
    BY <1>3
  <2>4. {rest[i] : i \in 1 .. l - n} = {b[n + i] : i \in 1 .. l - n}
    BY <1>4
  <2>5. /\ elements(w) = {w[i] : i \in 1 .. Len(w)}
        /\ elements(b) = {b[i] : i \in 1 .. l}
        /\ elements(w \o sent) = {(w \o sent)[i] : i \in 1 .. Len(w \o sent)}
    BY <2>1, ElementsOf
  <2> QED
    BY <1>5, <2>2, <2>3, <2>4, <2>5
<1>8. elements(w \o sent) = elements(w) \union elements(sent)
  <2>1. \A x \in elements(w) : x \in elements(w \o sent)
    <3> TAKE x \in elements(w)
    <3>1. PICK i \in 1 .. Len(w) : x = w[i]
      BY <1>7
    <3>2. i \in 1 .. Len(w) + n /\ i <= Len(w)
      BY <1>1
    <3>3. (w \o sent)[i] = x
      BY <1>5, <3>1, <3>2
    <3> QED
      BY <1>7, <3>2, <3>3
  <2>2. \A x \in elements(sent) : x \in elements(w \o sent)
    <3> TAKE x \in elements(sent)
    <3>1. PICK i \in 1 .. n : x = b[i]
      BY <1>7
    <3>2. /\ Len(w) + i \in 1 .. Len(w) + n /\ ~(Len(w) + i <= Len(w))
          /\ (Len(w) + i) - Len(w) = i
      BY <1>1
    <3>3. (w \o sent)[Len(w) + i] = x
      BY <1>3, <1>5, <3>1, <3>2
    <3> QED
      BY <1>7, <3>2, <3>3
  <2>3. \A x \in elements(w \o sent) : x \in elements(w) \union elements(sent)
    <3> TAKE x \in elements(w \o sent)
    <3>1. PICK i \in 1 .. Len(w) + n : x = (w \o sent)[i]
      BY <1>7
    <3>2. CASE i <= Len(w)
      BY <1>1, <1>5, <1>7, <3>1, <3>2
    <3>3. CASE ~(i <= Len(w))
      <4>1. i - Len(w) \in 1 .. n
        BY <1>1, <3>3
      <4>2. x = b[i - Len(w)]
        BY <1>3, <1>5, <3>1, <3>3, <4>1
      <4> QED
        BY <1>7, <4>1, <4>2
    <3> QED
      BY <3>2, <3>3
  <2> QED
    BY <2>1, <2>2, <2>3
<1>9. elements(sent) \union elements(rest) = elements(b)
  <2>1. \A i \in 1 .. n : i \in 1 .. l
    BY <1>1
  <2>2. \A i \in 1 .. l - n : n + i \in 1 .. l
    BY <1>1
  <2>3. \A i \in 1 .. l : i \in 1 .. n \/ (i - n \in 1 .. l - n /\ n + (i - n) = i)
    BY <1>1
  <2>4. \A x \in elements(b) : x \in elements(sent) \union elements(rest)
    <3> TAKE x \in elements(b)
    <3>1. PICK i \in 1 .. l : x = b[i]
      BY <1>7
    <3>2. CASE i \in 1 .. n
      BY <1>7, <3>1, <3>2
    <3>3. CASE i - n \in 1 .. l - n /\ n + (i - n) = i
      BY <1>7, <3>1, <3>3
    <3> QED
      BY <2>3, <3>2, <3>3
  <2> QED
    BY <1>7, <2>1, <2>2, <2>4
<1>10. elements(sent) \intersect elements(rest) = {}
  <2> SUFFICES ASSUME NEW i \in 1 .. n, NEW j \in 1 .. l - n PROVE b[i] # b[n + j]
    BY <1>7
  <2>1. i \in 1 .. l /\ n + j \in 1 .. l /\ i < n + j
    BY <1>1
  <2>2. b[i] < b[n + j] /\ b[i] \in Nat /\ b[n + j] \in Nat
    BY <1>2, <2>1 DEF increasing
  <2> QED
    BY <2>2
<1> QED
  BY <1>5, <1>6, <1>8, <1>9, <1>10 DEF sent, rest

(* A buffer with a packet that is newer than those in it and on the wire.  *)
LEMMA LongerBuffer ==
  ASSUME NEW b \in Seq(Nat), increasing(b), NEW x \in Nat,
         elements(b) \subseteq 1 .. x - 1
  PROVE  /\ Append(b, x) \in Seq(Nat) /\ Len(Append(b, x)) = Len(b) + 1
         /\ increasing(Append(b, x))
         /\ elements(Append(b, x)) = elements(b) \union {x}
         /\ \A w : below(w, b) /\ (\A i \in 1 .. Len(w) : w[i] \in 1 .. x - 1)
                     => below(w, Append(b, x))
<1> DEFINE c == Append(b, x)
<1>1. /\ c \in Seq(Nat) /\ Len(c) = Len(b) + 1 /\ Len(b) \in Nat
      /\ \A i \in 1 .. Len(b) : c[i] = b[i]
      /\ c[Len(b) + 1] = x
  BY AppendProperties, LenProperties
<1> HIDE DEF c
<1>2. /\ elements(b) = {b[i] : i \in 1 .. Len(b)}
      /\ elements(c) = {c[i] : i \in 1 .. Len(b) + 1}
  BY <1>1, ElementsOf DEF isSeq
<1>3. \A i \in 1 .. Len(b) + 1 : i \in 1 .. Len(b) \/ i = Len(b) + 1
  BY <1>1
<1>4. \A i \in 1 .. Len(b) : i \in 1 .. Len(b) + 1 /\ b[i] \in 1 .. x - 1
  BY <1>1, <1>2
<1>5. increasing(c)
  <2> SUFFICES ASSUME NEW i \in 1 .. Len(b) + 1, NEW j \in 1 .. Len(b) + 1, i < j
               PROVE  c[i] < c[j]
    BY <1>1 DEF increasing
  <2>1. i \in 1 .. Len(b)
    BY <1>1
  <2>2. CASE j \in 1 .. Len(b)
    BY <1>1, <2>1, <2>2 DEF increasing
  <2>3. CASE j = Len(b) + 1
    BY <1>1, <1>4, <2>1, <2>3
  <2> QED
    BY <1>3, <2>2, <2>3
<1>6. elements(c) = elements(b) \union {x}
  <2>1. Len(b) + 1 \in 1 .. Len(b) + 1
    BY <1>1
  <2> QED
    BY <1>1, <1>2, <1>3, <1>4, <2>1
<1>7. ASSUME NEW w, below(w, b), \A i \in 1 .. Len(w) : w[i] \in 1 .. x - 1
      PROVE  below(w, c)
  <2> SUFFICES ASSUME NEW i \in 1 .. Len(w), NEW j \in 1 .. Len(b) + 1
               PROVE  w[i] < c[j]
    BY <1>1 DEF below
  <2>1. CASE j \in 1 .. Len(b)
    BY <1>1, <1>7, <2>1 DEF below
  <2>2. CASE j = Len(b) + 1
    BY <1>1, <1>7, <2>2
  <2> QED
    BY <1>3, <2>1, <2>2
<1> QED
  BY <1>1, <1>5, <1>6, <1>7 DEF c

-----------------------------------------------------------------------------
(* Then the places of the packets.                                         *)

(* The next packet goes into the buffer of port o.                         *)
LEMMA SplitAdd ==
  ASSUME NEW W, NEW B, NEW B2, NEW F, NEW d \in Nat, split(W, B, F, d),
         NEW o \in Ports,
         \A q \in Ports : B2[q] = IF q = o THEN B[q] \union {d + 1} ELSE B[q]
  PROVE  split(W, B2, F, d + 1)
<1>1. /\ 1 .. d \subseteq 1 .. d + 1 /\ d + 1 \in 1 .. d + 1
      /\ d + 1 \notin 1 .. d
      /\ \A p \in 1 .. d + 1 : p \in 1 .. d \/ p = d + 1
  OBVIOUS
<1>2. /\ F \subseteq 1 .. d
      /\ \A q \in Ports : W[q] \subseteq 1 .. d /\ B[q] \subseteq 1 .. d
      /\ \A p \in 1 .. d : p \in F \/ \E q \in Ports : p \in W[q] \/ p \in B[q]
      /\ \A q, r \in Ports : W[q] \intersect B[r] = {}
      /\ \A q, r \in Ports : q # r => /\ W[q] \intersect W[r] = {}
                                      /\ B[q] \intersect B[r] = {}
      /\ \A q \in Ports : F \intersect W[q] = {} /\ F \intersect B[q] = {}
  BY DEF split
<1>3. /\ d + 1 \notin F
      /\ \A q \in Ports : d + 1 \notin W[q] /\ d + 1 \notin B[q]
  BY <1>1, <1>2
<1>4. F \subseteq 1 .. d + 1
  BY <1>1, <1>2
<1>5. \A q \in Ports : W[q] \subseteq 1 .. d + 1 /\ B2[q] \subseteq 1 .. d + 1
  BY <1>1, <1>2, ZenonT(40)
<1>6. \A p \in 1 .. d + 1 : p \in F \/ \E q \in Ports : p \in W[q] \/ p \in B2[q]
  BY <1>1, <1>2
<1>7. \A q, r \in Ports : W[q] \intersect B2[r] = {}
  <2> TAKE q, r \in Ports
  <2>1. B2[r] \subseteq B[r] \union {d + 1}
    OBVIOUS
  <2>2. W[q] \intersect B[r] = {} /\ d + 1 \notin W[q]
    BY <1>2, <1>3
  <2> QED
    BY ONLY <2>1, <2>2
<1>8. \A q, r \in Ports : q # r => /\ W[q] \intersect W[r] = {}
                                   /\ B2[q] \intersect B2[r] = {}
  <2> TAKE q, r \in Ports
  <2> HAVE q # r
  <2>1. W[q] \intersect W[r] = {} /\ B[q] \intersect B[r] = {}
    BY <1>2
  <2>2. d + 1 \notin B[q] /\ d + 1 \notin B[r]
    BY <1>3
  <2>3. \/ B2[q] = B[q] /\ B2[r] \subseteq B[r] \union {d + 1}
        \/ B2[r] = B[r] /\ B2[q] \subseteq B[q] \union {d + 1}
    OBVIOUS
  <2> QED
    BY ONLY <2>1, <2>2, <2>3
<1>9. \A q \in Ports : F \intersect W[q] = {} /\ F \intersect B2[q] = {}
  <2> TAKE q \in Ports
  <2>1. B2[q] \subseteq B[q] \union {d + 1}
    OBVIOUS
  <2>2. F \intersect W[q] = {} /\ F \intersect B[q] = {} /\ d + 1 \notin F
    BY <1>2, <1>3
  <2> QED
    BY ONLY <2>1, <2>2
<1> QED
  BY <1>4, <1>5, <1>6, <1>7, <1>8, <1>9 DEF split

\* Of some buffers, part is sent and the rest is freed.
moved(W, W2, B, B2, F, F2, sent, rest) ==
  /\ \A q \in Ports : /\ sent[q] \intersect rest[q] = {}
                      /\ B[q] = B2[q] \union sent[q] \union rest[q]
                      /\ B2[q] \intersect (sent[q] \union rest[q]) = {}
                      /\ W2[q] = W[q] \union sent[q]
  /\ F2 = F \union UNION {rest[q] : q \in Ports}

(* A burst leaves every packet in one place.                               *)
LEMMA SplitSend ==
  ASSUME NEW W, NEW W2, NEW B, NEW B2, NEW F, NEW F2, NEW d \in Nat,
         split(W, B, F, d),
         NEW sent, NEW rest, moved(W, W2, B, B2, F, F2, sent, rest)
  PROVE  split(W2, B2, F2, d)
<1> USE DEF moved
<1>1. /\ F \subseteq 1 .. d
      /\ \A q \in Ports : W[q] \subseteq 1 .. d /\ B[q] \subseteq 1 .. d
      /\ \A p \in 1 .. d : p \in F \/ \E q \in Ports : p \in W[q] \/ p \in B[q]
      /\ \A q, r \in Ports : W[q] \intersect B[r] = {}
      /\ \A q, r \in Ports : q # r => /\ W[q] \intersect W[r] = {}
                                      /\ B[q] \intersect B[r] = {}
      /\ \A q \in Ports : F \intersect W[q] = {} /\ F \intersect B[q] = {}
  BY DEF split
<1>2. F2 \subseteq 1 .. d
  <2>1. \A q \in Ports : rest[q] \subseteq 1 .. d
    <3> TAKE q \in Ports
    <3>1. rest[q] \subseteq B[q] /\ B[q] \subseteq 1 .. d
      BY <1>1
    <3> QED
      BY ONLY <3>1
  <2>2. F \subseteq 1 .. d /\ F2 = F \union UNION {rest[q] : q \in Ports}
    BY <1>1
  <2> QED
    BY ONLY <2>1, <2>2
<1>3. \A q \in Ports : W2[q] \subseteq 1 .. d /\ B2[q] \subseteq 1 .. d
  BY <1>1
<1>4. \A p \in 1 .. d : p \in F2 \/ \E q \in Ports : p \in W2[q] \/ p \in B2[q]
  <2> SUFFICES ASSUME NEW p \in 1 .. d, p \notin F2
               PROVE  \E q \in Ports : p \in W2[q] \/ p \in B2[q]
    OBVIOUS
  <2>1. PICK q \in Ports : p \in W[q] \/ p \in B[q]
    BY <1>1
  <2>2. p \notin rest[q]
    OBVIOUS
  <2> QED
    BY <2>1, <2>2
<1>5. \A q, r \in Ports : W2[q] \intersect B2[r] = {}
  <2> SUFFICES ASSUME NEW q \in Ports, NEW r \in Ports, NEW p,
                      p \in W2[q], p \in B2[r]
               PROVE  FALSE
    OBVIOUS
  <2>1. p \in B[r] /\ (p \in W[q] \/ p \in sent[q])
    OBVIOUS
  <2>2. p \in sent[q] /\ p \in B[q]
    BY <1>1, <2>1
  <2>3. q = r
    BY <1>1, <2>1, <2>2
  <2> QED
    BY <2>2, <2>3
<1>6. \A q, r \in Ports : q # r => /\ W2[q] \intersect W2[r] = {}
                                   /\ B2[q] \intersect B2[r] = {}
  <2> SUFFICES ASSUME NEW q \in Ports, NEW r \in Ports, q # r
               PROVE  /\ W2[q] \intersect W2[r] = {}
                      /\ B2[q] \intersect B2[r] = {}
    OBVIOUS
  <2>1. /\ W[q] \intersect W[r] = {} /\ B[q] \intersect B[r] = {}
        /\ W[q] \intersect B[r] = {} /\ W[r] \intersect B[q] = {}
    BY <1>1
  <2>2. /\ sent[q] \subseteq B[q] /\ sent[r] \subseteq B[r]
        /\ B2[q] \subseteq B[q] /\ B2[r] \subseteq B[r]
    OBVIOUS
  <2>3. W2[q] = W[q] \union sent[q] /\ W2[r] = W[r] \union sent[r]
    OBVIOUS
  <2> QED
    BY ONLY <2>1, <2>2, <2>3
<1>7. \A q \in Ports : F2 \intersect W2[q] = {} /\ F2 \intersect B2[q] = {}
  <2> SUFFICES ASSUME NEW q \in Ports, NEW p, p \in F2,
                      p \in W2[q] \/ p \in B2[q]
               PROVE  FALSE
    OBVIOUS
  <2>1. p \in W[q] \/ p \in B[q]
    OBVIOUS
  <2>2. PICK r \in Ports : p \in rest[r]
    BY <1>1, <2>1
  <2>3. p \in B[r]
    BY <2>2
  <2>4. r = q /\ p \in B[q] /\ p \notin W[q]
    BY <1>1, <2>1, <2>3
  <2> QED
    BY <2>2, <2>4
<1> QED
  BY <1>2, <1>3, <1>4, <1>5, <1>6, <1>7 DEF split

(* send_burst, for bursts that may follow what is on the wire.             *)
LEMMA BurstSent ==
  ASSUME wire \in [Ports -> Seq(Nat)], NEW bursts \in [Ports -> Seq(Nat)],
         \A q \in Ports : /\ increasing(wire[q]) /\ increasing(bursts[q])
                          /\ below(wire[q], bursts[q]),
         NEW n \in accepted(bursts), send_burst(bursts, n)
  PROVE  LET sent == [q \in Ports |-> elements(SubSeq(bursts[q], 1, n[q]))]
             rest == [q \in Ports |->
                        elements(SubSeq(bursts[q], n[q] + 1, Len(bursts[q])))]
         IN  /\ wire' \in [Ports -> Seq(Nat)]
             /\ \A q \in Ports :
                  /\ increasing(wire'[q])
                  /\ elements(wire'[q]) = elements(wire[q]) \union sent[q]
                  /\ sent[q] \union rest[q] = elements(bursts[q])
                  /\ sent[q] \intersect rest[q] = {}
             /\ freed' = freed \union UNION {rest[q] : q \in Ports}
<1>1. wire' = [q \in Ports |-> wire[q] \o SubSeq(bursts[q], 1, n[q])]
  BY DEF send_burst
<1>2. ASSUME NEW q \in Ports
      PROVE  LET sent == SubSeq(bursts[q], 1, n[q])
                 rest == SubSeq(bursts[q], n[q] + 1, Len(bursts[q]))
             IN  /\ wire'[q] \in Seq(Nat) /\ increasing(wire'[q])
                 /\ elements(wire'[q]) = elements(wire[q]) \union elements(sent)
                 /\ elements(sent) \union elements(rest) = elements(bursts[q])
                 /\ elements(sent) \intersect elements(rest) = {}
  <2>1. wire[q] \in Seq(Nat) /\ bursts[q] \in Seq(Nat)
    OBVIOUS
  <2>2. n[q] \in 0 .. Len(bursts[q])
    BY <2>1, LenProperties, DataPlaneAssumption DEF accepted
  <2>3. wire'[q] = wire[q] \o SubSeq(bursts[q], 1, n[q])
    BY <1>1
  <2> QED
    BY <2>1, <2>2, <2>3, CutBurst
<1>3. wire' \in [Ports -> Seq(Nat)]
  BY <1>1, <1>2
<1>4. freed' = freed \union
        UNION {elements(SubSeq(bursts[q], n[q] + 1, Len(bursts[q]))) : q \in Ports}
  BY DEF send_burst
<1> QED
  BY <1>2, <1>3, <1>4

-----------------------------------------------------------------------------
(* The steps of transmission.                                              *)

(* The numbers of the packets, at any stage of a batch.                    *)
LEMMA Counts ==
  ASSUME Control, Records, Descriptors
  PROVE  /\ Len(received) \in Nat /\ batch_size \in Nat /\ next \in Nat
         /\ batch_size <= Len(received) /\ next >= 1 /\ next <= batch_size + 1
         /\ done \in Nat /\ done <= Len(received)
<1>1. Len(received) \in Nat /\ batch_size \in Nat /\ next \in Nat
      /\ next >= 1 /\ next <= batch_size + 1
  BY LenProperties, DataPlaneAssumption DEF Records, Control
<1>2. batch_size <= Len(received)
  BY DEF Descriptors
<1> QED
  BY <1>1, <1>2 DEF done

(* What is on a wire and in a buffer, by index.                            *)
LEMMA Elements ==
  ASSUME Buffers, NEW q \in Ports
  PROVE  /\ elements(wire[q]) = {wire[q][i] : i \in 1 .. Len(wire[q])}
         /\ elements(tx_mbufs[q]) = {tx_mbufs[q][i] : i \in 1 .. Len(tx_mbufs[q])}
<1>1. wire[q] \in Seq(Nat) /\ tx_mbufs[q] \in Seq(Nat)
  BY DEF Buffers
<1> QED
  BY <1>1, ElementsOf DEF isSeq

(* Steps that hand no packet on.                                           *)
LEMMA TxUnchanged ==
  ASSUME Buffers, Handed, UNCHANGED txvars, done' = done
  PROVE  Buffers' /\ Handed'
<1>1. onWire' = onWire /\ inBuffer' = inBuffer
  BY DEF onWire, inBuffer, txvars
<1> QED
  BY <1>1 DEF Buffers, Handed, txvars

(* tx_drain empties all the buffers at once.                               *)
LEMMA DrainStep ==
  ASSUME Inv, tx_drain
  PROVE  Buffers' /\ Handed'
<1>0. Control /\ Records /\ Descriptors /\ Buffers /\ Handed
  BY DEF Inv
<1>1. PICK n \in accepted(tx_mbufs) : send_burst(tx_mbufs, n)
  BY DEF tx_drain
<1>2. tx_mbufs' = [p \in Ports |-> <<>>] /\ UNCHANGED <<received, batch_size, next>>
  BY DEF tx_drain, batchvars, pktvars
<1>3. done' = done /\ done \in Nat
  BY <1>0, <1>2, Counts DEF done
<1> DEFINE sent == [q \in Ports |-> elements(SubSeq(tx_mbufs[q], 1, n[q]))]
           rest == [q \in Ports |->
                      elements(SubSeq(tx_mbufs[q], n[q] + 1, Len(tx_mbufs[q])))]
<1>4. /\ wire' \in [Ports -> Seq(Nat)]
      /\ \A q \in Ports :
           /\ increasing(wire'[q])
           /\ elements(wire'[q]) = elements(wire[q]) \union sent[q]
           /\ sent[q] \union rest[q] = elements(tx_mbufs[q])
           /\ sent[q] \intersect rest[q] = {}
      /\ freed' = freed \union UNION {rest[q] : q \in Ports}
  <2>1. tx_mbufs \in [Ports -> Seq(Nat)] /\ wire \in [Ports -> Seq(Nat)]
    BY <1>0 DEF Buffers
  <2>2. \A q \in Ports : /\ increasing(wire[q]) /\ increasing(tx_mbufs[q])
                         /\ below(wire[q], tx_mbufs[q])
    BY <1>0 DEF Handed
  <2> QED
    BY ZenonT(60), <1>1, <2>1, <2>2, BurstSent
<1> HIDE DEF sent, rest
<1>5. \A q \in Ports : /\ tx_mbufs'[q] = <<>>
                       /\ tx_mbufs'[q] \in Seq(Nat) /\ Len(tx_mbufs'[q]) = 0
                       /\ elements(tx_mbufs'[q]) = {}
  BY <1>2, EmptyNat
<1>6. tx_mbufs' \in [Ports -> Seq(Nat)]
  BY <1>2, <1>5
<1>7. Buffers'
  BY <1>4, <1>5, <1>6, DataPlaneAssumption DEF Buffers
<1>8. \A q \in Ports : /\ sent[q] \intersect rest[q] = {}
                       /\ inBuffer[q] = inBuffer'[q] \union sent[q] \union rest[q]
                       /\ inBuffer'[q] \intersect (sent[q] \union rest[q]) = {}
                       /\ onWire'[q] = onWire[q] \union sent[q]
  <2> TAKE q \in Ports
  <2>1. /\ inBuffer'[q] = {} /\ inBuffer[q] = elements(tx_mbufs[q])
        /\ onWire'[q] = elements(wire'[q]) /\ onWire[q] = elements(wire[q])
    BY <1>5 DEF inBuffer, onWire
  <2> QED
    BY <1>4, <2>1
<1>9. split(onWire', inBuffer', freed', done')
  <2>1. split(onWire, inBuffer, freed, done)
    BY <1>0 DEF Handed
  <2>2. moved(onWire, onWire', inBuffer, inBuffer', freed, freed', sent, rest)
    BY <1>4, <1>8 DEF moved
  <2> QED
    BY <2>1, <2>2, <1>3, SplitSend
<1>10. \A q \in Ports : /\ increasing(wire'[q]) /\ increasing(tx_mbufs'[q])
                        /\ below(wire'[q], tx_mbufs'[q])
  BY <1>4, <1>5, EmptyNat
<1> QED
  BY <1>7, <1>9, <1>10 DEF Handed

(* The buffer of outport with the packet that is next.                     *)
LEMMA Longer ==
  ASSUME Inv, pc = "send", next <= batch_size
  PROVE  LET o == outport
             b == tx_mbufs[o]
         IN  /\ o \in Ports
             /\ longer = Append(b, done + 1)
             /\ longer \in Seq(Nat) /\ Len(longer) = Len(b) + 1
             /\ increasing(longer)
             /\ elements(longer) = elements(b) \union {done + 1}
             /\ below(wire[o], longer)
<1> DEFINE o == outport
           b == tx_mbufs[o]
<1>0. Control /\ Records /\ Descriptors /\ Buffers /\ Handed
  BY DEF Inv
<1>1. o \in Ports
  <2>1. queue \in 1 .. Len(RxQueues)
    BY <1>0, RxLen DEF Control, BatchStages
  <2>2. RxQueues[queue] \in Ports
    BY <2>1, DataPlaneAssumption, ElementOfSeq
  <2> QED
    BY <2>2, DataPlaneAssumption DEF outport
<1>2. longer = Append(b, done + 1)
  <2>1. next \in Batch
    BY <1>0, Counts DEF Batch
  <2>2. pd[next].wrapper = done + 1
    BY <1>0, <2>1, Counts DEF Descriptors, done
  <2> QED
    BY <2>2 DEF longer
<1>3. b \in Seq(Nat) /\ increasing(b) /\ below(wire[o], b)
  BY <1>0, <1>1 DEF Buffers, Handed
<1>4. done + 1 \in Nat /\ (done + 1) - 1 = done
  BY <1>0, Counts
<1>5. elements(b) \subseteq 1 .. done /\ elements(wire[o]) \subseteq 1 .. done
  BY <1>0, <1>1 DEF Handed, split, onWire, inBuffer
<1>6. \A i \in 1 .. Len(wire[o]) : wire[o][i] \in 1 .. done
  BY <1>0, <1>1, <1>5, Elements
<1> HIDE DEF b, o
<1>7. /\ Append(b, done + 1) \in Seq(Nat) /\ Len(Append(b, done + 1)) = Len(b) + 1
      /\ increasing(Append(b, done + 1))
      /\ elements(Append(b, done + 1)) = elements(b) \union {done + 1}
      /\ below(wire[o], Append(b, done + 1))
  BY <1>3, <1>4, <1>5, <1>6, LongerBuffer
<1> QED
  BY <1>1, <1>2, <1>7 DEF b, o

(* buffer_packet.                                                          *)
LEMMA BufferStep ==
  ASSUME Inv, buffer_packet
  PROVE  Buffers' /\ Handed'
<1> DEFINE o == outport
<1>0. Control /\ Records /\ Descriptors /\ Buffers /\ Handed
  BY DEF Inv
<1>1. /\ pc = "send" /\ next <= batch_size /\ Len(longer) < MAX_PKT_BURST
      /\ tx_mbufs' = [tx_mbufs EXCEPT ![o] = longer]
      /\ next' = next + 1
      /\ UNCHANGED <<wire, freed, received, batch_size>>
  BY DEF buffer_packet, pktvars
<1>2. /\ o \in Ports /\ longer \in Seq(Nat) /\ increasing(longer)
      /\ elements(longer) = elements(tx_mbufs[o]) \union {done + 1}
      /\ below(wire[o], longer)
  BY <1>1, Longer
<1>3. done' = done + 1 /\ done \in Nat
  BY <1>0, <1>1, Counts DEF done
<1> HIDE DEF o
<1>4. tx_mbufs' \in [Ports -> Seq(Nat)]
      /\ \A q \in Ports : tx_mbufs'[q] = IF q = o THEN longer ELSE tx_mbufs[q]
  BY <1>0, <1>1, <1>2 DEF Buffers
<1>5. Buffers'
  BY <1>0, <1>1, <1>4 DEF Buffers
<1>6. \A q \in Ports : inBuffer'[q] = IF q = o THEN inBuffer[q] \union {done + 1}
                                      ELSE inBuffer[q]
  BY <1>2, <1>4 DEF inBuffer
<1>7. split(onWire', inBuffer', freed', done')
  <2>1. split(onWire, inBuffer, freed, done)
    BY <1>0 DEF Handed
  <2>2. onWire' = onWire /\ freed' = freed
    BY <1>1 DEF onWire
  <2> QED
    BY <1>2, <1>3, <1>6, <2>1, <2>2, SplitAdd
<1>8. \A q \in Ports : /\ increasing(wire'[q]) /\ increasing(tx_mbufs'[q])
                       /\ below(wire'[q], tx_mbufs'[q])
  BY <1>0, <1>1, <1>2, <1>4 DEF Handed
<1> QED
  BY <1>5, <1>7, <1>8 DEF Handed

(* buffer_full: the packet joins the buffer, then the buffer is sent.      *)
LEMMA FullStep ==
  ASSUME Inv, buffer_full
  PROVE  Buffers' /\ Handed'
<1> DEFINE o == outport
           bursts == [p \in Ports |-> IF p = o THEN longer ELSE <<>>]
<1>0. Control /\ Records /\ Descriptors /\ Buffers /\ Handed
  BY DEF Inv
<1>1. /\ pc = "send" /\ next <= batch_size
      /\ tx_mbufs' = [tx_mbufs EXCEPT ![o] = <<>>]
      /\ next' = next + 1
      /\ UNCHANGED <<received, batch_size>>
  BY DEF buffer_full, pktvars
<1>2. PICK n \in accepted(bursts) : send_burst(bursts, n)
  BY DEF buffer_full
<1>3. /\ o \in Ports /\ longer \in Seq(Nat) /\ increasing(longer)
      /\ elements(longer) = elements(tx_mbufs[o]) \union {done + 1}
      /\ below(wire[o], longer)
  BY <1>1, Longer
<1>4. done' = done + 1 /\ done \in Nat
  BY <1>0, <1>1, Counts DEF done
<1> HIDE DEF o
<1>5. /\ bursts \in [Ports -> Seq(Nat)]
      /\ \A q \in Ports : bursts[q] = IF q = o THEN longer ELSE <<>>
  BY <1>3, EmptyNat
<1> HIDE DEF bursts
<1> DEFINE sent == [q \in Ports |-> elements(SubSeq(bursts[q], 1, n[q]))]
           rest == [q \in Ports |->
                      elements(SubSeq(bursts[q], n[q] + 1, Len(bursts[q])))]
<1>6. /\ wire' \in [Ports -> Seq(Nat)]
      /\ \A q \in Ports :
           /\ increasing(wire'[q])
           /\ elements(wire'[q]) = elements(wire[q]) \union sent[q]
           /\ sent[q] \union rest[q] = elements(bursts[q])
           /\ sent[q] \intersect rest[q] = {}
      /\ freed' = freed \union UNION {rest[q] : q \in Ports}
  <2>1. wire \in [Ports -> Seq(Nat)]
    BY <1>0 DEF Buffers
  <2>2. \A q \in Ports : /\ increasing(wire[q]) /\ increasing(bursts[q])
                         /\ below(wire[q], bursts[q])
    BY <1>0, <1>3, <1>5, EmptyNat DEF Handed
  <2>3. bursts \in [Ports -> Seq(Nat)]
    BY <1>5
  <2> QED
    BY ZenonT(60), <1>2, <2>1, <2>2, <2>3, BurstSent
<1> HIDE DEF sent, rest
<1>7. tx_mbufs' \in [Ports -> Seq(Nat)]
      /\ \A q \in Ports : tx_mbufs'[q] = IF q = o THEN <<>> ELSE tx_mbufs[q]
  BY <1>0, <1>1, <1>3, EmptyNat DEF Buffers
<1>8. Buffers'
  BY <1>0, <1>6, <1>7, EmptyNat, DataPlaneAssumption DEF Buffers
<1> DEFINE mid == [q \in Ports |-> IF q = o THEN elements(longer)
                                  ELSE inBuffer[q]]
<1>9. split(onWire, mid, freed, done + 1)
  <2>1. split(onWire, inBuffer, freed, done)
    BY <1>0 DEF Handed
  <2>2. \A q \in Ports : mid[q] = IF q = o THEN inBuffer[q] \union {done + 1}
                                  ELSE inBuffer[q]
    BY <1>3 DEF inBuffer
  <2> HIDE DEF mid
  <2> QED
    BY <1>3, <1>4, <2>1, <2>2, SplitAdd
<1>10. \A q \in Ports : /\ sent[q] \intersect rest[q] = {}
                        /\ mid[q] = inBuffer'[q] \union sent[q] \union rest[q]
                        /\ inBuffer'[q] \intersect (sent[q] \union rest[q]) = {}
                        /\ onWire'[q] = onWire[q] \union sent[q]
  <2> TAKE q \in Ports
  <2>1. onWire'[q] = elements(wire'[q]) /\ onWire[q] = elements(wire[q])
    BY DEF onWire
  <2>2. CASE q = o
    <3>1. inBuffer'[q] = {} /\ mid[q] = elements(bursts[q])
      BY <1>5, <1>7, <2>2, EmptyNat DEF inBuffer
    <3> QED
      BY <1>6, <2>1, <3>1
  <2>3. CASE q # o
    <3>1. inBuffer'[q] = inBuffer[q] /\ mid[q] = inBuffer[q]
          /\ elements(bursts[q]) = {}
      BY <1>5, <1>7, <2>3, EmptyNat DEF inBuffer
    <3> QED
      BY <1>6, <2>1, <3>1
  <2> QED
    BY <2>2, <2>3
<1>11. split(onWire', inBuffer', freed', done')
  <2> HIDE DEF mid
  <2>1. moved(onWire, onWire', mid, inBuffer', freed, freed', sent, rest)
    BY <1>6, <1>10 DEF moved
  <2> QED
    BY <1>4, <1>9, <2>1, SplitSend
<1>12. \A q \in Ports : /\ increasing(wire'[q]) /\ increasing(tx_mbufs'[q])
                        /\ below(wire'[q], tx_mbufs'[q])
  <2> TAKE q \in Ports
  <2>1. CASE q = o
    BY <1>6, <1>7, <2>1, EmptyNat
  <2>2. CASE q # o
    <3>1. bursts[q] = <<>> /\ tx_mbufs'[q] = tx_mbufs[q]
      BY <1>5, <1>7, <2>2
    <3>2. wire'[q] = wire[q]
      <4>1. wire'[q] = wire[q] \o SubSeq(bursts[q], 1, n[q])
        BY <1>2 DEF send_burst
      <4>2. n[q] = 0
        BY <1>2, <3>1, EmptyNat, DataPlaneAssumption DEF accepted
      <4>3. SubSeq(bursts[q], 1, n[q]) = <<>>
        BY <4>2, SubSeqEmpty
      <4>4. wire[q] \in Seq(Nat)
        BY <1>0 DEF Buffers
      <4> QED
        BY <4>1, <4>3, <4>4, ConcatEmptySeq
    <3> QED
      BY <1>0, <3>1, <3>2 DEF Handed
  <2> QED
    BY <2>1, <2>2
<1> QED
  BY <1>8, <1>11, <1>12 DEF Handed

(* Every step leaves each packet that was handed on in one place, and the  *)
(* order of each port.                                                     *)
LEMMA HandedStep ==
  ASSUME Inv, [Next]_vars
  PROVE  Buffers' /\ Handed'
<1>0. Control /\ Records /\ Descriptors /\ Buffers /\ Handed
  BY DEF Inv
<1>1. CASE tx_drain
  BY <1>1, DrainStep
<1>2. CASE buffer_packet
  BY <1>2, BufferStep
<1>3. CASE buffer_full
  BY <1>3, FullStep
<1>4. CASE rx_burst
  <2>1. PICK n \in 1 .. MAX_PKT_BURST :
          \E frames \in [1 .. n -> Frames] : packets_received(frames)
    BY <1>4 DEF rx_burst
  <2>2. PICK frames \in [1 .. n -> Frames] : packets_received(frames)
    BY <2>1
  <2>3. batch_size' = n /\ Len(received') = Len(received) + n
    BY <1>0, <2>2, Received
  <2>4. UNCHANGED txvars /\ next' = next /\ batch_size = 0
    BY <1>0, <1>4 DEF rx_burst, Control
  <2>5. done' = done
    BY <1>0, <2>3, <2>4, Counts DEF done
  <2> QED
    BY <1>0, <2>4, <2>5, TxUnchanged
<1>5. CASE send_packets_returns
  <2>1. /\ next > batch_size /\ batch_size' = 0 /\ next' = 1
        /\ UNCHANGED txvars /\ received' = received
    BY <1>5 DEF send_packets_returns, pktvars
  <2>2. done' = done
    BY <1>0, <2>1, Counts DEF done
  <2> QED
    BY <1>0, <2>1, <2>2, TxUnchanged
<1>6. CASE UNCHANGED <<txvars, received, batch_size, next>>
  BY <1>0, <1>6, TxUnchanged DEF done
<1>7. CASE no_drain \/ rx_done \/ nothing_received \/ tick
  BY <1>6, <1>7
  DEF no_drain, rx_done, nothing_received, tick, batchvars, pktvars
<1>8. CASE apply_table_routable \/ apply_table_routing
  BY <1>6, <1>8 DEF apply_table_routable, apply_table_routing, pktvars
<1>9. CASE apply_table_switching \/ update_packet
  <2>1. pc \in {"switching", "update"} /\ next' \in {next, 1}
        /\ UNCHANGED <<txvars, received, batch_size>>
    BY <1>9 DEF apply_table_switching, update_packet, pktvars
  <2>2. next = 1
    BY <1>0, <2>1 DEF Control
  <2> QED
    BY <1>6, <2>1, <2>2
<1>10. CASE change_table
  BY <1>6, <1>10 DEF change_table, batchvars, pktvars
<1>11. CASE UNCHANGED vars
  BY <1>6, <1>11 DEF vars, batchvars, pktvars
<1> QED
  BY <1>1, <1>2, <1>3, <1>4, <1>5, <1>7, <1>8, <1>9, <1>10, <1>11
  DEF Next, MainLoop

-----------------------------------------------------------------------------

(* The invariant holds of the first state ...                              *)
LEMMA InvInit == Init => Inv
<1> SUFFICES ASSUME Init PROVE Inv
  OBVIOUS
<1> USE DataPlaneAssumption
<1>1. Control
  <2>1. elapsed \in BOOLEAN
    BY DEF Init
  <2>2. /\ pc = "drain" /\ queue = 1 /\ batch_size = 0 /\ next = 1
        /\ diversionQ = {}
    BY DEF Init
  <2> QED
    BY <2>1, <2>2, RxLen DEF Control, Stages, BatchStages
<1>2. Records
  <2>1. isSeq(tables) /\ Len(tables) = 1
    <3>1. tables = <<InitTables>> /\ <<InitTables>> \in Seq({InitTables})
      BY DEF Init
    <3> QED
      BY <3>1 DEF isSeq
  <2>2. /\ isSeq(handled) /\ Len(handled) = 0
        /\ isSeq(mbuf) /\ Len(mbuf) = 0
        /\ received \in Seq(Frames) /\ Len(received) = 0
        /\ seen \in Seq(Nat \X Nat) /\ Len(seen) = 0
    BY EmptySeq DEF Init, isSeq
  <2> QED
    BY <2>1, <2>2 DEF Records, Pkts
<1>3. Descriptors
  <2>1. batch_size = 0 /\ Len(received) = 0
    BY EmptySeq DEF Init
  <2>2. ASSUME NEW i \in Slots
        PROVE  /\ DOMAIN pd[i] = Fields
               /\ pd[i].wrapper = 0 /\ pd[i].ttl = 0 /\ pd[i].dropped = 0
               /\ pd[i].modified \in BOOLEAN
    <3>1. pd[i] = [wrapper |-> 0, ttl |-> 0, modified |-> FALSE,
                   egress_spec |-> 0, mcast_grp |-> 0, dropped |-> 0]
      BY DEF Init
    <3>2. pd[i].modified \in BOOLEAN
      BY <3>1
    <3> QED
      BY <3>1, <3>2 DEF Fields
  <2> QED
    BY <2>1, <2>2 DEF Descriptors, Batch
<1>4. Buffers
  BY EmptyNat DEF Init, Buffers
<1>5. Handed
  <2>1. done = 0
    BY EmptySeq DEF Init, done
  <2>2. \A q \in Ports : /\ wire[q] = <<>> /\ tx_mbufs[q] = <<>>
                         /\ onWire[q] = {} /\ inBuffer[q] = {}
    BY EmptyNat DEF Init, onWire, inBuffer
  <2>3. freed = {} /\ 1 .. 0 = {}
    BY DEF Init
  <2>4. split(onWire, inBuffer, freed, done)
    BY <2>1, <2>2, <2>3 DEF split
  <2> QED
    BY <2>2, <2>4, EmptyNat DEF Handed
<1>6. Treating
  <2>1. Batch = {} /\ Pkts = {}
    BY EmptySeq DEF Init, Batch, Pkts
  <2> QED
    BY <2>1 DEF Treating, TreatedByOwnEntries
<1> QED
  BY <1>1, <1>2, <1>3, <1>4, <1>5, <1>6 DEF Inv

(* ... and of every state.                                                 *)
THEOREM InvCorrect == Spec => []Inv
<1>1. Init => Inv
  BY InvInit
<1>2. Inv /\ [Next]_vars => Inv'
  BY ControlStep, RecordsStep, DescriptorsStep, HandedStep, TreatingStep
  DEF Inv
<1> QED
  BY <1>1, <1>2, PTL DEF Spec

(* The invariant implies the types.                                        *)
LEMMA InvTypeOK ==
  ASSUME Inv
  PROVE  TypeOK
<1>0. Control /\ Records /\ Descriptors /\ Buffers /\ Handed
  BY DEF Inv
<1>1. Len(tables) \in 1 .. MaxChanges + 1
  <2>1. Len(handled) \in Nat /\ MaxChanges \in Nat
    BY <1>0, SeqOfAny, DataPlaneAssumption DEF Records
  <2> QED
    BY <1>0, <2>1 DEF Records
<1>2. 1 .. done \subseteq Pkts
  BY <1>0, Counts DEF Pkts
<1>3. freed \subseteq Pkts
  BY <1>0, <1>2 DEF Handed, split
<1>4. \A p \in Ports : elements(tx_mbufs[p]) \union elements(wire[p]) \subseteq Pkts
  <2> TAKE p \in Ports
  <2>1. onWire[p] \subseteq 1 .. done /\ inBuffer[p] \subseteq 1 .. done
    BY <1>0 DEF Handed, split
  <2>2. onWire[p] = elements(wire[p]) /\ inBuffer[p] = elements(tx_mbufs[p])
    BY DEF onWire, inBuffer
  <2> QED
    BY <1>2, <2>1, <2>2
<1> QED
  BY <1>0, <1>1, <1>3, <1>4
  DEF TypeOK, Control, Records, Descriptors, Buffers

(* The types, and that a transmit buffer has room between two steps.       *)
THEOREM TypeCorrect == Spec => []TypeOK
<1>1. Inv => TypeOK
  BY InvTypeOK
<1> QED
  BY <1>1, InvCorrect, PTL

(* Every packet is treated by the entries for its own keys that were in    *)
(* the tables during its batch, whenever the control plane changes them,   *)
(* and whatever the descriptors hold of packets before.                    *)
THEOREM Treated == Spec => []TreatedByOwnEntries
<1>1. Inv => TreatedByOwnEntries
  BY DEF Inv, Treating
<1> QED
  BY <1>1, InvCorrect, PTL

(* The packets of a port are sent in the order of their arrival, whatever  *)
(* part of the bursts the NIC takes.                                       *)
THEOREM InOrder == Spec => []SentInOrder
<1>1. Inv => SentInOrder
  <2> SUFFICES ASSUME Inv, NEW q \in Ports
               PROVE  LET s == wire[q] \o tx_mbufs[q]
                      IN  \A j \in 1 .. Len(s) - 1 : s[j] < s[j + 1]
    BY DEF SentInOrder
  <2> DEFINE w == wire[q]
             b == tx_mbufs[q]
             s == w \o b
  <2>1. /\ w \in Seq(Nat) /\ b \in Seq(Nat)
        /\ increasing(w) /\ increasing(b) /\ below(w, b)
    BY DEF Inv, Buffers, Handed
  <2> HIDE DEF w, b
  <2>2. Len(w) \in Nat /\ Len(b) \in Nat /\ Len(s) = Len(w) + Len(b)
        /\ \A i \in 1 .. Len(w) + Len(b) :
             s[i] = IF i <= Len(w) THEN w[i] ELSE b[i - Len(w)]
    BY <2>1, LenProperties, ConcatProperties
  <2> HIDE DEF s
  <2>3. ASSUME NEW j \in 1 .. Len(s) - 1
        PROVE  s[j] < s[j + 1]
    <3>1. j \in 1 .. Len(w) + Len(b) /\ j + 1 \in 1 .. Len(w) + Len(b)
      BY <2>2
    <3>2. CASE j + 1 <= Len(w)
      <4>1. j \in 1 .. Len(w) /\ j + 1 \in 1 .. Len(w) /\ j < j + 1
        BY <2>2, <3>1, <3>2
      <4>2. s[j] = w[j] /\ s[j + 1] = w[j + 1]
        BY <2>2, <3>1, <4>1
      <4> QED
        BY <2>1, <4>1, <4>2 DEF increasing
    <3>3. CASE j = Len(w)
      <4>1. /\ j \in 1 .. Len(w) /\ 1 \in 1 .. Len(b)
            /\ s[j] = w[j] /\ s[j + 1] = b[1]
        BY <2>2, <3>1, <3>3
      <4> QED
        BY <2>1, <4>1 DEF below
    <3>4. CASE j > Len(w)
      <4>1. /\ j - Len(w) \in 1 .. Len(b) /\ (j + 1) - Len(w) \in 1 .. Len(b)
            /\ j - Len(w) < (j + 1) - Len(w)
            /\ s[j] = b[j - Len(w)] /\ s[j + 1] = b[(j + 1) - Len(w)]
        BY <2>2, <3>1, <3>4
      <4> QED
        BY <2>1, <4>1 DEF increasing
    <3> QED
      BY <2>2, <3>1, <3>2, <3>3, <3>4
  <2> QED
    BY <2>3 DEF s, w, b
<1> QED
  BY <1>1, InvCorrect, PTL

-----------------------------------------------------------------------------
(* Exactly one place.                                                      *)

(* A packet that is not in a sequence has no position in it ...            *)
LEMMA NoPosition ==
  ASSUME NEW s \in Seq(Nat), NEW p, p \notin elements(s)
  PROVE  positions(s, p) = {}
  BY DEF positions, elements

(* ... and one that is has one position, when the sequence increases.      *)
LEMMA OnePosition ==
  ASSUME NEW s \in Seq(Nat), increasing(s), NEW p, p \in elements(s)
  PROVE  \E j : positions(s, p) = {j}
<1>1. DOMAIN s = 1 .. Len(s) /\ Len(s) \in Nat /\ \A i \in 1 .. Len(s) : s[i] \in Nat
  BY LenProperties, ElementOfSeq
<1>2. PICK j \in 1 .. Len(s) : s[j] = p
  BY <1>1 DEF elements
<1>3. \A i \in 1 .. Len(s) : s[i] = p => i = j
  <2> SUFFICES ASSUME NEW i \in 1 .. Len(s), s[i] = p, i # j PROVE FALSE
    OBVIOUS
  <2>1. i < j \/ j < i
    BY <1>1
  <2>2. s[i] < s[j] \/ s[j] < s[i]
    BY <2>1 DEF increasing
  <2> QED
    BY <1>1, <1>2, <2>2
<1>4. positions(s, p) = {j}
  BY <1>1, <1>2, <1>3 DEF positions
<1> QED
  BY <1>4

\* places(p), by kind.
batch_places(p) ==
  {<<"batch", 0, i>> : i \in {j \in next .. batch_size : pd[j].wrapper = p}}
port_places(q, p) == {<<"buffer", q, j>> : j \in positions(tx_mbufs[q], p)}
                       \union {<<"wire", q, j>> : j \in positions(wire[q], p)}
freed_places(p) == {<<"freed", 0, j>> : j \in freed \intersect {p}}

(* A packet that was not yet handed on is in the batch ...                 *)
LEMMA InBatch ==
  ASSUME Control, Records, Descriptors, NEW p \in Pkts
  PROVE  IF p \in 1 .. done THEN batch_places(p) = {}
         ELSE \E x : batch_places(p) = {x}
<1> DEFINE k == p - (Len(received) - batch_size)
<1>1. /\ Len(received) \in Nat /\ batch_size \in Nat /\ next \in Nat
      /\ batch_size <= Len(received) /\ next >= 1 /\ p \in 1 .. Len(received)
      /\ done = Len(received) - batch_size + next - 1
  BY Counts DEF Pkts, done
<1>2. \A j \in next .. batch_size : pd[j].wrapper = Len(received) - batch_size + j
  BY <1>1 DEF Descriptors, Batch
<1>3. CASE p \in 1 .. done
  <2>1. \A j \in next .. batch_size : pd[j].wrapper # p
    BY <1>1, <1>2, <1>3
  <2> QED
    BY <1>3, <2>1 DEF batch_places
<1>4. CASE p \notin 1 .. done
  <2>1. k \in next .. batch_size
    BY <1>1, <1>4
  <2>2. ASSUME NEW j \in next .. batch_size
        PROVE  pd[j].wrapper = p <=> j = k
    <3>1. pd[j].wrapper = Len(received) - batch_size + j
      BY <1>2
    <3>2. j \in Nat
      BY <1>1
    <3> QED
      BY <1>1, <3>1, <3>2
  <2>3. batch_places(p) = {<<"batch", 0, k>>}
    BY <2>1, <2>2 DEF batch_places
  <2> QED
    BY <1>4, <2>3
<1> QED
  BY <1>3, <1>4

(* ... and one that was is in one buffer, or on one wire, or freed.        *)
LEMMA InOnePlace ==
  ASSUME Inv, NEW p \in Pkts
  PROVE  \E x : places(p) = {x}
<1>0. Control /\ Records /\ Descriptors /\ Buffers /\ Handed
  BY DEF Inv
<1>1. places(p) = batch_places(p) \union freed_places(p)
                    \union UNION {port_places(q, p) : q \in Ports}
  BY DEF places, batch_places, port_places, freed_places
<1>2. /\ freed \subseteq 1 .. done
      /\ \A q \in Ports : /\ elements(wire[q]) \subseteq 1 .. done
                          /\ elements(tx_mbufs[q]) \subseteq 1 .. done
      /\ \A m \in 1 .. done : m \in freed
           \/ \E q \in Ports : m \in elements(wire[q]) \/ m \in elements(tx_mbufs[q])
      /\ \A q, r \in Ports : elements(wire[q]) \intersect elements(tx_mbufs[r]) = {}
      /\ \A q, r \in Ports : q # r =>
           /\ elements(wire[q]) \intersect elements(wire[r]) = {}
           /\ elements(tx_mbufs[q]) \intersect elements(tx_mbufs[r]) = {}
      /\ \A q \in Ports : /\ freed \intersect elements(wire[q]) = {}
                          /\ freed \intersect elements(tx_mbufs[q]) = {}
  BY <1>0 DEF Handed, split, onWire, inBuffer
<1>3. \A q \in Ports : /\ wire[q] \in Seq(Nat) /\ increasing(wire[q])
                       /\ tx_mbufs[q] \in Seq(Nat) /\ increasing(tx_mbufs[q])
  BY <1>0 DEF Buffers, Handed
<1>4. p \notin freed => freed_places(p) = {}
  BY DEF freed_places
<1>5. \A q \in Ports : p \notin elements(wire[q]) /\ p \notin elements(tx_mbufs[q])
                         => port_places(q, p) = {}
  BY <1>3, NoPosition DEF port_places
<1>6. CASE p \notin 1 .. done
  <2>1. PICK x : batch_places(p) = {x}
    BY <1>0, <1>6, InBatch
  <2>2. freed_places(p) = {} /\ \A q \in Ports : port_places(q, p) = {}
    BY <1>2, <1>4, <1>5, <1>6
  <2> QED
    BY <1>1, <2>1, <2>2
<1>7. CASE p \in freed
  <2>1. p \in 1 .. done
    BY <1>2, <1>7
  <2>2. batch_places(p) = {}
    BY <1>0, <2>1, InBatch
  <2>3. \A q \in Ports : port_places(q, p) = {}
    BY <1>2, <1>5, <1>7
  <2>4. freed_places(p) = {<<"freed", 0, p>>}
    BY <1>7 DEF freed_places
  <2>5. UNION {port_places(q, p) : q \in Ports} = {}
    BY <2>3
  <2>6. places(p) = {<<"freed", 0, p>>}
    BY ONLY <1>1, <2>2, <2>4, <2>5
  <2> QED
    BY <2>6
<1>8. ASSUME p \in 1 .. done, NEW q \in Ports,
             p \in elements(wire[q]) \/ p \in elements(tx_mbufs[q])
      PROVE  \E x : places(p) = {x}
  <2>1. batch_places(p) = {} /\ freed_places(p) = {}
    <3>1. p \notin freed
      BY <1>2, <1>8
    <3> QED
      BY <1>0, <1>4, <1>8, <3>1, InBatch
  <2>2. \A r \in Ports \ {q} : port_places(r, p) = {}
    <3> TAKE r \in Ports \ {q}
    <3>1. p \notin elements(wire[r]) /\ p \notin elements(tx_mbufs[r])
      BY <1>2, <1>8
    <3> QED
      BY <1>5, <3>1
  <2>3. \E x : port_places(q, p) = {x}
    <3>1. CASE p \in elements(wire[q])
      <4>1. PICK j : positions(wire[q], p) = {j}
        BY <1>3, <3>1, OnePosition
      <4>2. p \notin elements(tx_mbufs[q])
        BY <1>2, <3>1
      <4>3. positions(tx_mbufs[q], p) = {}
        BY <1>3, <4>2, NoPosition
      <4>4. port_places(q, p) = {<<"wire", q, j>>}
        BY <4>1, <4>3 DEF port_places
      <4> QED
        BY <4>4
    <3>2. CASE p \in elements(tx_mbufs[q])
      <4>1. PICK j : positions(tx_mbufs[q], p) = {j}
        BY <1>3, <3>2, OnePosition
      <4>2. p \notin elements(wire[q])
        BY <1>2, <3>2
      <4>3. positions(wire[q], p) = {}
        BY <1>3, <4>2, NoPosition
      <4>4. port_places(q, p) = {<<"buffer", q, j>>}
        BY <4>1, <4>3 DEF port_places
      <4> QED
        BY <4>4
    <3> QED
      BY <1>8, <3>1, <3>2
  <2>4. UNION {port_places(r, p) : r \in Ports} = port_places(q, p)
    BY <2>2
  <2> QED
    BY <1>1, <2>1, <2>3, <2>4
<1> QED
  BY <1>2, <1>6, <1>7, <1>8

(* Every packet received is in exactly one place: in the rest of a batch,  *)
(* in one buffer, on one wire, or freed.  Nothing is lost or sent twice.   *)
THEOREM Conserved == Spec => []PacketsConserved
<1>1. Inv => PacketsConserved
  <2> SUFFICES ASSUME Inv PROVE PacketsConserved
    OBVIOUS
  <2>1. \A p \in Pkts : \E here \in places(p) : places(p) = {here}
    <3> TAKE p \in Pkts
    <3>1. PICK x : places(p) = {x}
      BY InOnePlace
    <3> HIDE DEF places
    <3>2. x \in places(p)
      BY <3>1
    <3> QED
      BY <3>1, <3>2
  <2> QED
    BY <2>1, InvTypeOK DEF PacketsConserved
<1> QED
  BY <1>1, InvCorrect, PTL

-----------------------------------------------------------------------------
(* Loops that write or read one struct after the other.                    *)

(* The order of the natural numbers is well-founded.                       *)
LEMMA NatWF == IsWellFoundedOn({ss \in Nat \X Nat : ss[1] < ss[2]}, Nat)
  BY NatLessThanWellFounded DEF OpToRel

(* Every set of natural numbers has a least one.                           *)
LEMMA LeastNatural ==
  ASSUME NEW U, U \subseteq Nat, U # {}
  PROVE  \E n \in U : \A m \in U : n <= m
<1> DEFINE R == {ss \in Nat \X Nat : ss[1] < ss[2]}
<1>1. IsWellFoundedOn(R, Nat)
  BY NatWF
<1> HIDE DEF R
<1>2. PICK n \in U : \A m \in U : ~(<<m, n>> \in R)
  BY <1>1, WFMin
<1>3. \A m \in U : m \in Nat /\ n \in Nat /\ ~(m < n)
  BY <1>2 DEF R
<1> QED
  BY <1>3

(* Two functions that begin alike and go on alike are the same.            *)
LEMMA SameRecursion ==
  ASSUME NEW n \in Nat, NEW g, NEW h, g[0] = h[0],
         \A i \in 1 .. n : g[i - 1] = h[i - 1] => g[i] = h[i]
  PROVE  \A i \in 0 .. n : g[i] = h[i]
<1> DEFINE U == {i \in 0 .. n : g[i] # h[i]}
<1>1. U = {}
  <2> SUFFICES ASSUME U # {} PROVE FALSE
    OBVIOUS
  <2>1. PICK i \in U : \A j \in U : i <= j
    <3>1. U \subseteq Nat
      OBVIOUS
    <3> HIDE DEF U
    <3> QED
      BY <3>1, LeastNatural
  <2>2. i \in 1 .. n /\ i - 1 \in 0 .. n /\ i - 1 \notin U
    BY <2>1
  <2> QED
    BY <2>2
<1> QED
  BY <1>1

\* A message, and a buffer with one more struct.
msg(y, t, r, l, b) ==
  [type |-> y, table_name |-> t, read_size |-> r, length |-> l, buffer |-> b]

placed(b, l, struct) == [offset \in DOMAIN b \union {l} |->
                           IF offset = l THEN struct ELSE b[offset]]

(* A struct is placed behind the last one.                                 *)
LEMMA Appended ==
  ASSUME NEW y, NEW t, NEW r, NEW l, NEW b, NEW struct
  PROVE  append(msg(y, t, r, l, b), struct)
           = msg(y, t, r, l + size_of[struct.kind], placed(b, l, struct))
<1> DEFINE m == msg(y, t, r, l, b)
           b2 == placed(b, l, struct)
           l2 == l + size_of[struct.kind]
           a == append(m, struct)
<1>1. m = msg(y, t, r, l, b)
  OBVIOUS
<1> HIDE DEF m
<1>2. m.buffer = b /\ m.length = l
  BY <1>1 DEF msg
<1>3. a = [m EXCEPT !.buffer = placed(m.buffer, m.length, struct),
                    !.length = m.length + size_of[struct.kind]]
  BY DEF append, placed
<1>4. a = [m EXCEPT !.buffer = b2, !.length = l2]
  BY <1>2, <1>3
<1> HIDE DEF a, b2, l2
<1>5. /\ DOMAIN a = {"type", "table_name", "read_size", "length", "buffer"}
      /\ a = [i \in DOMAIN a |-> a[i]]
  BY <1>1, <1>4 DEF msg
<1>6. /\ a.type = y /\ a.table_name = t /\ a.read_size = r
      /\ a.length = l2 /\ a.buffer = b2
  BY <1>1, <1>4 DEF msg
<1>7. a = msg(y, t, r, l2, b2)
  BY <1>5, <1>6 DEF msg
<1> QED
  BY <1>7 DEF a, m, l2, b2

(* A field is counted, too.                                                *)
LEMMA FieldAppended ==
  ASSUME NEW y, NEW t, NEW r, NEW l, NEW b, NEW struct
  PROVE  add_p4_field_match(msg(y, t, r, l, b), struct)
           = msg(y, t, r + 1, l + size_of[struct.kind], placed(b, l, struct))
<1> DEFINE m == append(msg(y, t, r, l, b), struct)
<1>1. m = msg(y, t, r, l + size_of[struct.kind], placed(b, l, struct))
  BY Appended
<1> HIDE DEF m
<1>2. [m EXCEPT !.read_size = @ + 1]
        = msg(y, t, r + 1, l + size_of[struct.kind], placed(b, l, struct))
  BY <1>1 DEF msg
<1> QED
  BY <1>2 DEF add_p4_field_match, m

\* The fields of a message, and the buffer with the first of them.
fieldAt(j) == 140 + 388 * (j - 1)

fieldBuffer(fields, n) ==
  [offset \in {fieldAt(j) : j \in 1 .. n} |-> fields[(offset - 140) \div 388 + 1]]

fielded(t, fields, n) ==
  msg("add", t, n, fieldAt(n + 1), fieldBuffer(fields, n))

(* Placing the next field makes the buffer with one field more.            *)
LEMMA FieldPlaced ==
  ASSUME NEW fields, NEW i \in Nat
  PROVE  fieldBuffer(fields, i + 1)
           = placed(fieldBuffer(fields, i), fieldAt(i + 1), fields[i + 1])
<1> DEFINE at(k) == {fieldAt(j) : j \in 1 .. k}
           here == fieldAt(i + 1)
<1>1. at(i + 1) = at(i) \union {here}
  <2>1. 1 .. i + 1 = 1 .. i \union {i + 1}
    OBVIOUS
  <2> QED
    BY <2>1
<1>2. (here - 140) \div 388 + 1 = i + 1
  BY DEF fieldAt
<1>3. DOMAIN fieldBuffer(fields, i) = at(i)
  BY DEF fieldBuffer
<1>4. \A offset \in at(i) : fieldBuffer(fields, i)[offset]
                              = fields[(offset - 140) \div 388 + 1]
  BY DEF fieldBuffer
<1>5. fieldBuffer(fields, i + 1)
        = [offset \in at(i + 1) |-> fields[(offset - 140) \div 388 + 1]]
  BY DEF fieldBuffer
<1>6. placed(fieldBuffer(fields, i), here, fields[i + 1])
        = [offset \in at(i) \union {here} |->
             IF offset = here THEN fields[i + 1]
             ELSE fieldBuffer(fields, i)[offset]]
  BY <1>3 DEF placed
<1> HIDE DEF at, here
<1> QED
  BY <1>1, <1>2, <1>4, <1>5, <1>6 DEF here

(* What the loop over the fields has written.                              *)
LEMMA FieldsWritten ==
  ASSUME NEW t, NEW fields, NEW n \in Nat, Len(fields) = n,
         \A j \in 1 .. n : fields[j].kind \in {"exact", "lpm"}
  PROVE  with_fields(create_p4_add_table_entry(t), fields)
           = fielded(t, fields, n)
<1> DEFINE m == create_p4_add_table_entry(t)
           step(g, i) == IF i = 0 THEN m
                         ELSE add_p4_field_match(g[i - 1], fields[i])
           w == [i \in 0 .. n |-> fielded(t, fields, i)]
           written == CHOOSE g : g = [i \in 0 .. n |-> step(g, i)]
<1>1. fielded(t, fields, 0) = m
  <2>1. << >> = [x \in {} |-> x]
    BY EmptySeq
  <2>2. {fieldAt(j) : j \in 1 .. 0} = {}
    OBVIOUS
  <2>3. << >> = fieldBuffer(fields, 0)
    BY <2>1, <2>2 DEF fieldBuffer
  <2>4. size_of.add_table_entry = fieldAt(0 + 1)
    BY DEF fieldAt, size_of
  <2> QED
    BY <2>3, <2>4 DEF fielded, create_p4_add_table_entry, msg
<1>2. ASSUME NEW i \in 1 .. n
      PROVE  fielded(t, fields, i)
               = add_p4_field_match(fielded(t, fields, i - 1), fields[i])
  <2>1. size_of[fields[i].kind] = 388
    BY DEF size_of
  <2>2. fieldAt(i - 1 + 1) + 388 = fieldAt(i + 1) /\ i - 1 + 1 = i /\ i - 1 \in Nat
    BY DEF fieldAt
  <2>3. fieldBuffer(fields, i)
          = placed(fieldBuffer(fields, i - 1), fieldAt(i - 1 + 1), fields[i])
    BY <2>2, FieldPlaced
  <2> QED
    BY <2>1, <2>2, <2>3, FieldAppended DEF fielded
<1>3. w = [i \in 0 .. n |-> step(w, i)]
  BY <1>1, <1>2
<1>4. written = [i \in 0 .. n |-> step(written, i)]
  BY <1>3
<1>5. ASSUME NEW g, g = [i \in 0 .. n |-> step(g, i)],
             NEW h, h = [i \in 0 .. n |-> step(h, i)]
      PROVE  g[n] = h[n]
  <2> HIDE DEF m
  <2>1. g[0] = h[0]
    BY <1>5
  <2>2. ASSUME NEW i \in 1 .. n, g[i - 1] = h[i - 1] PROVE g[i] = h[i]
    <3>1. /\ g[i] = add_p4_field_match(g[i - 1], fields[i])
          /\ h[i] = add_p4_field_match(h[i - 1], fields[i])
      BY <1>5
    <3> QED
      BY <2>2, <3>1
  <2>3. \A i \in 0 .. n : g[i] = h[i]
    BY ONLY n \in Nat, <2>1, <2>2, SameRecursion
  <2> QED
    BY <2>3
<1>7. written[n] = w[n]
  <2> HIDE DEF w, written, step
  <2> QED
    BY <1>3, <1>4, <1>5
<1>6. with_fields(m, fields) = written[n]
  <2> HIDE DEF m
  <2> QED
    BY DEF with_fields
<1> QED
  BY <1>6, <1>7

\* The action of a message, its parameters, and the buffer with the first
\* of them behind the structs that are there.
action(name, k) == [kind |-> "action", name |-> name, param_size |-> k]

param(bitmap) == [kind |-> "action_parameter", bitmap |-> bitmap]

paramAt(l, j) == l + 260 * (j - 1)

paramBuffer(b, l, a, name, params, n) ==
  [offset \in DOMAIN b \union {paramAt(l, j) : j \in 1 .. n} |->
     IF offset = a THEN action(name, n)
     ELSE IF offset \in DOMAIN b THEN b[offset]
     ELSE param(params[(offset - l) \div 260 + 1])]

(* A parameter is counted in the action, which lies further in front.      *)
LEMMA ParamAppended ==
  ASSUME NEW y, NEW t, NEW r, NEW l, NEW b, NEW a \in DOMAIN b, a # l,
         NEW name, NEW k, b[a] = action(name, k), NEW bitmap
  PROVE  add_p4_action_parameter(msg(y, t, r, l, b), a, bitmap)
           = msg(y, t, r, l + 260, [placed(b, l, param(bitmap)) EXCEPT
                                      ![a] = action(name, k + 1)])
<1> DEFINE m == append(msg(y, t, r, l, b), param(bitmap))
           b2 == placed(b, l, param(bitmap))
           b3 == [b2 EXCEPT ![a] = action(name, k + 1)]
           w == add_p4_action_parameter(msg(y, t, r, l, b), a, bitmap)
<1>1. m = msg(y, t, r, l + 260, b2)
  <2>1. size_of[param(bitmap).kind] = 260
    BY DEF size_of, param
  <2> QED
    BY <2>1, Appended
<1>2. /\ b2[a] = action(name, k) /\ a \in DOMAIN b2
      /\ b2 = [offset \in DOMAIN b2 |-> b2[offset]]
  BY DEF placed
<1>3. w = [m EXCEPT !.buffer[a].param_size = @ + 1]
  BY DEF add_p4_action_parameter, param
<1> HIDE DEF m, b2, w
<1>4. m.buffer = b2
  BY <1>1 DEF msg
<1>5. [action(name, k) EXCEPT !.param_size = k + 1] = action(name, k + 1)
  BY DEF action
<1>6. w = [m EXCEPT !.buffer = [b2 EXCEPT ![a] =
                                  [b2[a] EXCEPT !.param_size = b2[a].param_size + 1]]]
  BY <1>3, <1>4
<1>7. action(name, k).param_size = k
  BY DEF action
<1>8. w = [m EXCEPT !.buffer = b3]
  BY <1>2, <1>5, <1>6, <1>7
<1> HIDE DEF b3
<1>9. /\ DOMAIN w = {"type", "table_name", "read_size", "length", "buffer"}
      /\ w = [i \in DOMAIN w |-> w[i]]
  BY <1>1, <1>8 DEF msg
<1>10. /\ w.type = y /\ w.table_name = t /\ w.read_size = r
       /\ w.length = l + 260 /\ w.buffer = b3
  BY <1>1, <1>8 DEF msg
<1>11. w = msg(y, t, r, l + 260, b3)
  BY <1>9, <1>10 DEF msg
<1> QED
  BY <1>11 DEF w, b3, b2

(* Placing the next parameter makes the buffer with one more.              *)
LEMMA ParamPlaced ==
  ASSUME NEW l \in Nat, NEW b, \A o \in DOMAIN b : o \in Nat /\ o < l,
         NEW a \in DOMAIN b, NEW name, NEW params, NEW i \in Nat
  PROVE  paramBuffer(b, l, a, name, params, i + 1)
           = [placed(paramBuffer(b, l, a, name, params, i), paramAt(l, i + 1),
                     param(params[i + 1])) EXCEPT ![a] = action(name, i + 1)]
<1> DEFINE at(k) == DOMAIN b \union {paramAt(l, j) : j \in 1 .. k}
           here == paramAt(l, i + 1)
           old == paramBuffer(b, l, a, name, params, i)
           more == placed(old, here, param(params[i + 1]))
           new == paramBuffer(b, l, a, name, params, i + 1)
           changed == [more EXCEPT ![a] = action(name, i + 1)]
<1>1. at(i + 1) = at(i) \union {here}
  <2>1. 1 .. i + 1 = 1 .. i \union {i + 1}
    OBVIOUS
  <2> QED
    BY <2>1
<1>2. (here - l) \div 260 + 1 = i + 1 /\ here \notin DOMAIN b /\ here # a
  BY DEF paramAt
<1>3. /\ DOMAIN old = at(i) /\ DOMAIN more = at(i + 1) /\ DOMAIN new = at(i + 1)
      /\ more = [offset \in at(i + 1) |-> more[offset]]
      /\ new = [offset \in at(i + 1) |-> new[offset]]
  BY <1>1 DEF paramBuffer, placed
<1>4. /\ DOMAIN changed = at(i + 1)
      /\ changed = [offset \in at(i + 1) |->
                      IF offset = a THEN action(name, i + 1) ELSE more[offset]]
  <2> HIDE DEF more, at
  <2> QED
    BY <1>3
<1>5. ASSUME NEW o \in at(i + 1)
      PROVE  new[o] = IF o = a THEN action(name, i + 1) ELSE more[o]
  <2>1. CASE o = a
    BY <1>5, <2>1 DEF paramBuffer
  <2>2. CASE o = here
    BY <1>2, <1>3, <1>5, <2>2 DEF paramBuffer, placed
  <2>3. CASE o # here /\ o # a
    <3>1. o \in at(i)
      BY <1>1, <1>5, <2>3
    <3>2. more[o] = old[o]
      BY <1>3, <2>3, <3>1 DEF placed
    <3>3. old[o] = new[o]
      BY <1>5, <2>3, <3>1 DEF paramBuffer
    <3> QED
      BY <2>3, <3>2, <3>3
  <2> QED
    BY <2>1, <2>2, <2>3
<1> HIDE DEF new, more, changed, at
<1>6. new = changed
  BY <1>3, <1>4, <1>5
<1> QED
  BY <1>6 DEF new, changed, more

(* What the loop over the parameters has written.                          *)
LEMMA ParamsWritten ==
  ASSUME NEW y, NEW t, NEW r, NEW l \in Nat, NEW b,
         b = [o \in DOMAIN b |-> b[o]],
         \A o \in DOMAIN b : o \in Nat /\ o < l,
         NEW a \in DOMAIN b, NEW name, b[a] = action(name, 0),
         NEW params, NEW n \in Nat, Len(params) = n
  PROVE  with_params(msg(y, t, r, l, b), a, params)
           = msg(y, t, r, paramAt(l, n + 1), paramBuffer(b, l, a, name, params, n))
<1> DEFINE m == msg(y, t, r, l, b)
           filled(i) == msg(y, t, r, paramAt(l, i + 1),
                            paramBuffer(b, l, a, name, params, i))
           step(g, i) == IF i = 0 THEN m
                         ELSE add_p4_action_parameter(g[i - 1], a, params[i])
           w == [i \in 0 .. n |-> filled(i)]
           written == CHOOSE g : g = [i \in 0 .. n |-> step(g, i)]
<1>1. filled(0) = m
  <2>1. {paramAt(l, j) : j \in 1 .. 0} = {} /\ paramAt(l, 0 + 1) = l
    BY DEF paramAt
  <2>2. paramBuffer(b, l, a, name, params, 0) = [o \in DOMAIN b |-> b[o]]
    BY <2>1 DEF paramBuffer
  <2> QED
    BY <2>1, <2>2
<1>2. ASSUME NEW i \in 1 .. n
      PROVE  filled(i) = add_p4_action_parameter(filled(i - 1), a, params[i])
  <2> DEFINE k == i - 1
             old == paramBuffer(b, l, a, name, params, k)
             here == paramAt(l, k + 1)
             bitmap == params[i]
  <2>1. /\ here + 260 = paramAt(l, i + 1) /\ k + 1 = i /\ k \in Nat
        /\ a # here
    BY DEF paramAt
  <2>2. a \in DOMAIN old /\ old[a] = action(name, k)
    BY DEF paramBuffer
  <2> HIDE DEF k
  <2>3. paramBuffer(b, l, a, name, params, k + 1)
          = [placed(old, here, param(params[k + 1])) EXCEPT
               ![a] = action(name, k + 1)]
    BY ONLY l \in Nat, \A o \in DOMAIN b : o \in Nat /\ o < l, a \in DOMAIN b,
            <2>1, ParamPlaced DEF old, here
  <2> HIDE DEF old, here, bitmap
  <2>4. add_p4_action_parameter(msg(y, t, r, here, old), a, bitmap)
          = msg(y, t, r, here + 260, [placed(old, here, param(bitmap)) EXCEPT
                                        ![a] = action(name, k + 1)])
    BY ONLY <2>1, <2>2, ParamAppended, SMTT(30)
  <2>5. filled(i - 1) = msg(y, t, r, here, old)
    BY DEF old, here, k
  <2> QED
    BY <2>1, <2>3, <2>4, <2>5 DEF bitmap
<1> HIDE DEF filled
<1>3. w = [i \in 0 .. n |-> step(w, i)]
  BY <1>1, <1>2
<1>4. written = [i \in 0 .. n |-> step(written, i)]
  BY <1>3
<1>5. ASSUME NEW g, g = [i \in 0 .. n |-> step(g, i)],
             NEW h, h = [i \in 0 .. n |-> step(h, i)]
      PROVE  g[n] = h[n]
  <2> HIDE DEF m
  <2>1. g[0] = h[0]
    BY <1>5
  <2>2. ASSUME NEW i \in 1 .. n, g[i - 1] = h[i - 1] PROVE g[i] = h[i]
    <3>1. /\ g[i] = add_p4_action_parameter(g[i - 1], a, params[i])
          /\ h[i] = add_p4_action_parameter(h[i - 1], a, params[i])
      BY ONLY n \in Nat, i \in 1 .. n, <1>5
    <3> QED
      BY <2>2, <3>1
  <2>3. \A i \in 0 .. n : g[i] = h[i]
    BY ONLY n \in Nat, <2>1, <2>2, SameRecursion
  <2> QED
    BY <2>3
<1>6. written[n] = w[n]
  <2> HIDE DEF w, written, step
  <2> QED
    BY <1>3, <1>4, <1>5
<1>7. with_params(m, a, params) = written[n]
  <2> HIDE DEF m
  <2> QED
    BY DEF with_params
<1> QED
  BY <1>6, <1>7 DEF filled

-----------------------------------------------------------------------------
(* Byte order.                                                             *)

(* The two bytes of a number.                                              *)
LEMMA TwoBytes ==
  ASSUME NEW q \in Nat, q < 256, NEW r \in Nat, r < 256
  PROVE  (256 * q + r) \div 256 = q /\ (256 * q + r) % 256 = r
  BY SMT

(* Converting twice gives the number back.                                 *)
LEMMA HtonsTwice ==
  ASSUME NEW k \in Nat, k < 65536
  PROVE  htons(htons(k)) = k
<1> DEFINE q == k \div 256
           r == k % 256
<1>1. q \in Nat /\ q < 256 /\ r \in Nat /\ r < 256 /\ k = 256 * q + r
  BY SMT
<1> HIDE DEF q, r
<1>2. q % 256 = q /\ r % 256 = r
  BY <1>1, SMT
<1>3. htons(k) = 256 * r + q
  BY <1>1, <1>2, SMT DEF htons, q, r
<1>4. htons(256 * r + q) = 256 * q + r
  BY <1>1, <1>2, TwoBytes, SMT DEF htons
<1> QED
  BY <1>1, <1>3, <1>4, SMT

\* A buffer in the order of the network.
converted(b) == [offset \in DOMAIN b |-> netconv_p4_field_match_complex(b[offset])]

(* The header's conversion is about the length.                            *)
LEMMA HeaderConverted ==
  ASSUME NEW y, NEW t, NEW r, NEW l, NEW b
  PROVE  netconv_p4_header(msg(y, t, r, l, b)) = msg(y, t, r, htons(l), b)
<1> DEFINE m == msg(y, t, r, l, b)
           z == htons(l)
           w == netconv_p4_header(m)
<1>1. m = msg(y, t, r, l, b)
  OBVIOUS
<1>2. m.length = l
  BY DEF msg
<1> HIDE DEF m
<1>3. w = [m EXCEPT !.length = z]
  BY <1>2 DEF netconv_p4_header
<1> HIDE DEF w, z
<1>4. /\ DOMAIN w = {"type", "table_name", "read_size", "length", "buffer"}
      /\ w = [i \in DOMAIN w |-> w[i]]
  BY <1>1, <1>3 DEF msg
<1>5. /\ w.type = y /\ w.table_name = t /\ w.read_size = r
      /\ w.length = z /\ w.buffer = b
  BY <1>1, <1>3 DEF msg
<1>6. w = msg(y, t, r, z, b)
  BY <1>4, <1>5 DEF msg
<1> QED
  BY <1>6 DEF w, m, z

(* The controller converts header and structs.                             *)
LEMMA AllConverted ==
  ASSUME NEW y, NEW t, NEW r, NEW l, NEW b
  PROVE  netconv_all(msg(y, t, r, l, b)) = msg(y, t, r, htons(l), converted(b))
<1> DEFINE m == netconv_p4_header(msg(y, t, r, l, b))
           z == htons(l)
           d == converted(b)
           w == netconv_all(msg(y, t, r, l, b))
<1>1. m = msg(y, t, r, z, b)
  BY HeaderConverted
<1>2. w = [m EXCEPT !.buffer = converted(m.buffer)]
  <2> HIDE DEF m
  <2> QED
    BY DEF netconv_all, converted, m
<1> HIDE DEF m
<1>3. m.buffer = b
  BY <1>1 DEF msg
<1>4. w = [m EXCEPT !.buffer = d]
  BY <1>2, <1>3
<1> HIDE DEF w, z, d
<1>5. /\ DOMAIN w = {"type", "table_name", "read_size", "length", "buffer"}
      /\ w = [i \in DOMAIN w |-> w[i]]
  BY <1>1, <1>4 DEF msg
<1>6. /\ w.type = y /\ w.table_name = t /\ w.read_size = r
      /\ w.length = z /\ w.buffer = d
  BY <1>1, <1>4 DEF msg
<1>7. w = msg(y, t, r, z, d)
  BY <1>5, <1>6 DEF msg
<1> QED
  BY <1>7 DEF w, z, d

-----------------------------------------------------------------------------
(* Whole messages.                                                         *)

\* The buffers of an entry for a table and of a default action.
entryBuffer(fields, n, name, params, p) ==
  paramBuffer(placed(fieldBuffer(fields, n), fieldAt(n + 1), action(name, 0)),
              fieldAt(n + 1) + 130, fieldAt(n + 1), name, params, p)

defaultBuffer(name, params, p) ==
  paramBuffer([offset \in {136} |-> action(name, 0)], 268, 136, name, params, p)

(* The message for an entry: fields, action, parameters.                   *)
LEMMA EntryWritten ==
  ASSUME NEW c, NEW n \in Nat, Len(fields_of(c)) = n,
         \A j \in 1 .. n : fields_of(c)[j].kind \in {"exact", "lpm"},
         NEW p \in Nat, Len(params_of(c.value)) = p
  PROVE  fill_table(c) =
           msg("add", c.table, n, htons(paramAt(fieldAt(n + 1) + 130, p + 1)),
               converted(entryBuffer(fields_of(c), n, c.value.action,
                                     params_of(c.value), p)))
<1> DEFINE t == c.table
           fields == fields_of(c)
           name == c.value.action
           params == params_of(c.value)
           b == fieldBuffer(fields, n)
           a == fieldAt(n + 1)
           m == with_fields(create_p4_add_table_entry(t), fields)
           more == placed(b, a, action(name, 0))
           full == paramBuffer(more, a + 130, a, name, params, p)
           l == paramAt(a + 130, p + 1)
<1>1. m = msg("add", t, n, a, b)
  <2> HIDE DEF fields, t
  <2> QED
    BY FieldsWritten DEF fielded, fields
<1>2. add_p4_action(msg("add", t, n, a, b), name) = msg("add", t, n, a + 130, more)
  <2>1. size_of[action(name, 0).kind] = 130
    BY DEF size_of, action
  <2>2. add_p4_action(msg("add", t, n, a, b), name)
          = append(msg("add", t, n, a, b), action(name, 0))
    BY DEF add_p4_action, action
  <2> HIDE DEF a, b, name, t
  <2> QED
    BY <2>1, <2>2, Appended
<1>3. with_params(msg("add", t, n, a + 130, more), a, params)
        = msg("add", t, n, l, full)
  <2>1. DOMAIN more = DOMAIN b \union {a} /\ more = [o \in DOMAIN more |-> more[o]]
    BY DEF placed
  <2>2. \A o \in DOMAIN more : o \in Nat /\ o < a + 130
    BY <2>1 DEF fieldBuffer, fieldAt
  <2>3. a \in DOMAIN more /\ more[a] = action(name, 0)
    BY DEF placed
  <2>4. a + 130 \in Nat
    BY DEF fieldAt
  <2>5. Len(params) = p
    OBVIOUS
  <2> HIDE DEF more, a, t, name, params
  <2> QED
    BY ONLY p \in Nat, <2>1, <2>2, <2>3, <2>4, <2>5, ParamsWritten
<1>4. netconv_all(msg("add", t, n, l, full))
        = msg("add", t, n, htons(l), converted(full))
  <2> HIDE DEF t, l, full
  <2> QED
    BY AllConverted
<1>5. fill_table(c) = netconv_all(with_params(add_p4_action(m, name), m.length,
                                              params))
  <2> HIDE DEF m
  <2> QED
    BY DEF fill_table, m
<1>6. m.length = a
  BY <1>1 DEF msg
<1>7. full = entryBuffer(fields, n, name, params, p)
  BY DEF entryBuffer
<1> HIDE DEF m, full, l, a, b, more, t, name, params, fields
<1>8. fill_table(c) = msg("add", t, n, htons(l), converted(full))
  BY <1>1, <1>2, <1>3, <1>4, <1>5, <1>6
<1> QED
  BY <1>7, <1>8 DEF l, t, name, params, fields, a

(* The message for a default action: the action lies in front of the end.  *)
LEMMA DefaultWritten ==
  ASSUME NEW c, NEW p \in Nat, Len(params_of(c.value)) = p
  PROVE  set_default(c) =
           msg("setdefault", c.table, 0, htons(paramAt(268, p + 1)),
               converted(defaultBuffer(c.value.action, params_of(c.value), p)))
<1> DEFINE t == c.table
           name == c.value.action
           params == params_of(c.value)
           b == [offset \in {136} |-> action(name, 0)]
           m == create_p4_set_default_action(t, name)
           full == paramBuffer(b, 268, 136, name, params, p)
           l == paramAt(268, p + 1)
<1>1. m = msg("setdefault", t, 0, 268, b)
  BY DEF create_p4_set_default_action, msg, size_of, default_action, action
<1>2. with_params(msg("setdefault", t, 0, 268, b), 136, params)
        = msg("setdefault", t, 0, l, full)
  <2>1. /\ DOMAIN b = {136} /\ b = [o \in DOMAIN b |-> b[o]]
        /\ b[136] = action(name, 0) /\ 136 \in DOMAIN b /\ 268 \in Nat
        /\ \A o \in DOMAIN b : o \in Nat /\ o < 268
    OBVIOUS
  <2>2. Len(params) = p
    OBVIOUS
  <2> HIDE DEF b, t, name, params
  <2> QED
    BY ONLY p \in Nat, <2>1, <2>2, ParamsWritten
<1>3. netconv_all(msg("setdefault", t, 0, l, full))
        = msg("setdefault", t, 0, htons(l), converted(full))
  <2> HIDE DEF t, l, full
  <2> QED
    BY AllConverted
<1>4. set_default(c) = netconv_all(with_params(m, 136, params))
  <2> HIDE DEF m
  <2> QED
    BY DEF set_default, m, default_action
<1>5. full = defaultBuffer(name, params, p)
  BY DEF defaultBuffer
<1> HIDE DEF m, full, l, b, t, name, params
<1>6. set_default(c) = msg("setdefault", t, 0, htons(l), converted(full))
  BY <1>1, <1>2, <1>3, <1>4
<1> QED
  BY <1>5, <1>6 DEF l, t, name, params

-----------------------------------------------------------------------------
(* What the switch finds in a message.                                     *)

\* A struct that the controller may have written, in its own byte order.
readable(struct) ==
  \/ struct.kind = "exact"
  \/ /\ struct.kind = "lpm"
     /\ struct = [kind |-> "lpm", bitmap |-> struct.bitmap,
                  prefix_length |-> struct.prefix_length]
     /\ struct.prefix_length \in Nat /\ struct.prefix_length < 65536

(* A field keeps its kind in the order of the network, and the switch's     *)
(* conversion takes back that of the controller.                           *)
LEMMA FieldConvertedTwice ==
  ASSUME NEW struct, readable(struct)
  PROVE  LET once == netconv_p4_field_match_complex(struct)
         IN  /\ once.kind = struct.kind
             /\ netconv_p4_field_match_complex(once) = struct
<1>1. CASE struct.kind = "exact"
  BY <1>1 DEF netconv_p4_field_match_complex
<1>2. CASE struct.kind # "exact"
  <2> DEFINE bits == struct.bitmap
             k == struct.prefix_length
             once == [kind |-> "lpm", bitmap |-> bits, prefix_length |-> htons(k)]
  <2>1. /\ struct = [kind |-> "lpm", bitmap |-> bits, prefix_length |-> k]
        /\ htons(htons(k)) = k
    BY <1>2, HtonsTwice DEF readable
  <2> HIDE DEF bits, k
  <2>2. ASSUME NEW x, NEW z
        PROVE  [[kind |-> "lpm", bitmap |-> bits, prefix_length |-> x] EXCEPT
                  !.prefix_length = z]
                 = [kind |-> "lpm", bitmap |-> bits, prefix_length |-> z]
    OBVIOUS
  <2>3. netconv_p4_field_match_complex(struct) = once
    BY <2>1, <2>2 DEF netconv_p4_field_match_complex
  <2>4. netconv_p4_field_match_complex(once)
          = [kind |-> "lpm", bitmap |-> bits, prefix_length |-> htons(htons(k))]
    BY <2>2 DEF netconv_p4_field_match_complex
  <2> QED
    BY <2>1, <2>3, <2>4
<1> QED
  BY <1>1, <1>2

(* The structs of an entry lie where they were put.                        *)
LEMMA EntryFound ==
  ASSUME NEW n \in Nat, NEW p \in Nat, NEW fields, NEW name, NEW params
  PROVE  LET b == entryBuffer(fields, n, name, params, p)
             a == fieldAt(n + 1)
         IN  /\ a \in DOMAIN b /\ b[a] = action(name, p)
             /\ \A j \in 1 .. n : /\ fieldAt(j) \in DOMAIN b
                                  /\ b[fieldAt(j)] = fields[j]
             /\ \A j \in 1 .. p : /\ paramAt(a + 130, j) \in DOMAIN b
                                  /\ b[paramAt(a + 130, j)] = param(params[j])
<1> DEFINE b0 == fieldBuffer(fields, n)
           a == fieldAt(n + 1)
           b1 == placed(b0, a, action(name, 0))
           b == paramBuffer(b1, a + 130, a, name, params, p)
<1>1. /\ DOMAIN b0 = {fieldAt(j) : j \in 1 .. n}
      /\ DOMAIN b1 = DOMAIN b0 \union {a}
      /\ DOMAIN b = DOMAIN b1 \union {paramAt(a + 130, j) : j \in 1 .. p}
  BY DEF fieldBuffer, placed, paramBuffer
<1>2. \A o \in DOMAIN b : b[o] =
        IF o = a THEN action(name, p)
        ELSE IF o \in DOMAIN b1 THEN b1[o]
        ELSE param(params[(o - (a + 130)) \div 260 + 1])
  BY DEF paramBuffer
<1>3. \A o \in DOMAIN b0 : o # a => b1[o] = b0[o]
  BY DEF placed
<1>4. ASSUME NEW j \in 1 .. n
      PROVE  fieldAt(j) \in DOMAIN b /\ b[fieldAt(j)] = fields[j]
  <2>1. fieldAt(j) # a /\ (fieldAt(j) - 140) \div 388 + 1 = j
    BY DEF fieldAt
  <2>2. b0[fieldAt(j)] = fields[j]
    BY <2>1 DEF fieldBuffer
  <2> HIDE DEF b, b1, b0, a
  <2> QED
    BY <1>1, <1>2, <1>3, <2>1, <2>2
<1>5. ASSUME NEW j \in 1 .. p
      PROVE  /\ paramAt(a + 130, j) \in DOMAIN b
             /\ b[paramAt(a + 130, j)] = param(params[j])
  <2> DEFINE o == paramAt(a + 130, j)
  <2>1. o # a /\ (o - (a + 130)) \div 260 + 1 = j
    BY DEF fieldAt, paramAt
  <2>2. \A i \in 1 .. n : fieldAt(i) # o
    BY DEF fieldAt, paramAt
  <2>3. o \in DOMAIN b /\ o \notin DOMAIN b1
    BY <1>1, <2>1, <2>2
  <2> HIDE DEF b, b1, b0, a, o
  <2>4. b[o] = param(params[(o - (a + 130)) \div 260 + 1])
    BY <1>2, <2>1, <2>3
  <2> QED
    BY <2>1, <2>3, <2>4 DEF o
<1>6. a \in DOMAIN b /\ b[a] = action(name, p)
  BY <1>1, <1>2
<1>7. b = entryBuffer(fields, n, name, params, p)
  BY DEF entryBuffer
<1> HIDE DEF b
<1> QED
  BY <1>4, <1>5, <1>6, <1>7

(* ... and those of a default action.                                      *)
LEMMA DefaultFound ==
  ASSUME NEW p \in Nat, NEW name, NEW params
  PROVE  LET b == defaultBuffer(name, params, p)
         IN  /\ 136 \in DOMAIN b /\ b[136] = action(name, p)
             /\ \A j \in 1 .. p : /\ paramAt(268, j) \in DOMAIN b
                                  /\ b[paramAt(268, j)] = param(params[j])
<1> DEFINE b0 == [offset \in {136} |-> action(name, 0)]
           b == paramBuffer(b0, 268, 136, name, params, p)
<1>1. DOMAIN b = {136} \union {paramAt(268, j) : j \in 1 .. p}
  BY DEF paramBuffer
<1>2. b[136] = action(name, p)
  BY DEF paramBuffer
<1>3. ASSUME NEW j \in 1 .. p
      PROVE  /\ paramAt(268, j) \in DOMAIN b
             /\ b[paramAt(268, j)] = param(params[j])
  <2>1. paramAt(268, j) # 136 /\ (paramAt(268, j) - 268) \div 260 + 1 = j
    BY DEF paramAt
  <2>2. paramAt(268, j) \in DOMAIN b
    BY <1>1
  <2> QED
    BY <2>1, <2>2 DEF paramBuffer
<1>4. b = defaultBuffer(name, params, p)
  BY DEF defaultBuffer
<1> HIDE DEF b
<1> QED
  BY <1>1, <1>2, <1>3, <1>4

(* An action and its parameters are the same in every byte order.          *)
LEMMA ActionConverted ==
  ASSUME NEW b, NEW o \in DOMAIN b, NEW name, NEW k, NEW bitmap
  PROVE  /\ b[o] = action(name, k) => converted(b)[o] = action(name, k)
         /\ b[o] = param(bitmap) => converted(b)[o] = param(bitmap)
<1>1. /\ netconv_p4_field_match_complex(action(name, k)) = action(name, k)
      /\ netconv_p4_field_match_complex(param(bitmap)) = param(bitmap)
  BY DEF netconv_p4_field_match_complex, action, param
<1> QED
  BY <1>1 DEF converted

(* handle_p4_add_table_entry finds every field by the sizes of those before *)
(* it, then the action and its parameters.                                 *)
LEMMA EntryRead ==
  ASSUME NEW t, NEW l, NEW n \in Nat, n <= 10, NEW p \in Nat, p <= 10,
         NEW fields, \A j \in 1 .. n : readable(fields[j]),
         NEW name, NEW params
  PROVE  LET m == msg("add", t, n, l,
                      converted(entryBuffer(fields, n, name, params, p)))
             ctrl_m == handle_p4_add_table_entry(m)
         IN  /\ ctrl_m.rval = 0 /\ ctrl_m.type = "add" /\ ctrl_m.table_name = t
             /\ ctrl_m.field_matches = [i \in 1 .. n |-> fields[i]]
             /\ ctrl_m.action_name = name
             /\ ctrl_m.action_params = [i \in 1 .. p |-> params[i]]
<1> DEFINE b == entryBuffer(fields, n, name, params, p)
           d == converted(b)
           a == fieldAt(n + 1)
           m == msg("add", t, n, l, d)
           behind(o) == o + size_of[m.buffer[o].kind]
           step(g, i) == IF i = 0 THEN size_of.add_table_entry
                         ELSE behind(g[i - 1])
           w == [i \in 0 .. n |-> fieldAt(i + 1)]
           offset == CHOOSE g : g = [i \in 0 .. n |-> step(g, i)]
<1>0. /\ a \in DOMAIN b /\ b[a] = action(name, p)
      /\ \A j \in 1 .. n : fieldAt(j) \in DOMAIN b /\ b[fieldAt(j)] = fields[j]
      /\ \A j \in 1 .. p : /\ paramAt(a + 130, j) \in DOMAIN b
                          /\ b[paramAt(a + 130, j)] = param(params[j])
  BY ONLY n \in Nat, p \in Nat, EntryFound
<1>1. /\ m.type = "add" /\ m.table_name = t /\ m.read_size = n /\ m.buffer = d
  BY DEF msg
<1>2. \A j \in 1 .. n :
        /\ d[fieldAt(j)].kind = fields[j].kind
        /\ netconv_p4_field_match_complex(d[fieldAt(j)]) = fields[j]
        /\ size_of[d[fieldAt(j)].kind] = 388
  <2> SUFFICES ASSUME NEW j \in 1 .. n
               PROVE  /\ d[fieldAt(j)].kind = fields[j].kind
                      /\ netconv_p4_field_match_complex(d[fieldAt(j)]) = fields[j]
                      /\ size_of[d[fieldAt(j)].kind] = 388
    OBVIOUS
  <2>1. fieldAt(j) \in DOMAIN b /\ b[fieldAt(j)] = fields[j]
    BY ONLY <1>0, j \in 1 .. n
  <2> HIDE DEF b
  <2>2. d[fieldAt(j)] = netconv_p4_field_match_complex(fields[j])
    BY <2>1 DEF converted
  <2>3. readable(fields[j])
    OBVIOUS
  <2>4. fields[j].kind \in {"exact", "lpm"}
    BY <2>3 DEF readable
  <2> HIDE DEF d
  <2>5. /\ d[fieldAt(j)].kind = fields[j].kind
        /\ netconv_p4_field_match_complex(d[fieldAt(j)]) = fields[j]
    BY <2>2, <2>3, FieldConvertedTwice
  <2> QED
    BY <2>4, <2>5 DEF size_of
<1>3. d[a] = action(name, p)
  <2> HIDE DEF b, a
  <2> QED
    BY <1>0, ActionConverted
<1>4. \A j \in 1 .. p : d[paramAt(a + 130, j)] = param(params[j])
  <2> HIDE DEF b, a
  <2> QED
    BY <1>0, ActionConverted
<1> HIDE DEF m, d
<1>5. w = [i \in 0 .. n |-> step(w, i)]
  <2>1. ASSUME NEW i \in 1 .. n PROVE fieldAt(i + 1) = step(w, i)
    <3>1. w[i - 1] = fieldAt(i) /\ fieldAt(i) + 388 = fieldAt(i + 1)
      BY DEF fieldAt
    <3> QED
      BY <1>1, <1>2, <3>1
  <2>2. fieldAt(0 + 1) = step(w, 0)
    BY DEF fieldAt, size_of
  <2>3. \A i \in 0 .. n : fieldAt(i + 1) = step(w, i)
    BY <2>1, <2>2
  <2>4. w = [i \in 0 .. n |-> fieldAt(i + 1)]
    OBVIOUS
  <2> HIDE DEF w, step
  <2> QED
    BY <2>3, <2>4
<1>6. offset = [i \in 0 .. n |-> step(offset, i)]
  <2> HIDE DEF w, step
  <2> QED
    BY <1>5
<1>7. ASSUME NEW g, g = [i \in 0 .. n |-> step(g, i)],
             NEW h, h = [i \in 0 .. n |-> step(h, i)]
      PROVE  \A i \in 0 .. n : g[i] = h[i]
  <2> HIDE DEF behind
  <2>1. g[0] = h[0]
    BY <1>7
  <2>2. ASSUME NEW i \in 1 .. n, g[i - 1] = h[i - 1] PROVE g[i] = h[i]
    <3>1. g[i] = behind(g[i - 1]) /\ h[i] = behind(h[i - 1])
      BY ONLY n \in Nat, i \in 1 .. n, <1>7
    <3> QED
      BY <2>2, <3>1
  <2> QED
    BY ONLY n \in Nat, <2>1, <2>2, SameRecursion
<1>12. \A i \in 0 .. n : offset[i] = fieldAt(i + 1)
  <2>1. \A i \in 0 .. n : w[i] = fieldAt(i + 1)
    OBVIOUS
  <2> HIDE DEF w, offset, step
  <2>2. \A i \in 0 .. n : offset[i] = w[i]
    BY <1>5, <1>6, <1>7
  <2> QED
    BY <2>1, <2>2
<1>8. handle_p4_add_table_entry(m) =
        [rval |-> IF m.read_size > P4_MAX_NUMBER_OF_FIELD_MATCHES THEN -1
                  ELSE IF m.buffer[offset[m.read_size]].param_size
                            > P4_MAX_NUMBER_OF_ACTION_PARAMETERS
                  THEN -2 ELSE 0,
         type |-> m.type, table_name |-> m.table_name,
         field_matches |->
           [i \in 1 .. m.read_size |->
              netconv_p4_field_match_complex(m.buffer[offset[i - 1]])],
         action_name |-> m.buffer[offset[m.read_size]].name,
         action_params |->
           action_params(m, offset[m.read_size] + size_of.action,
                         m.buffer[offset[m.read_size]].param_size)]
  BY <1>1 DEF handle_p4_add_table_entry
<1> HIDE DEF offset, b
<1>9. offset[n] = a /\ d[a].param_size = p /\ d[a].name = name
  BY <1>3, <1>12 DEF action
<1>10. [i \in 1 .. n |-> netconv_p4_field_match_complex(d[offset[i - 1]])]
         = [i \in 1 .. n |-> fields[i]]
  <2>1. \A i \in 1 .. n : offset[i - 1] = fieldAt(i)
    BY <1>12
  <2> QED
    BY <1>2, <2>1
<1>11. action_params(m, a + size_of.action, p) = [i \in 1 .. p |-> params[i]]
  <2>1. \A i \in 1 .. p : a + size_of.action + (i - 1) * size_of.action_parameter
                            = paramAt(a + 130, i)
    BY DEF paramAt, fieldAt, size_of
  <2>2. \A i \in 1 .. p : d[paramAt(a + 130, i)].bitmap = params[i]
    <3>1. \A x : param(x).bitmap = x
      BY DEF param
    <3> QED
      BY <1>4, <3>1
  <2> HIDE DEF a
  <2> QED
    BY <1>1, <2>1, <2>2 DEF action_params
<1> HIDE DEF a
<1> DEFINE ctrl_m == handle_p4_add_table_entry(m)
<1>13. /\ ctrl_m.rval = 0 /\ ctrl_m.type = "add" /\ ctrl_m.table_name = t
       /\ ctrl_m.field_matches = [i \in 1 .. n |-> fields[i]]
       /\ ctrl_m.action_name = name
       /\ ctrl_m.action_params = [i \in 1 .. p |-> params[i]]
  BY <1>1, <1>8, <1>9, <1>10, <1>11
  DEF P4_MAX_NUMBER_OF_FIELD_MATCHES, P4_MAX_NUMBER_OF_ACTION_PARAMETERS
<1> QED
  BY <1>13 DEF m, d, b

(* handle_p4_set_default_action finds the action and its parameters.       *)
LEMMA DefaultRead ==
  ASSUME NEW t, NEW l, NEW p \in Nat, p <= 10, NEW name, NEW params
  PROVE  LET m == msg("setdefault", t, 0, l,
                      converted(defaultBuffer(name, params, p)))
             ctrl_m == handle_p4_set_default_action(m)
         IN  /\ ctrl_m.rval = 0 /\ ctrl_m.type = "setdefault"
             /\ ctrl_m.table_name = t /\ ctrl_m.action_name = name
             /\ ctrl_m.action_params = [i \in 1 .. p |-> params[i]]
<1> DEFINE b == defaultBuffer(name, params, p)
           d == converted(b)
           m == msg("setdefault", t, 0, l, d)
<1>1. m.type = "setdefault" /\ m.table_name = t /\ m.buffer = d
  BY DEF msg
<1>2. d[136] = action(name, p)
  <2>1. 136 \in DOMAIN b /\ b[136] = action(name, p)
    BY DefaultFound
  <2> HIDE DEF b
  <2> QED
    BY <2>1, ActionConverted
<1>3. \A j \in 1 .. p : d[paramAt(268, j)] = param(params[j])
  <2>1. \A j \in 1 .. p : /\ paramAt(268, j) \in DOMAIN b
                          /\ b[paramAt(268, j)] = param(params[j])
    BY DefaultFound
  <2> HIDE DEF b
  <2> QED
    BY <2>1, ActionConverted
<1> HIDE DEF m, d
<1>4. d[136].param_size = p /\ d[136].name = name
  BY <1>2 DEF action
<1>5. action_params(m, size_of.set_default_action, p) = [i \in 1 .. p |-> params[i]]
  <2>1. \A i \in 1 .. p :
          size_of.set_default_action + (i - 1) * size_of.action_parameter
            = paramAt(268, i)
    BY DEF paramAt, size_of
  <2>2. \A i \in 1 .. p : d[paramAt(268, i)].bitmap = params[i]
    <3>1. \A x : param(x).bitmap = x
      BY DEF param
    <3> QED
      BY <1>3, <3>1
  <2> QED
    BY <1>1, <2>1, <2>2 DEF action_params
<1> QED
  BY <1>1, <1>4, <1>5
  DEF handle_p4_set_default_action, default_action,
      P4_MAX_NUMBER_OF_ACTION_PARAMETERS, m, d

-----------------------------------------------------------------------------
(* What a message does.                                                    *)

(* Turning a sequence round twice gives it back.                           *)
LEMMA ReverseTwice ==
  ASSUME NEW S, NEW s \in Seq(S)
  PROVE  Reverse(Reverse(s)) = s
<1> DEFINE n == Len(s)
           r == Reverse(s)
<1>1. n \in Nat /\ s \in [1 .. n -> S]
  BY LenProperties
<1>2. r = [i \in 1 .. n |-> s[(n - i) + 1]]
  BY DEF Reverse
<1>3. \A i \in 1 .. n : (n - i) + 1 \in 1 .. n /\ (n - ((n - i) + 1)) + 1 = i
  BY <1>1
<1>4. r \in [1 .. n -> S]
  BY <1>1, <1>2, <1>3
<1>5. r \in Seq(S) /\ Len(r) = n
  BY <1>1, <1>4
<1>6. Reverse(r) = [i \in 1 .. n |-> r[(n - i) + 1]]
  BY <1>5 DEF Reverse
<1> HIDE DEF r, n
<1>7. Reverse(r) = [i \in 1 .. n |-> s[i]]
  BY <1>2, <1>3, <1>6
<1> QED
  BY <1>1, <1>7 DEF r

(* The parameters of a value, taken by their places, make the value again. *)
LEMMA ParamsOfValue ==
  ASSUME NEW c, request(c)
  PROVE  LET params == params_of(c.value)
         IN  /\ Len(params) \in 0 .. 3
             /\ \A ctrl_m :
                  /\ ctrl_m.action_name = c.value.action
                  /\ ctrl_m.action_params = [i \in 1 .. Len(params) |-> params[i]]
                  => action_of(ctrl_m) = c.value
<1> DEFINE v == c.value
<1>1. v = CASE v.action = "forward"  -> [action |-> "forward", port |-> v.port]
            [] v.action = "set_nhop" ->
                 [action |-> "set_nhop", smac |-> v.smac, dmac |-> v.dmac,
                  vid |-> v.vid]
            [] OTHER -> [action |-> v.action]
  BY DEF request
<1> HIDE DEF v
<1>2. CASE v.action = "forward"
  <2>1. params_of(v) = <<v.port>>
    BY <1>2 DEF params_of
  <2>2. Len(<<v.port>>) = 1 /\ <<v.port>>[1] = v.port
    OBVIOUS
  <2>3. v = [action |-> "forward", port |-> v.port]
    BY <1>1, <1>2
  <2>4. ASSUME NEW ctrl_m, ctrl_m.action_name = v.action,
               ctrl_m.action_params = [i \in 1 .. 1 |-> <<v.port>>[i]]
        PROVE  action_of(ctrl_m) = v
    <3>1. ctrl_m.action_params[1] = v.port
      BY <2>2, <2>4
    <3> QED
      BY <1>2, <2>3, <2>4, <3>1 DEF action_of
  <2> QED
    BY <2>1, <2>2, <2>4 DEF v
<1>3. CASE v.action = "set_nhop"
  <2> DEFINE s == <<v.smac, v.dmac, v.vid>>
  <2>1. params_of(v) = s
    BY <1>3 DEF params_of
  <2>2. Len(s) = 3 /\ s[1] = v.smac /\ s[2] = v.dmac /\ s[3] = v.vid
    OBVIOUS
  <2>3. v = [action |-> "set_nhop", smac |-> v.smac, dmac |-> v.dmac,
             vid |-> v.vid]
    BY <1>1, <1>3
  <2> HIDE DEF s
  <2>4. ASSUME NEW ctrl_m, ctrl_m.action_name = v.action,
               ctrl_m.action_params = [i \in 1 .. 3 |-> s[i]]
        PROVE  action_of(ctrl_m) = v
    <3>1. /\ ctrl_m.action_params[1] = v.smac
          /\ ctrl_m.action_params[2] = v.dmac
          /\ ctrl_m.action_params[3] = v.vid
      BY <2>2, <2>4
    <3> QED
      BY <1>3, <2>3, <2>4, <3>1 DEF action_of
  <2> QED
    BY <2>1, <2>2, <2>4 DEF v
<1>4. CASE v.action \notin {"forward", "set_nhop"}
  <2>1. params_of(v) = << >> /\ Len(<< >>) = 0
    BY <1>4 DEF params_of
  <2>2. v = [action |-> v.action]
    BY <1>1, <1>4
  <2>3. ASSUME NEW ctrl_m, ctrl_m.action_name = v.action
        PROVE  action_of(ctrl_m) = v
    BY <1>4, <2>2, <2>3 DEF action_of
  <2> QED
    BY <2>1, <2>3 DEF v
<1> QED
  BY <1>2, <1>3, <1>4

(* The fields of a key, taken by their places, make the key again.         *)
LEMMA FieldsOfKey ==
  ASSUME NEW c, request(c), c.fun = "add"
  PROVE  LET fields == fields_of(c)
         IN  /\ Len(fields) \in 0 .. 10
             /\ \A j \in 1 .. Len(fields) : readable(fields[j])
             /\ \A ctrl_m :
                  /\ ctrl_m.table_name = c.table
                  /\ ctrl_m.field_matches = [i \in 1 .. Len(fields) |-> fields[i]]
                  => key_of(ctrl_m) = asked(c)
<1>1. CASE c.table = "routing"
  <2> DEFINE bytes == c.key[1]
             depth == c.key[2]
             field == [kind |-> "lpm", bitmap |-> bytes, prefix_length |-> depth]
  <2>1. bytes \in Seq(0 .. 255) /\ depth \in Nat /\ depth < 256
    <3>1. c.key[1] \in Seq(0 .. 255) /\ c.key[2] \in 0 .. 255
      BY <1>1, SMT DEF request
    <3> HIDE DEF bytes, depth
    <3>2. bytes = c.key[1] /\ depth = c.key[2]
      BY DEF bytes, depth
    <3>3. \A k \in 0 .. 255 : k \in Nat /\ k < 256
      BY SMT
    <3> QED
      BY <3>1, <3>2, <3>3
  <2>2. fields_of(c) = <<field>>
    BY <1>1 DEF fields_of
  <2>3. Len(<<field>>) = 1 /\ <<field>>[1] = field
    OBVIOUS
  <2>4. readable(field)
    <3> HIDE DEF bytes, depth
    <3> QED
      BY <2>1 DEF readable
  <2>5. asked(c) = SubSeq(bytes, 1, depth \div 8)
    BY <1>1 DEF asked
  <2>6. field.bitmap = bytes /\ field.prefix_length = depth
    OBVIOUS
  <2>7. Reverse(Reverse(bytes)) = bytes
    BY <2>1, ReverseTwice
  <2>8. depth % 256 = depth
    <3> HIDE DEF depth
    <3> QED
      BY <2>1, SMT
  <2> HIDE DEF field, bytes, depth
  <2>9. ASSUME NEW ctrl_m, ctrl_m.table_name = c.table,
               ctrl_m.field_matches = [i \in 1 .. 1 |-> <<field>>[i]]
        PROVE  key_of(ctrl_m) = asked(c)
    <3>1. ctrl_m.field_matches[1] = field
      BY <2>3, <2>9
    <3>2. key_of(ctrl_m) = lpm_rule(Reverse(bytes), depth)
      BY <1>1, <2>6, <2>8, <2>9, <3>1 DEF key_of
    <3> QED
      BY <2>5, <2>7, <3>2 DEF lpm_rule
  <2> QED
    BY <2>2, <2>3, <2>4, <2>9
<1>2. CASE c.table # "routing"
  <2> DEFINE key == c.key
  <2>1. PICK n \in 0 .. 10 : key = [i \in 1 .. n |-> key[i]]
    BY <1>2 DEF request, P4_MAX_NUMBER_OF_FIELD_MATCHES
  <2> DEFINE fields == [i \in 1 .. n |-> [kind |-> "exact", bitmap |-> key[i]]]
  <2> HIDE DEF key
  <2>2. fields_of(c) = fields
    <3>1. DOMAIN key = 1 .. n
      BY <2>1
    <3> QED
      BY <1>2, <3>1 DEF fields_of, key
  <2>3. Len(fields) = n
    <3> DEFINE T == {[kind |-> "exact", bitmap |-> key[i]] : i \in 1 .. n}
    <3>1. fields \in [1 .. n -> T] /\ n \in Nat
      OBVIOUS
    <3> HIDE DEF fields, T
    <3> QED
      BY <3>1
  <2>4. asked(c) = key
    BY <1>2 DEF asked, key
  <2>5. \A j \in 1 .. n : fields[j].kind = "exact" /\ fields[j].bitmap = key[j]
    OBVIOUS
  <2> HIDE DEF fields
  <2>6. ASSUME NEW ctrl_m, ctrl_m.table_name = c.table,
               ctrl_m.field_matches = [i \in 1 .. n |-> fields[i]]
        PROVE  key_of(ctrl_m) = asked(c)
    <3> DEFINE found == ctrl_m.field_matches
    <3>1. found = [i \in 1 .. n |-> fields[i]] /\ ctrl_m.table_name # "routing"
      BY <1>2, <2>6
    <3>2. key_of(ctrl_m) = [i \in DOMAIN found |-> found[i].bitmap]
      BY <3>1 DEF key_of
    <3> HIDE DEF found
    <3>3. [i \in DOMAIN found |-> found[i].bitmap] = [i \in 1 .. n |-> key[i]]
      BY <2>5, <3>1
    <3> QED
      BY <2>1, <2>4, <3>2, <3>3
  <2> QED
    BY <2>2, <2>3, <2>5, <2>6 DEF readable
<1> QED
  BY <1>1, <1>2

(* The message for a request changes the table as asked.  Its length fits  *)
(* the sixteen bits of the header and the cell it travels in.              *)
LEMMA MessageHandled ==
  ASSUME NEW state, NEW c, request(c)
  PROVE  handle_p4_msg(state, message(c)) =
           IF ~known(c) THEN state
           ELSE IF c.fun = "add"
           THEN [state EXCEPT ![c.table] = add(@, asked(c), c.value)]
           ELSE [state EXCEPT ![c.table] = setdefault(@, c.value)]
<1> DEFINE t == c.table
           name == c.value.action
           params == params_of(c.value)
           p == Len(params)
<1>1. p \in Nat /\ p <= 3
  <2>1. p \in 0 .. 3
    BY ParamsOfValue
  <2> HIDE DEF p
  <2> QED
    BY <2>1
<1>2. \A ctrl_m : /\ ctrl_m.action_name = name
                  /\ ctrl_m.action_params = [i \in 1 .. p |-> params[i]]
                  => action_of(ctrl_m) = c.value
  BY ParamsOfValue
<1>3. CASE c.fun = "add"
  <2> DEFINE fields == fields_of(c)
             n == Len(fields)
             l == paramAt(fieldAt(n + 1) + 130, p + 1)
             d == converted(entryBuffer(fields, n, name, params, p))
             m == msg("add", t, n, l, d)
             ctrl_m == handle_p4_add_table_entry(m)
  <2>1. n \in Nat /\ n <= 10
    <3>1. n \in 0 .. 10
      BY <1>3, FieldsOfKey
    <3> HIDE DEF n
    <3> QED
      BY <3>1
  <2>2. \A j \in 1 .. n : readable(fields[j])
    BY <1>3, FieldsOfKey
  <2>3. l \in Nat /\ l <= 2048
    <3>1. 140 + n * 388 + 130 + p * 260 <= 2048
      BY <1>3, SMT DEF request, size_of, P4_BG_MEM_CELL_SIZE
    <3> HIDE DEF n, p
    <3> QED
      BY <1>1, <2>1, <3>1, SMT DEF paramAt, fieldAt
  <2>4. htons(htons(l)) = l
    <3> HIDE DEF l
    <3>1. l < 65536
      BY <2>3, SMT
    <3> QED
      BY <2>3, <3>1, HtonsTwice
  <2>5. message(c) = msg("add", t, n, htons(l), d)
    <3>1. \A j \in 1 .. n : fields[j].kind \in {"exact", "lpm"}
      <4>1. \A x : readable(x) => x.kind \in {"exact", "lpm"}
        BY DEF readable
      <4> HIDE DEF n, fields
      <4> QED
        BY <2>2, <4>1
    <3>2. message(c) = fill_table(c)
      BY <1>3 DEF message
    <3> QED
      BY <1>1, <2>1, <3>1, <3>2, EntryWritten
  <2>6. /\ ctrl_m.rval = 0 /\ ctrl_m.type = "add" /\ ctrl_m.table_name = t
        /\ ctrl_m.field_matches = [i \in 1 .. n |-> fields[i]]
        /\ ctrl_m.action_name = name
        /\ ctrl_m.action_params = [i \in 1 .. p |-> params[i]]
    <3>1. p <= 10
      BY <1>1
    <3> HIDE DEF n, p, fields, params, name, t, l
    <3> QED
      BY <1>1, <2>1, <2>2, <3>1, EntryRead
  <2>7. netconv_p4_header(message(c)) = m
    BY <2>4, <2>5, HeaderConverted
  <2>8. m.type = "add" /\ m.length = l
    BY DEF msg
  <2> HIDE DEF m
  <2>9. handle_p4_msg(state, message(c)) =
          IF m.length > P4_BG_MEM_CELL_SIZE \/ ctrl_m.rval < 0 THEN state
          ELSE recv_from_controller(state, ctrl_m)
    BY <2>7, <2>8 DEF handle_p4_msg
  <2> HIDE DEF ctrl_m
  <2>10. handle_p4_msg(state, message(c)) = recv_from_controller(state, ctrl_m)
    BY <2>3, <2>6, <2>8, <2>9 DEF P4_BG_MEM_CELL_SIZE
  <2>11. action_of(ctrl_m) = c.value
    BY <1>2, <2>6
  <2>12. key_of(ctrl_m) = asked(c)
    BY <1>3, <2>6, FieldsOfKey
  <2> QED
    BY <1>3, <2>6, <2>10, <2>11, <2>12 DEF recv_from_controller, known
<1>4. CASE c.fun = "setdefault"
  <2> DEFINE l == paramAt(268, p + 1)
             d == converted(defaultBuffer(name, params, p))
             m == msg("setdefault", t, 0, l, d)
             ctrl_m == handle_p4_set_default_action(m)
  <2>1. l \in Nat /\ l <= 2048
    <3> HIDE DEF p
    <3> QED
      BY <1>1, SMT DEF paramAt
  <2>2. htons(htons(l)) = l
    <3> HIDE DEF l
    <3>1. l < 65536
      BY <2>1, SMT
    <3> QED
      BY <2>1, <3>1, HtonsTwice
  <2>3. message(c) = msg("setdefault", t, 0, htons(l), d)
    <3>1. message(c) = set_default(c)
      BY <1>4 DEF message
    <3> QED
      BY <1>1, <3>1, DefaultWritten
  <2>4. /\ ctrl_m.rval = 0 /\ ctrl_m.type = "setdefault"
        /\ ctrl_m.table_name = t /\ ctrl_m.action_name = name
        /\ ctrl_m.action_params = [i \in 1 .. p |-> params[i]]
    <3>1. p <= 10
      BY <1>1
    <3> HIDE DEF p, params, name, t, l
    <3> QED
      BY <1>1, <3>1, DefaultRead
  <2>5. netconv_p4_header(message(c)) = m
    BY <2>2, <2>3, HeaderConverted
  <2>6. m.type = "setdefault" /\ m.length = l
    BY DEF msg
  <2> HIDE DEF m
  <2>7. handle_p4_msg(state, message(c)) =
          IF m.length > P4_BG_MEM_CELL_SIZE \/ ctrl_m.rval < 0 THEN state
          ELSE recv_from_controller(state, ctrl_m)
    BY <2>5, <2>6 DEF handle_p4_msg
  <2> HIDE DEF ctrl_m
  <2>8. handle_p4_msg(state, message(c)) = recv_from_controller(state, ctrl_m)
    BY <2>1, <2>4, <2>6, <2>7 DEF P4_BG_MEM_CELL_SIZE
  <2>9. action_of(ctrl_m) = c.value
    BY <1>2, <2>4
  <2> QED
    BY <1>4, <2>4, <2>8, <2>9 DEF recv_from_controller, known
<1> QED
  BY <1>3, <1>4 DEF request

(* Whatever messages the controller sends, and however they interleave     *)
(* with the lcore, each changes the one entry or default action it asks    *)
(* for: for all keys of up to ten fields, all parameters and prefixes, the *)
(* switch finds the structs where the controller put them and undoes its   *)
(* conversions.                                                            *)
THEOREM MessagesFollowed == Spec => []TablesFollowMessages
<1> DEFINE changed(c, before) ==
             IF ~known(c) THEN before
             ELSE IF c.fun = "add"
             THEN [before EXCEPT ![c.table] = add(@, asked(c), c.value)]
             ELSE [before EXCEPT ![c.table] = setdefault(@, c.value)]
<1>1. Init => TablesFollowMessages
  <2> SUFFICES ASSUME Init PROVE TablesFollowMessages
    OBVIOUS
  <2>1. DOMAIN handled = {}
    BY EmptySeq DEF Init
  <2> QED
    BY <2>1 DEF TablesFollowMessages
<1>2. ASSUME Inv, TablesFollowMessages, [Next]_vars
      PROVE  TablesFollowMessages'
  <2>0. /\ isSeq(tables) /\ isSeq(handled) /\ Len(tables) = Len(handled) + 1
    BY <1>2 DEF Inv, Records
  <2>1. CASE UNCHANGED tblvars
    BY <1>2, <2>1 DEF tblvars, TablesFollowMessages
  <2>2. CASE change_table
    <3>1. PICK c \in Changes :
            /\ tables' = Append(tables, handle_p4_msg(now, message(c)))
            /\ handled' = Append(handled, c)
      BY <2>2 DEF change_table
    <3> DEFINE k == Len(handled)
               state == handle_p4_msg(now, message(c))
    <3> HIDE DEF state
    <3>2. /\ k \in Nat /\ DOMAIN handled = 1 .. k
          /\ DOMAIN handled' = 1 .. k + 1 /\ handled'[k + 1] = c
          /\ \A n \in 1 .. k : handled'[n] = handled[n]
      BY <2>0, <3>1, SeqOfAny, AppendAny
    <3>3. /\ tables'[k + 2] = state
          /\ \A n \in 1 .. k + 1 : tables'[n] = tables[n]
      <4>1. /\ tables' = Append(tables, state) /\ Len(tables) = k + 1
        BY <2>0, <3>1 DEF state
      <4>2. Len(tables) + 1 = k + 2
        BY <3>2, <4>1
      <4> QED
        BY <2>0, <4>1, <4>2, AppendAny
    <3>4. tables'[k + 1] = now
      BY <2>0, <3>2, <3>3 DEF now
    <3>5. state = changed(c, now)
      BY ChangesAssumption, MessageHandled DEF state
    <3>6. ASSUME NEW n \in 1 .. k
          PROVE  tables'[n + 1] = changed(handled'[n], tables'[n])
      <4>1. /\ handled'[n] = handled[n] /\ tables'[n] = tables[n]
            /\ tables'[n + 1] = tables[n + 1]
        BY <3>2, <3>3
      <4>2. tables[n + 1] = changed(handled[n], tables[n])
        BY <1>2, <3>2 DEF TablesFollowMessages
      <4> HIDE DEF changed, k
      <4> QED
        BY <4>1, <4>2
    <3>7. tables'[k + 1 + 1] = changed(handled'[k + 1], tables'[k + 1])
      <4>1. k + 1 + 1 = k + 2
        BY <3>2
      <4> HIDE DEF changed, k
      <4> QED
        BY <3>2, <3>3, <3>4, <3>5, <4>1
    <3>8. \A n \in 1 .. k + 1 : tables'[n + 1] = changed(handled'[n], tables'[n])
      <4> HIDE DEF changed, k
      <4> QED
        BY <3>2, <3>6, <3>7
    <3>9. \A n \in DOMAIN handled' :
            tables'[n + 1] = changed(handled'[n], tables'[n])
      <4> HIDE DEF changed, k
      <4> QED
        BY <3>2, <3>8
    <3> QED
      BY ONLY <3>9, Zenon DEF TablesFollowMessages
  <2>3. CASE MainLoop \/ tick
    BY <2>1, <2>3
    DEF MainLoop, no_drain, tx_drain, rx_done, nothing_received, rx_burst,
        apply_table_routable, apply_table_routing, apply_table_switching,
        update_packet, buffer_packet, buffer_full, send_packets_returns, tick
  <2>4. CASE UNCHANGED vars
    BY <2>1, <2>4 DEF vars
  <2> QED
    BY <1>2, <2>2, <2>3, <2>4 DEF Next
<1> QED
  BY <1>1, <1>2, InvCorrect, PTL DEF Spec
=============================================================================
