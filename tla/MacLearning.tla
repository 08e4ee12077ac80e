----------------------------- MODULE MacLearning -----------------------------
(***************************************************************************)
(* The learning switch: the pipeline of examples/l2_switch_test.p4 on the  *)
(* lcores, and the controller that run.sh:10 gives it (dpdk_controller.c). *)
(* A packet from an unknown source makes a digest (mac_learn); the         *)
(* controller answers it with an entry for dmac and one for smac; a packet *)
(* to a destination that dmac has goes to its port, any other is broadcast.*)
(*                                                                         *)
(* Between the two programs is one sequence for each direction: what is in *)
(* the cells and queues of the switch (CtrlPlaneBackend) or the socket.    *)
(* The controller has its two queues: nothing waits for room in them, what *)
(* finds one full is dropped (Controller has the threads).  When the       *)
(* connection breaks, the newest part of what is on its way is lost, and   *)
(* the switch is on its own: of what the controller goes on to do, nothing *)
(* reaches it.  A table is changed in one step (ReplicaTables).            *)
(*                                                                         *)
(* A digest is the sequence of the bytes its fields begin with that        *)
(* matter: an address is one value, a port its low and its high byte.      *)
(***************************************************************************)
EXTENDS Integers, Sequences

CONSTANTS Macs,          \* ethernet addresses
          Ports,         \* ports a packet can arrive on
          Lcores,        \* the lcores of the switch
          Traffic,       \* the packets <<source, destination, port>> on the
                         \* network
          Files,         \* files of addresses and ports for the controller
          MAX_MACS,      \* MAX_MACS
          Bcast,         \* the port the action bcast stands for, 100
          QueueSize,     \* P4_BG_QUEUE_SIZE of the controller
          MaxUnderWay,   \* bound: digests and messages that may be under way
                         \* when a packet arrives
          MaxTodo,       \* bound: messages init may still have to send then
          WireSize,      \* bound: messages between the controller's output
                         \* queue and the tables
          NONE           \* no entry, no port

\* A line of a file is well-formed if it has an address.
ASSUME LearningAssumption ==
  /\ Ports \subseteq 0 .. 255
  /\ Traffic \subseteq Macs \X Macs \X Ports
  /\ {MAX_MACS, QueueSize, WireSize} \subseteq Nat \ {0}
  /\ {MaxUnderWay, MaxTodo} \subseteq Nat
  /\ Bcast \notin Ports /\ NONE \notin Ports \cup Macs \cup {Bcast}
  /\ \A file \in Files :
       /\ file \in Seq([mac : Macs \cup {NONE}, port : Ports])

VARIABLES
  smac, smac_default,    \* the addresses in table smac, and its default action
  dmac, dmac_default,    \* per address, its port in table dmac
  pd,                    \* the packet of each lcore and its place in ingress
  to_controller,         \* digests on their way
  to_switch,             \* messages on their way
  input_queue, output_queue,   \* the controller's queues
  todo,                  \* what init of the controller has still to send
  fills,                 \* what mac_learn_digest has still to send
  connected,             \* the connection has not been broken
  file,                  \* the controller's argument
  seen,                  \* history: which address came in on which port
  dropped                \* history: the addresses an entry of dmac was
                         \* dropped for

tables  == <<smac, smac_default, dmac, dmac_default>>
queues  == <<input_queue, output_queue, dropped>>
program == <<todo, fills, queues>>
wires   == <<to_controller, to_switch, connected>>
vars    == <<tables, pd, wires, program, file, seen>>

-----------------------------------------------------------------------------
(* The controller's messages.                                              *)

entry(table, mac, port)    == [type |-> "add", table |-> table, mac |-> mac,
                               port |-> port]
default_of(table, action)  == [type |-> "default", table |-> table,
                               action |-> action]

fill_dmac_table(port, mac) == entry("dmac", mac, port)
fill_smac_table(port, mac) == entry("smac", mac, NONE)

set_default_action_smac == default_of("smac", "mac_learn")

\* Seeded bug: the action of the other table.
set_default_action_dmac_nop == default_of("dmac", "_nop")

set_default_action_dmac == default_of("dmac", "bcast")

\* The first MAX_MACS lines are kept; a wrong one up to where reading stops is
\* an error.
wrong_format(f) == \E i \in DOMAIN f : i <= MAX_MACS + 1 /\ f[i].mac = NONE
macs_read(f) == IF Len(f) > MAX_MACS THEN SubSeq(f, 1, MAX_MACS) ELSE f

\* What init sends: the defaults, and two messages for each line.
init_messages(f) ==
  LET lines == macs_read(f)
  IN  <<set_default_action_smac, set_default_action_dmac>> \o
      [j \in 1 .. 2 * Len(lines) |->
         LET line == lines[(j + 1) \div 2]
         IN  IF j % 2 = 1 THEN fill_dmac_table(line.port, line.mac)
                          ELSE fill_smac_table(line.port, line.mac)]

\* The bytes of a field are put behind the fields before it.
add_digest_field(d, bytes) == Append(d, bytes)

\* A digest's fields, in the order of field_list mac_learn_digest.
mac_learn_digest_fields(src, port) ==
  add_digest_field(add_digest_field(<<>>, <<src>>),
                   <<port % 256, port \div 256>>)

\* mac_learn_digest of the controller: the first field is the address, the
\* first byte of the second one the port.
\* Seeded bugs: the second byte; the tables in the other order; the entry of
\* smac forgotten.
mac_learn_digest_high_byte(d) == <<fill_dmac_table(d[2][2], d[1][1]),
                                   fill_smac_table(d[2][2], d[1][1])>>
mac_learn_digest_swapped(d)   == <<fill_smac_table(d[2][1], d[1][1]),
                                   fill_dmac_table(d[2][1], d[1][1])>>
mac_learn_digest_half(d)      == <<fill_dmac_table(d[2][1], d[1][1])>>

mac_learn_digest(d) == <<fill_dmac_table(d[2][1], d[1][1]),
                         fill_smac_table(d[2][1], d[1][1])>>

-----------------------------------------------------------------------------

idle == [pc |-> "idle", src |-> NONE, dst |-> NONE, ingress_port |-> NONE,
         egress_port |-> NONE, unready |-> FALSE]

\* A controller that cannot read its file ends before anyone connects.
Init ==
  /\ smac = {} /\ smac_default = "none"
  /\ dmac = [m \in Macs |-> NONE] /\ dmac_default = "none"
  /\ pd = [l \in Lcores |-> idle]
  /\ to_controller = <<>> /\ to_switch = <<>>
  /\ file \in Files
  /\ connected = ~ wrong_format(file)
  /\ todo = IF wrong_format(file) THEN <<>> ELSE init_messages(file)
  /\ fills = <<>>
  /\ input_queue = <<>> /\ output_queue = <<>>
  /\ seen = {} /\ dropped = {}

-----------------------------------------------------------------------------
(* The switch.                                                             *)

\* write_p4_msg on a broken connection loses the digest.
generate_digest(fields) ==
  to_controller' = IF connected THEN Append(to_controller, fields)
                                ELSE to_controller

\* A packet arrives; the descriptor keeps the egress port it had.
receive(l, src, dst, port) ==
  /\ <<src, dst, port>> \in Traffic
  /\ pd[l].pc = "idle"
  /\ Len(todo) <= MaxTodo
  /\ Len(to_controller) + Len(input_queue) + Len(fills) + Len(output_queue)
        + Len(to_switch) < MaxUnderWay
  /\ pd' = [pd EXCEPT ![l] = [@ EXCEPT !.pc = "smac", !.src = src, !.dst = dst,
                                       !.ingress_port = port]]
  /\ seen' = seen \cup {<<src, port>>}
  /\ UNCHANGED <<tables, wires, program, file>>

\* apply(smac): an unknown source makes a digest if mac_learn is the default.
\* Nothing looks at the source after it.
apply_smac(l) ==
  /\ pd[l].pc = "smac"
  /\ pd' = [pd EXCEPT ![l] = [@ EXCEPT !.pc = "dmac", !.src = NONE,
                                       !.ingress_port = NONE]]
  /\ IF pd[l].src \notin smac /\ smac_default = "mac_learn"
     THEN generate_digest(mac_learn_digest_fields(pd[l].src,
                                                  pd[l].ingress_port))
     ELSE UNCHANGED to_controller
  /\ UNCHANGED <<tables, to_switch, connected, program, file, seen>>

\* apply(dmac): forward, bcast, or no action before the default is set.
apply_dmac(l) ==
  LET port == dmac[pd[l].dst]
  IN  /\ pd[l].pc = "dmac"
      /\ pd' = [pd EXCEPT ![l] =
           [@ EXCEPT !.pc = "send",
                     !.egress_port = IF port # NONE THEN port
                                     ELSE IF dmac_default = "bcast" THEN Bcast
                                     ELSE pd[l].egress_port,
                     !.unready = port = NONE /\ dmac_default = "none"]]
      /\ UNCHANGED <<tables, wires, program, file, seen>>

\* Of the packet only its egress port is looked at again.
send_packet(l) ==
  /\ pd[l].pc = "send"
  /\ pd' = [pd EXCEPT ![l] = [idle EXCEPT !.egress_port = pd[l].egress_port]]
  /\ UNCHANGED <<tables, wires, program, file, seen>>

\* A message of the controller reaches its table.
recv_from_controller ==
  /\ to_switch # <<>>
  /\ to_switch' = Tail(to_switch)
  /\ LET m == Head(to_switch)
     IN  \/ /\ m.type = "add" /\ m.table = "smac"
            /\ smac' = smac \cup {m.mac}
            /\ UNCHANGED <<smac_default, dmac, dmac_default>>
         \/ /\ m.type = "add" /\ m.table = "dmac"
            /\ dmac' = [dmac EXCEPT ![m.mac] = m.port]
            /\ UNCHANGED <<smac, smac_default, dmac_default>>
         \/ /\ m.type = "default" /\ m.table = "smac"
            /\ smac_default' = m.action
            /\ UNCHANGED <<smac, dmac, dmac_default>>
         \/ /\ m.type = "default" /\ m.table = "dmac"
            /\ dmac_default' = m.action
            /\ UNCHANGED <<smac, smac_default, dmac>>
  /\ UNCHANGED <<pd, to_controller, connected, program, file, seen>>

-----------------------------------------------------------------------------
(* The controller.                                                         *)

fifo_add_msg(q, m) == IF Len(q) < QueueSize THEN Append(q, m) ELSE q

\* Its callers are not told of a message that is dropped.
send_p4_msg(msg) ==
  /\ output_queue' = fifo_add_msg(output_queue, msg)
  /\ dropped' = dropped \cup
       {m \in Macs : /\ Len(output_queue) >= QueueSize
                     /\ \E port \in Ports : msg = fill_dmac_table(port, m)}

\* init, in the main thread.
init == /\ todo # <<>>
        /\ todo' = Tail(todo)
        /\ send_p4_msg(Head(todo))
        /\ UNCHANGED <<tables, pd, wires, fills, input_queue, file, seen>>

\* The main thread reads no digest before init returns.
main_reads == /\ todo = <<>> /\ to_controller # <<>>
              /\ to_controller' = Tail(to_controller)
              /\ input_queue' = fifo_add_msg(input_queue, Head(to_controller))
              /\ UNCHANGED <<tables, pd, to_switch, connected, todo, fills,
                             output_queue, dropped, file, seen>>

\* input_processor calls dhf with the oldest digest,
dhf == /\ fills = <<>> /\ input_queue # <<>>
       /\ input_queue' = Tail(input_queue)
       /\ fills' = mac_learn_digest(Head(input_queue))
       /\ UNCHANGED <<tables, pd, wires, todo, output_queue, dropped, file,
                      seen>>

\* which sends two messages.
dhf_sends == /\ fills # <<>>
             /\ fills' = Tail(fills)
             /\ send_p4_msg(Head(fills))
             /\ UNCHANGED <<tables, pd, wires, todo, input_queue, file, seen>>

output_processor ==
  /\ output_queue # <<>> /\ Len(to_switch) < WireSize
  /\ output_queue' = Tail(output_queue)
  /\ to_switch' = Append(to_switch, Head(output_queue))
  /\ UNCHANGED <<tables, pd, to_controller, connected, todo, fills,
                 input_queue, dropped, file, seen>>

\* The connection breaks, or the controller ends: whatever it has is lost.
disconnect ==
  /\ connected
  /\ connected' = FALSE
  /\ \E i \in 0 .. Len(to_switch) : to_switch' = SubSeq(to_switch, 1, i)
  /\ to_controller' = <<>>
  /\ todo' = <<>> /\ fills' = <<>>
  /\ input_queue' = <<>> /\ output_queue' = <<>>
  /\ UNCHANGED <<tables, pd, dropped, file, seen>>

ingress(l) == apply_smac(l) \/ apply_dmac(l) \/ send_packet(l)
handler    == dhf \/ dhf_sends

Next == \/ \E l \in Lcores, src, dst \in Macs, port \in Ports :
             receive(l, src, dst, port)
        \/ \E l \in Lcores : ingress(l)
        \/ recv_from_controller
        \/ init \/ main_reads \/ handler \/ output_processor
        \/ disconnect

Spec == Init /\ [][Next]_vars

arrives(src) == \E l \in Lcores, dst \in Macs, port \in Ports :
                   receive(l, src, dst, port)

\* The threads run, and every station goes on sending.
FairSpec == /\ Spec
            /\ \A l \in Lcores : WF_vars(ingress(l))
            /\ WF_vars(recv_from_controller)
            /\ WF_vars(init) /\ WF_vars(main_reads)
            /\ WF_vars(handler) /\ WF_vars(output_processor)
            /\ \A packet \in Traffic : SF_vars(arrives(packet[1]))

-----------------------------------------------------------------------------
(* Properties                                                              *)

listed   == {<<file[i].mac, file[i].port>> : i \in DOMAIN file}
Digests  == {mac_learn_digest_fields(m, p) : m \in Macs, p \in Ports}
Messages == {entry("dmac", m, p) : m \in Macs, p \in Ports}
            \cup {entry("smac", m, NONE) : m \in Macs}
            \cup {set_default_action_smac, set_default_action_dmac}

(* Type invariant: what the tables, the packets and the wires can hold.    *)
TypeOK ==
  /\ smac \subseteq Macs
  /\ dmac \in [Macs -> Ports \cup {NONE}]
  /\ smac_default \in {"none", "mac_learn"}
  /\ dmac_default \in {"none", "bcast"}
  /\ pd \in [Lcores -> [pc : {"idle", "smac", "dmac", "send"},
                        src : Macs \cup {NONE}, dst : Macs \cup {NONE},
                        ingress_port : Ports \cup {NONE},
                        egress_port : Ports \cup {NONE, Bcast},
                        unready : BOOLEAN]]
  /\ to_switch \in Seq(Messages) /\ todo \in Seq(Messages)
  /\ fills \in Seq(Messages) /\ output_queue \in Seq(Messages)
  /\ to_controller \in Seq(Digests) /\ input_queue \in Seq(Digests)
  /\ connected \in BOOLEAN
  /\ seen \subseteq Macs \X Ports /\ dropped \subseteq Macs

(* A source that the switch takes for known is a destination it can        *)
(* forward to, unless a message that was to make it one met a full queue:  *)
(* nothing else puts an address in smac alone, at whatever moment the      *)
(* connection breaks.  The switch never asks again about such an address   *)
(* and broadcasts to its station for ever.                                 *)
SourcesAreDestinations == \A m \in smac : dmac[m] # NONE \/ m \in dropped

(* A port in dmac is one where a packet from that address came in, or the  *)
(* controller's file has it: the address and the port of a digest survive  *)
(* their way through the fields of the digest and back into a table, with  *)
(* several lcores learning at once.                                        *)
LearnedWhereSeen ==
  \A m \in Macs : dmac[m] # NONE => <<m, dmac[m]>> \in seen \cup listed

(* A packet leaves for a port where its destination has been or is listed, *)
(* or is broadcast, unless it looked up before the controller had set a    *)
(* default: then it follows the packet before it in its descriptor.        *)
EgressIsForDestination ==
  \A l \in Lcores : pd[l].pc = "send" =>
    \/ pd[l].egress_port = Bcast
    \/ <<pd[l].dst, pd[l].egress_port>> \in seen \cup listed
    \/ pd[l].unready

(* While the connection lasts, a station that goes on sending is learned   *)
(* for good, and digests about it come to an end, as many lcores as see    *)
(* it, whatever packets pass before its entries are in the tables, and     *)
(* although answers about it may be dropped, unless the controller's       *)
(* output queue is full again and again.                                   *)
AddressIsLearned ==
  LET about(m) == \E q \in {to_controller, input_queue} :
                     \E i \in DOMAIN q : q[i][1] = <<m>>
  IN  \/ <>[](~ connected) \/ []<>(Len(output_queue) = QueueSize)
      \/ \A m \in {packet[1] : packet \in Traffic} :
           <>[](m \in smac /\ ~ about(m))
=============================================================================
