-------------------------- MODULE MacLearning_proofs --------------------------
(***************************************************************************)
(* Proofs about the learning switch, for any number of lcores, stations,   *)
(* ports and files and any sizes of queues: types, that known sources are  *)
(* destinations unless a queue was full, and that ports are learned where  *)
(* addresses were seen.                                                    *)
(***************************************************************************)
EXTENDS MacLearning, SequenceTheorems, TLAPS

(***************************************************************************)
(* Operators of the model.                                                 *)
(***************************************************************************)

(* What mac_learn_digest reads from a digest is what the switch put there: *)
(* the port is below 256, so that its first byte is all of it.             *)
LEMMA DigestFields ==
  ASSUME NEW m \in Macs, NEW p \in Ports
  PROVE  /\ mac_learn_digest_fields(m, p)[1][1] = m
         /\ mac_learn_digest_fields(m, p)[2][1] = p
<1> DEFINE S == {<<m>>, <<p % 256, p \div 256>>}
<1>1. p % 256 = p
  BY LearningAssumption DEF LearningAssumption
<1>2. <<>> \in Seq(S)
  OBVIOUS
<1>3. /\ add_digest_field(<<>>, <<m>>) \in Seq(S)
      /\ Len(add_digest_field(<<>>, <<m>>)) = 1
      /\ add_digest_field(<<>>, <<m>>)[1] = <<m>>
  BY <1>2 DEF add_digest_field
<1>4. /\ mac_learn_digest_fields(m, p)[1] = <<m>>
      /\ mac_learn_digest_fields(m, p)[2] = <<p % 256, p \div 256>>
  BY <1>3 DEF add_digest_field, mac_learn_digest_fields
<1> QED BY <1>1, <1>4

(* The two messages that answer a digest.                                  *)
LEMMA Answer ==
  ASSUME NEW m \in Macs, NEW p \in Ports
  PROVE  mac_learn_digest(mac_learn_digest_fields(m, p))
           = <<entry("dmac", m, p), entry("smac", m, NONE)>>
BY DigestFields DEF mac_learn_digest, fill_dmac_table, fill_smac_table

(***************************************************************************)
(* What init sends.                                                        *)
(***************************************************************************)

(* The lines that are kept have an address and are in the file.            *)
LEMMA LinesRead ==
  ASSUME NEW f \in Files, ~ wrong_format(f), NEW i \in DOMAIN macs_read(f)
  PROVE  /\ macs_read(f)[i] = f[i] /\ i \in DOMAIN f
         /\ f[i].mac \in Macs /\ f[i].port \in Ports
<1> DEFINE Lines == [mac : Macs \cup {NONE}, port : Ports]
<1>1. f \in Seq(Lines) /\ MAX_MACS \in Nat
  BY LearningAssumption DEF LearningAssumption
<1> HIDE DEF Lines
<1>2. macs_read(f)[i] = f[i] /\ i \in DOMAIN f /\ i <= MAX_MACS
  BY <1>1 DEF macs_read
<1>3. f[i] \in Lines
  BY <1>1, <1>2
<1> USE DEF Lines
<1>4. f[i].mac # NONE
  BY <1>1, <1>2 DEF wrong_format
<1> QED BY <1>2, <1>3, <1>4

(* The messages of init: two defaults, and for each line its entry of dmac *)
(* right before its entry of smac.                                         *)
LEMMA InitMessages ==
  ASSUME NEW f \in Files, ~ wrong_format(f)
  PROVE  LET q == init_messages(f)
         IN  /\ q \in Seq(Messages)
             /\ \A i \in DOMAIN q :
                  \/ q[i] \in {set_default_action_smac, set_default_action_dmac}
                  \/ \E k \in DOMAIN f :
                       /\ f[k].mac \in Macs /\ f[k].port \in Ports
                       /\ \/ q[i] = entry("dmac", f[k].mac, f[k].port)
                          \/ /\ q[i] = entry("smac", f[k].mac, NONE)
                             /\ i - 1 \in DOMAIN q
                             /\ q[i - 1] = entry("dmac", f[k].mac, f[k].port)
<1> DEFINE lines == macs_read(f)
           n == 2 * Len(lines)
           fill(j) == LET line == lines[(j + 1) \div 2]
                      IN  IF j % 2 = 1 THEN fill_dmac_table(line.port, line.mac)
                                       ELSE fill_smac_table(line.port, line.mac)
           tail == [j \in 1 .. n |-> fill(j)]
           two == <<set_default_action_smac, set_default_action_dmac>>
           q == two \o tail
<1>0. init_messages(f) = q
  BY DEF init_messages
<1>1. lines \in Seq([mac : Macs \cup {NONE}, port : Ports])
  <2> DEFINE Lines == [mac : Macs \cup {NONE}, port : Ports]
  <2>1. f \in Seq(Lines) /\ MAX_MACS \in Nat
    BY LearningAssumption DEF LearningAssumption
  <2> HIDE DEF Lines
  <2>2. macs_read(f) \in Seq(Lines)
    BY <2>1 DEF macs_read
  <2> QED BY <2>2 DEF Lines
<1>2. n \in Nat
  BY <1>1
<1>3. ASSUME NEW j \in 1 .. n
      PROVE  /\ (j + 1) \div 2 \in 1 .. Len(lines)
             /\ j % 2 # 1 => j - 1 \in 1 .. n /\ (j - 1) % 2 = 1
                              /\ j \div 2 = (j + 1) \div 2
  BY <1>1
<1> DEFINE k(j) == (j + 1) \div 2
<1>4. ASSUME NEW j \in 1 .. n
      PROVE  /\ k(j) \in DOMAIN f
             /\ f[k(j)].mac \in Macs /\ f[k(j)].port \in Ports
             /\ \/ fill(j) = entry("dmac", f[k(j)].mac, f[k(j)].port)
                \/ /\ fill(j) = entry("smac", f[k(j)].mac, NONE)
                   /\ j - 1 \in 1 .. n
                   /\ fill(j - 1) = entry("dmac", f[k(j)].mac, f[k(j)].port)
  <2>1. k(j) \in DOMAIN lines
    BY <1>1, <1>3
  <2>2. /\ lines[k(j)] = f[k(j)] /\ k(j) \in DOMAIN f
        /\ f[k(j)].mac \in Macs /\ f[k(j)].port \in Ports
    BY <2>1, LinesRead
  <2>3. CASE j % 2 = 1
    BY <2>2, <2>3 DEF fill_dmac_table
  <2>4. CASE j % 2 # 1
    <3>1. /\ j - 1 \in 1 .. n /\ (j - 1) % 2 = 1
          /\ k(j - 1) = k(j)
      BY <1>3, <2>4
    <3>2. fill(j - 1) = entry("dmac", f[k(j)].mac, f[k(j)].port)
      BY <2>2, <3>1 DEF fill_dmac_table
    <3>3. fill(j) = entry("smac", f[k(j)].mac, NONE)
      BY <2>2, <2>4 DEF fill_smac_table
    <3> QED BY <2>2, <3>1, <3>2, <3>3
  <2> QED BY <2>3, <2>4
<1> HIDE DEF fill, k
<1>5. /\ Len(tail) = n /\ tail \in Seq(Messages)
      /\ \A j \in 1 .. n : tail[j] = fill(j)
  <2>1. \A j \in 1 .. n : fill(j) \in Messages
    BY <1>4 DEF Messages
  <2> QED BY <1>2, <2>1
<1>6. /\ two \in Seq(Messages) /\ Len(two) = 2
      /\ two[1] = set_default_action_smac /\ two[2] = set_default_action_dmac
  BY DEF Messages
<1> HIDE DEF tail, two, n
<1>7. /\ q \in Seq(Messages) /\ Len(q) = 2 + n
      /\ q[1] = two[1] /\ q[2] = two[2]
      /\ \A i \in 3 .. 2 + n : q[i] = tail[i - 2]
  <2>1. /\ q \in Seq(Messages) /\ Len(q) = 2 + n
        /\ \A i \in 1 .. 2 + n :
              q[i] = IF i <= 2 THEN two[i] ELSE tail[i - 2]
    <3>1. /\ q \in Seq(Messages) /\ Len(q) = Len(two) + Len(tail)
          /\ \A i \in 1 .. Len(two) + Len(tail) :
                q[i] = IF i <= Len(two) THEN two[i] ELSE tail[i - Len(two)]
      BY <1>5, <1>6, ConcatProperties, Zenon
    <3> QED BY <1>5, <1>6, <3>1
  <2> HIDE DEF q
  <2> QED BY <1>2, <2>1
<1> HIDE DEF q, n
<1>8. ASSUME NEW i \in DOMAIN q
      PROVE  \/ q[i] \in {set_default_action_smac, set_default_action_dmac}
             \/ \E m \in DOMAIN f :
                  /\ f[m].mac \in Macs /\ f[m].port \in Ports
                  /\ \/ q[i] = entry("dmac", f[m].mac, f[m].port)
                     \/ /\ q[i] = entry("smac", f[m].mac, NONE)
                        /\ i - 1 \in DOMAIN q
                        /\ q[i - 1] = entry("dmac", f[m].mac, f[m].port)
  <2>1. DOMAIN q = 1 .. 2 + n
    BY <1>2, <1>7
  <2>2. CASE i \in {1, 2}
    BY <1>6, <1>7, <2>2
  <2>3. CASE i \notin {1, 2}
    <3>1. i - 2 \in 1 .. n /\ q[i] = fill(i - 2)
      BY <1>2, <1>5, <1>7, <2>1, <2>3
    <3>2. i - 2 - 1 \in 1 .. n => i - 1 \in DOMAIN q /\ q[i - 1] = fill(i - 2 - 1)
      BY <1>2, <1>5, <1>7, <2>1
    <3> QED BY <1>4, <3>1, <3>2
  <2> QED BY <2>2, <2>3
<1> QED BY <1>0, <1>7, <1>8

(***************************************************************************)
(* Types.                                                                  *)
(***************************************************************************)

(* What a queue holds after a call that adds to it is of its type.         *)
LEMMA AddedIsSeq ==
  ASSUME NEW S, NEW q \in Seq(S), NEW m \in S
  PROVE  Append(q, m) \in Seq(S) /\ fifo_add_msg(q, m) \in Seq(S)
BY DEF fifo_add_msg

(* So is what is left of a connection when it breaks,                      *)
LEMMA PrefixIsSeq ==
  ASSUME NEW S, NEW q \in Seq(S), NEW n \in 0 .. Len(q)
  PROVE  /\ SubSeq(q, 1, n) \in Seq(S) /\ Len(SubSeq(q, 1, n)) = n
         /\ \A i \in 1 .. n : SubSeq(q, 1, n)[i] = q[i]
OBVIOUS

(* what is left after a receive,                                           *)
LEMMA TailIsSeq ==
  ASSUME NEW S, NEW q \in Seq(S), q # <<>>
  PROVE  /\ Head(q) \in S /\ Head(q) = q[1] /\ Len(q) >= 1
         /\ Tail(q) \in Seq(S) /\ Len(Tail(q)) = Len(q) - 1
         /\ \A i \in 1 .. Len(q) - 1 : Tail(q)[i] = q[i + 1]
OBVIOUS

(* and what the controller answers to a digest.                            *)
LEMMA AnswerIsSeq ==
  ASSUME NEW m \in Macs, NEW p \in Ports
  PROVE  mac_learn_digest(mac_learn_digest_fields(m, p)) \in Seq(Messages)
<1> DEFINE d == entry("dmac", m, p)
           s == entry("smac", m, NONE)
<1>1. d \in Messages /\ s \in Messages
  BY DEF Messages
<1>2. mac_learn_digest(mac_learn_digest_fields(m, p)) = <<d, s>>
  BY Answer
<1> HIDE DEF d, s
<1>3. <<d, s>> \in Seq(Messages)
  BY <1>1
<1> QED BY <1>2, <1>3

\* What a packet and its place can be.
Descriptors == [pc : {"idle", "smac", "dmac", "send"},
                src : Macs \cup {NONE}, dst : Macs \cup {NONE},
                ingress_port : Ports \cup {NONE},
                egress_port : Ports \cup {NONE, Bcast},
                unready : BOOLEAN]

\* TypeOK and what a packet has at its place in ingress.
PacketInv ==
  \A l \in Lcores :
    /\ pd[l].pc = "smac" => pd[l].src \in Macs /\ pd[l].ingress_port \in Ports
    /\ pd[l].pc \in {"smac", "dmac"} => pd[l].dst \in Macs

TypeInv == TypeOK /\ PacketInv

(* The types before the first packet.                                      *)
LEMMA InitType == Init => TypeInv
<1> SUFFICES ASSUME Init PROVE TypeInv
  OBVIOUS
<1>1. idle \in Descriptors /\ idle.pc = "idle"
  BY DEF idle, Descriptors
<1>2. todo \in Seq(Messages)
  BY InitMessages DEF Init
<1> QED BY <1>1, <1>2 DEF Init, TypeInv, TypeOK, PacketInv, Descriptors

(* Each step keeps the types.                                              *)
LEMMA StepType == TypeInv /\ [Next]_vars => TypeInv'
<1> SUFFICES ASSUME TypeInv, [Next]_vars PROVE TypeInv'
  OBVIOUS
<1>0. /\ TypeOK /\ PacketInv
      /\ pd \in [Lcores -> Descriptors]
      /\ to_switch \in Seq(Messages) /\ todo \in Seq(Messages)
      /\ fills \in Seq(Messages) /\ output_queue \in Seq(Messages)
      /\ to_controller \in Seq(Digests) /\ input_queue \in Seq(Digests)
      /\ dropped \subseteq Macs
  BY DEF TypeInv, TypeOK, Descriptors
<1>1. ASSUME NEW l \in Lcores, NEW src \in Macs, NEW dst \in Macs,
             NEW port \in Ports, receive(l, src, dst, port)
      PROVE  TypeInv'
  <2>1. pd' \in [Lcores -> Descriptors] /\ PacketInv'
    <3>1. /\ pd' = [pd EXCEPT ![l] = pd'[l]] /\ pd'[l] \in Descriptors
          /\ pd'[l].src \in Macs /\ pd'[l].dst \in Macs
          /\ pd'[l].ingress_port \in Ports
      BY <1>0, <1>1 DEF receive, Descriptors
    <3> QED BY <1>0, <3>1 DEF PacketInv
  <2>2. (seen \subseteq Macs \X Ports)'
    BY <1>0, <1>1 DEF receive, TypeOK
  <2> QED BY <1>0, <1>1, <2>1, <2>2
       DEF receive, TypeInv, TypeOK, Descriptors, tables, wires, program,
           queues
<1>2. ASSUME NEW l \in Lcores, apply_smac(l) PROVE TypeInv'
  <2>1. pd' \in [Lcores -> Descriptors] /\ PacketInv'
    <3>1. /\ pd' = [pd EXCEPT ![l] = pd'[l]] /\ pd'[l] \in Descriptors
          /\ pd'[l].pc = "dmac" /\ pd'[l].dst \in Macs
      BY <1>0, <1>2 DEF apply_smac, Descriptors, PacketInv
    <3> QED BY <1>0, <3>1 DEF PacketInv
  <2>2. to_controller' \in Seq(Digests)
    <3>1. CASE pd[l].src \notin smac /\ smac_default = "mac_learn"
      <4>1. mac_learn_digest_fields(pd[l].src, pd[l].ingress_port) \in Digests
        BY <1>0, <1>2 DEF apply_smac, PacketInv, Digests
      <4> QED BY <1>0, <1>2, <3>1, <4>1, AddedIsSeq
           DEF apply_smac, generate_digest
    <3>2. CASE ~(pd[l].src \notin smac /\ smac_default = "mac_learn")
      BY <1>0, <1>2, <3>2 DEF apply_smac
    <3> QED BY <3>1, <3>2
  <2> QED BY <1>0, <1>2, <2>1, <2>2
       DEF apply_smac, TypeInv, TypeOK, Descriptors, tables, program, queues
<1>3. ASSUME NEW l \in Lcores, apply_dmac(l) PROVE TypeInv'
  <2>1. dmac[pd[l].dst] \in Ports \cup {NONE}
    BY <1>0, <1>3 DEF apply_dmac, TypeOK, PacketInv
  <2> DEFINE port == dmac[pd[l].dst]
             egress == IF port # NONE THEN port
                       ELSE IF dmac_default = "bcast" THEN Bcast
                       ELSE pd[l].egress_port
             none == port = NONE /\ dmac_default = "none"
             new == [pd[l] EXCEPT !.pc = "send", !.egress_port = egress,
                                  !.unready = none]
  <2>3. pd[l] \in Descriptors
    BY <1>0
  <2>4. egress \in Ports \cup {NONE, Bcast} /\ none \in BOOLEAN
    BY <2>1, <2>3 DEF Descriptors
  <2>5. pd' = [pd EXCEPT ![l] = new]
    BY <1>3 DEF apply_dmac
  <2> HIDE DEF egress, none
  <2>6. new \in Descriptors /\ new.pc = "send"
    BY <2>3, <2>4 DEF Descriptors
  <2> HIDE DEF new
  <2>2. pd' \in [Lcores -> Descriptors] /\ PacketInv'
    BY <1>0, <2>5, <2>6 DEF PacketInv
  <2> QED BY <1>0, <1>3, <2>2
       DEF apply_dmac, TypeInv, TypeOK, Descriptors, tables, wires, program,
           queues
<1>4. ASSUME NEW l \in Lcores, send_packet(l) PROVE TypeInv'
  <2>1. pd' \in [Lcores -> Descriptors] /\ PacketInv'
    BY <1>0, <1>4 DEF send_packet, idle, Descriptors, PacketInv
  <2> QED BY <1>0, <1>4, <2>1
       DEF send_packet, TypeInv, TypeOK, Descriptors, tables, wires, program,
           queues
<1>5. CASE recv_from_controller
  <2>1. /\ Head(to_switch) \in Messages
        /\ to_switch' \in Seq(Messages)
    BY <1>0, <1>5, TailIsSeq DEF recv_from_controller
  <2>2. /\ smac' \subseteq Macs
        /\ dmac' \in [Macs -> Ports \cup {NONE}]
        /\ smac_default' \in {"none", "mac_learn"}
        /\ dmac_default' \in {"none", "bcast"}
    <3> DEFINE m == Head(to_switch)
    <3>1. /\ m.type = "add" /\ m.table = "smac" => m.mac \in Macs
          /\ m.type = "add" /\ m.table = "dmac" => m.mac \in Macs
                                                /\ m.port \in Ports
          /\ m.type = "default" /\ m.table = "smac" => m.action = "mac_learn"
          /\ m.type = "default" /\ m.table = "dmac" => m.action = "bcast"
      BY <2>1 DEF Messages, entry, default_of, set_default_action_smac,
                  set_default_action_dmac
    <3> HIDE DEF m
    <3>2. \/ /\ m.type = "add" /\ m.table = "smac"
             /\ smac' = smac \cup {m.mac}
             /\ UNCHANGED <<smac_default, dmac, dmac_default>>
          \/ /\ m.type = "add" /\ m.table = "dmac"
             /\ dmac' = [dmac EXCEPT ![m.mac] = m.port]
             /\ UNCHANGED <<smac, smac_default, dmac_default>>
          \/ /\ m.type = "default" /\ m.table = "smac"
             /\ smac_default' = m.action
             /\ UNCHANGED <<smac, dmac, dmac_default>>
          \/ /\ m.type = "default" /\ m.table = "dmac"
             /\ dmac_default' = m.action
             /\ UNCHANGED <<smac, smac_default, dmac>>
      BY <1>5 DEF recv_from_controller, m
    <3> QED BY <1>0, <3>1, <3>2 DEF TypeOK
  <2> QED BY <1>0, <1>5, <2>1, <2>2
       DEF recv_from_controller, TypeInv, TypeOK, PacketInv, program, queues
<1>6. ASSUME UNCHANGED <<tables, pd, seen>>, connected' \in BOOLEAN,
             to_switch' \in Seq(Messages), todo' \in Seq(Messages),
             fills' \in Seq(Messages), output_queue' \in Seq(Messages),
             to_controller' \in Seq(Digests), input_queue' \in Seq(Digests),
             dropped' \subseteq Macs
      PROVE  TypeInv'
  <2>1. PacketInv'
    BY <1>0, <1>6 DEF PacketInv
  <2>2. TypeOK'
    <3>1. /\ smac' \subseteq Macs /\ dmac' \in [Macs -> Ports \cup {NONE}]
          /\ smac_default' \in {"none", "mac_learn"}
          /\ dmac_default' \in {"none", "bcast"}
          /\ seen' \subseteq Macs \X Ports
          /\ pd' \in [Lcores -> Descriptors]
      BY <1>0, <1>6 DEF TypeOK, tables
    <3> QED BY <1>6, <3>1 DEF TypeOK, Descriptors
  <2> QED BY <2>1, <2>2 DEF TypeInv
<1>7. connected \in BOOLEAN
  BY <1>0 DEF TypeOK
<1>8. CASE init
  <2>1. Head(todo) \in Messages /\ todo' \in Seq(Messages)
    BY <1>0, <1>8, TailIsSeq DEF init
  <2>2. output_queue' \in Seq(Messages) /\ dropped' \subseteq Macs
    BY <1>0, <1>8, <2>1, AddedIsSeq DEF init, send_p4_msg
  <2> QED BY <1>0, <1>6, <1>7, <1>8, <2>1, <2>2 DEF init, wires
<1>9. CASE dhf_sends
  <2>1. Head(fills) \in Messages /\ fills' \in Seq(Messages)
    BY <1>0, <1>9, TailIsSeq DEF dhf_sends
  <2>2. output_queue' \in Seq(Messages) /\ dropped' \subseteq Macs
    BY <1>0, <1>9, <2>1, AddedIsSeq DEF dhf_sends, send_p4_msg
  <2> QED BY <1>0, <1>6, <1>7, <1>9, <2>1, <2>2 DEF dhf_sends, wires
<1>10. CASE dhf
  <2>1. Head(input_queue) \in Digests /\ input_queue' \in Seq(Digests)
    BY <1>0, <1>10, TailIsSeq DEF dhf
  <2>2. fills' \in Seq(Messages)
    BY <1>10, <2>1, AnswerIsSeq DEF dhf, Digests
  <2> QED BY <1>0, <1>6, <1>7, <1>10, <2>1, <2>2 DEF dhf, wires
<1>11. CASE main_reads
  <2>1. Head(to_controller) \in Digests /\ to_controller' \in Seq(Digests)
    BY <1>0, <1>11, TailIsSeq DEF main_reads
  <2>2. input_queue' \in Seq(Digests)
    BY <1>0, <1>11, <2>1, AddedIsSeq DEF main_reads
  <2> QED BY <1>0, <1>6, <1>7, <1>11, <2>1, <2>2 DEF main_reads
<1>12. CASE output_processor
  <2>1. Head(output_queue) \in Messages /\ output_queue' \in Seq(Messages)
    BY <1>0, <1>12, TailIsSeq DEF output_processor
  <2>2. to_switch' \in Seq(Messages)
    BY <1>0, <1>12, <2>1, AddedIsSeq DEF output_processor
  <2> QED BY <1>0, <1>6, <1>7, <1>12, <2>1, <2>2 DEF output_processor
<1>13. CASE disconnect
  <2>1. to_switch' \in Seq(Messages)
    BY <1>0, <1>13, PrefixIsSeq DEF disconnect
  <2>2. \A S : <<>> \in Seq(S)
    OBVIOUS
  <2> QED BY <1>0, <1>6, <1>13, <2>1, <2>2 DEF disconnect
<1>14. CASE UNCHANGED vars
  BY <1>0, <1>6, <1>7, <1>14 DEF vars, wires, program, queues
<1> QED
  BY <1>1, <1>2, <1>3, <1>4, <1>5, <1>8, <1>9, <1>10, <1>11, <1>12, <1>13,
     <1>14 DEF Next, ingress, handler

(* The types of the tables, the packets and the connection in every state  *)
(* of a learning switch and its controller.                                *)
THEOREM TypesKept == Spec => []TypeInv
<1> QED BY InitType, StepType, PTL DEF Spec

(* The tables, the packets and what is under way have their types, for any *)
(* file, any network and any number of lcores.                             *)
THEOREM TypeCorrect == Spec => []TypeOK
<1>1. TypeInv => TypeOK
  BY DEF TypeInv
<1> QED BY <1>1, TypesKept, PTL

(***************************************************************************)
(* Known sources are destinations.  In a queue of messages, an entry of    *)
(* smac comes behind one of dmac for its address, or dmac has one already, *)
(* or one was dropped.                                                     *)
(***************************************************************************)

\* Message m forwards packets for address a.
Forwards(m, a) == \E p \in Ports : m = entry("dmac", a, p)

\* One of the first n messages of a queue does.
ahead(q, n, a) == \E j \in 1 .. n : Forwards(q[j], a)

\* Queue w may be received when nothing is asked of the addresses in K.
Ordered(w, K) ==
  \A i \in DOMAIN w, a \in Macs :
    w[i] = entry("smac", a, NONE) => a \in K \/ ahead(w, i - 1, a)

\* Queue q may be sent behind w.
Ready(q, w, K) ==
  \A i \in DOMAIN q, a \in Macs :
    q[i] = entry("smac", a, NONE) =>
      a \in K \/ ahead(q, i - 1, a) \/ ahead(w, Len(w), a)

(* Both ask less when more addresses are in K.                             *)
LEMMA MoreSettled ==
  ASSUME NEW q, NEW w, NEW K, NEW L, K \subseteq L
  PROVE  /\ Ordered(w, K) => Ordered(w, L)
         /\ Ready(q, w, K) => Ready(q, w, L)
BY DEF Ordered, Ready

(* Sending the oldest message of q.                                        *)
LEMMA Sending ==
  ASSUME NEW w \in Seq(Messages), NEW q \in Seq(Messages), NEW K,
         q # <<>>, Ordered(w, K), Ready(q, w, K)
  PROVE  /\ Ordered(Append(w, Head(q)), K)
         /\ Ready(Tail(q), Append(w, Head(q)), K)
<1> DEFINE w2 == Append(w, Head(q))
           n == Len(w)
<1>1. /\ n \in Nat /\ w2 \in Seq(Messages) /\ Len(w2) = n + 1
      /\ w2[n + 1] = q[1] /\ \A i \in 1 .. n : w2[i] = w[i]
  BY TailIsSeq
<1>2. /\ Len(q) \in Nat /\ Len(q) >= 1
      /\ Tail(q) \in Seq(Messages) /\ Len(Tail(q)) = Len(q) - 1
      /\ \A i \in 1 .. Len(q) - 1 : Tail(q)[i] = q[i + 1]
  BY TailIsSeq
<1> HIDE DEF w2
<1>3. ASSUME NEW i \in DOMAIN w2, NEW a \in Macs,
             w2[i] = entry("smac", a, NONE), a \notin K
      PROVE  ahead(w2, i - 1, a)
  <2>1. CASE i <= n
    <3>1. i \in 1 .. n /\ w[i] = entry("smac", a, NONE)
      BY <1>1, <1>3, <2>1
    <3>2. ahead(w, i - 1, a)
      BY <1>3, <3>1 DEF Ordered
    <3>3. PICK j \in 1 .. i - 1 : Forwards(w[j], a)
      BY <3>2 DEF ahead
    <3>4. w2[j] = w[j]
      BY <1>1, <3>1, <3>3
    <3> QED BY <3>3, <3>4 DEF ahead
  <2>2. CASE i = n + 1
    <3>1. ahead(q, 0, a) \/ ahead(w, n, a)
      BY <1>1, <1>2, <1>3, <2>2 DEF Ready
    <3> QED BY <1>1, <2>2, <3>1 DEF ahead
  <2> QED BY <1>1, <2>1, <2>2
<1>4. ASSUME NEW i \in DOMAIN Tail(q), NEW a \in Macs,
             Tail(q)[i] = entry("smac", a, NONE), a \notin K
      PROVE  ahead(Tail(q), i - 1, a) \/ ahead(w2, Len(w2), a)
  <2>1. i \in 1 .. Len(q) - 1 /\ q[i + 1] = entry("smac", a, NONE)
    BY <1>2, <1>4
  <2>2. ahead(q, i, a) \/ ahead(w, n, a)
    <3>1. i + 1 \in DOMAIN q /\ i + 1 - 1 = i
      BY <1>2, <2>1
    <3> QED BY <1>4, <2>1, <3>1 DEF Ready
  <2>3. CASE ahead(w, n, a)
    BY <1>1, <2>3 DEF ahead
  <2>4. CASE ahead(q, i, a)
    <3>1. PICK j \in 1 .. i : Forwards(q[j], a)
      BY <2>4 DEF ahead
    <3>2. CASE j = 1
      BY <1>1, <3>1, <3>2 DEF ahead
    <3>3. CASE j # 1
      <4>1. j - 1 \in 1 .. i - 1 /\ Tail(q)[j - 1] = q[j]
        BY <1>2, <2>1, <3>1, <3>3
      <4> QED BY <3>1, <4>1 DEF ahead
    <3> QED BY <3>2, <3>3
  <2> QED BY <2>2, <2>3, <2>4
<1> QED BY <1>3, <1>4 DEF Ordered, Ready, w2

(* Dropping it, if nothing is asked of what it would have forwarded for.   *)
LEMMA Dropping ==
  ASSUME NEW w, NEW q \in Seq(Messages), NEW K, q # <<>>, Ready(q, w, K),
         \A a \in Macs : Forwards(Head(q), a) => a \in K
  PROVE  Ready(Tail(q), w, K)
<1>1. /\ Len(q) \in Nat /\ Len(q) >= 1 /\ Head(q) = q[1]
      /\ Tail(q) \in Seq(Messages) /\ Len(Tail(q)) = Len(q) - 1
      /\ \A i \in 1 .. Len(q) - 1 : Tail(q)[i] = q[i + 1]
  BY TailIsSeq
<1>2. ASSUME NEW i \in DOMAIN Tail(q), NEW a \in Macs,
             Tail(q)[i] = entry("smac", a, NONE), a \notin K
      PROVE  ahead(Tail(q), i - 1, a) \/ ahead(w, Len(w), a)
  <2>1. /\ i \in 1 .. Len(q) - 1 /\ q[i + 1] = entry("smac", a, NONE)
        /\ i + 1 \in DOMAIN q /\ i + 1 - 1 = i
    BY <1>1, <1>2
  <2>2. ahead(q, i, a) \/ ahead(w, Len(w), a)
    BY <1>2, <2>1 DEF Ready
  <2>3. CASE ahead(q, i, a)
    <3>1. PICK j \in 1 .. i : Forwards(q[j], a)
      BY <2>3 DEF ahead
    <3>2. j # 1
      BY <1>1, <1>2, <3>1
    <3>3. j - 1 \in 1 .. i - 1 /\ Tail(q)[j - 1] = q[j]
      BY <1>1, <2>1, <3>1, <3>2
    <3> QED BY <3>1, <3>3 DEF ahead
  <2> QED BY <2>2, <2>3
<1> QED BY <1>2 DEF Ready

(* A longer queue ahead changes nothing for the others.                    *)
LEMMA StaysReady ==
  ASSUME NEW w \in Seq(Messages), NEW q, NEW K, NEW m, Ready(q, w, K)
  PROVE  Ready(q, Append(w, m), K)
<1>1. ASSUME NEW a, ahead(w, Len(w), a)
      PROVE  ahead(Append(w, m), Len(Append(w, m)), a)
  BY <1>1 DEF ahead
<1> QED BY <1>1 DEF Ready

(* Receiving the oldest message of w, after which nothing is asked of L.   *)
LEMMA Arriving ==
  ASSUME NEW w \in Seq(Messages), NEW K, NEW L, w # <<>>, Ordered(w, K),
         \A a \in Macs : a \in K \/ Forwards(Head(w), a) => a \in L
  PROVE  /\ Ordered(Tail(w), L)
         /\ \A q : Ready(q, w, K) => Ready(q, Tail(w), L)
         /\ \A a \in Macs : Head(w) = entry("smac", a, NONE) => a \in K
<1>1. /\ Head(w) = w[1] /\ Len(w) \in Nat /\ Len(w) >= 1
      /\ Tail(w) \in Seq(Messages) /\ Len(Tail(w)) = Len(w) - 1
      /\ \A i \in 1 .. Len(w) - 1 : Tail(w)[i] = w[i + 1]
  BY TailIsSeq
<1>2. ASSUME NEW a \in Macs, NEW n \in 1 .. Len(w), ahead(w, n, a)
      PROVE  a \in L \/ ahead(Tail(w), n - 1, a)
  <2>1. PICK j \in 1 .. n : Forwards(w[j], a)
    BY <1>2 DEF ahead
  <2>2. CASE j = 1
    BY <1>1, <2>1, <2>2
  <2>3. CASE j # 1
    <3>1. j - 1 \in 1 .. n - 1 /\ Tail(w)[j - 1] = w[j]
      BY <1>1, <2>1, <2>3
    <3> QED BY <2>1, <3>1 DEF ahead
  <2> QED BY <2>2, <2>3
<1>3. ASSUME NEW i \in DOMAIN Tail(w), NEW a \in Macs,
             Tail(w)[i] = entry("smac", a, NONE)
      PROVE  a \in L \/ ahead(Tail(w), i - 1, a)
  <2>1. /\ i \in 1 .. Len(w) - 1 /\ i + 1 \in DOMAIN w /\ i + 1 - 1 = i
        /\ w[i + 1] = entry("smac", a, NONE)
    BY <1>1, <1>3
  <2>2. a \in K \/ ahead(w, i, a)
    BY <2>1 DEF Ordered
  <2> QED BY <1>1, <1>2, <2>1, <2>2
<1>4. ASSUME NEW q, Ready(q, w, K)
      PROVE  Ready(q, Tail(w), L)
  BY <1>1, <1>2, <1>4 DEF Ready
<1>5. ASSUME NEW a \in Macs, Head(w) = entry("smac", a, NONE)
      PROVE  a \in K
  <2>1. ~ ahead(w, 0, a)
    BY DEF ahead
  <2> QED BY <1>1, <1>5, <2>1 DEF Ordered
<1> QED BY <1>3, <1>4, <1>5 DEF Ordered

(* What is left of a queue when its newest part is lost.                   *)
LEMMA Cut ==
  ASSUME NEW w \in Seq(Messages), NEW K, Ordered(w, K),
         NEW v \in Seq(Messages), Len(v) <= Len(w),
         \A i \in 1 .. Len(v) : v[i] = w[i]
  PROVE  Ordered(v, K)
<1>1. Len(v) \in Nat /\ Len(w) \in Nat
  OBVIOUS
<1>2. ASSUME NEW i \in 1 .. Len(v), NEW a \in Macs,
             v[i] = entry("smac", a, NONE)
      PROVE  a \in K \/ ahead(v, i - 1, a)
  <2>1. i \in DOMAIN w /\ w[i] = entry("smac", a, NONE)
    BY <1>1, <1>2
  <2>2. a \in K \/ ahead(w, i - 1, a)
    BY <2>1 DEF Ordered
  <2>3. ahead(w, i - 1, a) = ahead(v, i - 1, a)
    BY <1>1 DEF ahead
  <2> QED BY <2>2, <2>3
<1> QED BY <1>2 DEF Ordered

\* The messages on their way, those in the output queue behind the others.
pipe == to_switch \o output_queue

(* Two queues, one behind the other.                                       *)
LEMMA Piping ==
  ASSUME NEW w \in Seq(Messages), NEW q \in Seq(Messages)
  PROVE  /\ w \o q \in Seq(Messages)
         /\ w # <<>> => /\ w \o q # <<>> /\ Head(w \o q) = Head(w)
                        /\ Tail(w \o q) = Tail(w) \o q
         /\ q # <<>> => Append(w, Head(q)) \o Tail(q) = w \o q
         /\ \A m \in Messages : w \o Append(q, m) = Append(w \o q, m)
         /\ Len(w) <= Len(w \o q) /\ \A i \in 1 .. Len(w) : (w \o q)[i] = w[i]
<1>1. /\ w \o q \in Seq(Messages) /\ Len(w \o q) = Len(w) + Len(q)
      /\ \A i \in 1 .. Len(w) + Len(q) :
            (w \o q)[i] = IF i <= Len(w) THEN w[i] ELSE q[i - Len(w)]
  BY ConcatProperties, Zenon
<1>2. ASSUME w # <<>>
      PROVE  /\ w \o q # <<>> /\ Head(w \o q) = Head(w)
             /\ Tail(w \o q) = Tail(w) \o q
  BY <1>2
<1>3. ASSUME q # <<>> PROVE Append(w, Head(q)) \o Tail(q) = w \o q
  BY <1>3
<1>4. ASSUME NEW m \in Messages PROVE w \o Append(q, m) = Append(w \o q, m)
  OBVIOUS
<1>5. Len(w) <= Len(w \o q) /\ \A i \in 1 .. Len(w) : (w \o q)[i] = w[i]
  BY <1>1
<1> QED BY <1>1, <1>2, <1>3, <1>4, <1>5

\* The addresses of which nothing is asked.
settled == {a \in Macs : dmac[a] # NONE \/ a \in dropped}

OrderInv ==
  /\ SourcesAreDestinations
  /\ Ordered(pipe, settled)
  /\ Ready(todo, pipe, settled) /\ Ready(fills, pipe, settled)

(* Nothing is under way at the start.                                      *)
LEMMA InitOrder == Init => OrderInv
<1> SUFFICES ASSUME Init PROVE OrderInv
  OBVIOUS
<1>1. SourcesAreDestinations /\ pipe = <<>>
  BY DEF Init, SourcesAreDestinations, pipe
<1>2. Ready(fills, pipe, settled) /\ Ordered(pipe, settled)
  BY <1>1 DEF Init, Ready, Ordered
<1>3. CASE wrong_format(file)
  <2>1. todo = <<>>
    BY <1>3 DEF Init
  <2>2. Ready(todo, pipe, settled)
    BY <2>1 DEF Ready
  <2> QED BY <1>1, <1>2, <2>2 DEF OrderInv
<1>4. CASE ~ wrong_format(file)
  <2>1. ~ wrong_format(file) /\ file \in Files /\ todo = init_messages(file)
    BY <1>4 DEF Init
  <2>2. ASSUME NEW i \in DOMAIN todo, NEW a \in Macs,
               todo[i] = entry("smac", a, NONE)
        PROVE  ahead(todo, i - 1, a)
    <3>1. todo[i] \notin {set_default_action_smac, set_default_action_dmac}
      BY <2>2 DEF entry, default_of, set_default_action_smac,
                  set_default_action_dmac
    <3>2. PICK k \in DOMAIN file :
            /\ file[k].mac \in Macs /\ file[k].port \in Ports
            /\ \/ todo[i] = entry("dmac", file[k].mac, file[k].port)
               \/ /\ todo[i] = entry("smac", file[k].mac, NONE)
                  /\ i - 1 \in DOMAIN todo
                  /\ todo[i - 1] = entry("dmac", file[k].mac, file[k].port)
      BY <2>1, <3>1, InitMessages
    <3>3. /\ todo[i] # entry("dmac", file[k].mac, file[k].port)
          /\ todo[i] = entry("smac", file[k].mac, NONE) => file[k].mac = a
      BY <2>2 DEF entry
    <3>4. Forwards(todo[i - 1], a) /\ i - 1 \in DOMAIN todo
      BY <3>2, <3>3 DEF Forwards
    <3>5. todo \in Seq(Messages)
      BY <2>1, InitMessages
    <3>6. i - 1 \in 1 .. i - 1
      BY <3>4, <3>5
    <3> QED BY <3>4, <3>6 DEF ahead
  <2>3. Ready(todo, pipe, settled)
    BY <2>2 DEF Ready
  <2> QED BY <1>1, <1>2, <2>3 DEF OrderInv
<1> QED BY <1>3, <1>4

(* Each step keeps entries of dmac in front of those of smac.              *)
LEMMA StepOrder == TypeInv /\ OrderInv /\ [Next]_vars => OrderInv'
<1> SUFFICES ASSUME TypeInv, OrderInv, [Next]_vars PROVE OrderInv'
  OBVIOUS
<1>0. /\ to_switch \in Seq(Messages) /\ output_queue \in Seq(Messages)
      /\ todo \in Seq(Messages) /\ fills \in Seq(Messages)
      /\ input_queue \in Seq(Digests)
      /\ dmac \in [Macs -> Ports \cup {NONE}]
      /\ smac \subseteq Macs /\ dropped \subseteq Macs
      /\ pipe \in Seq(Messages)
  BY Piping DEF TypeInv, TypeOK, pipe
<1>1. ASSUME UNCHANGED <<smac, dmac, dropped>>
      PROVE  SourcesAreDestinations' /\ settled' = settled
  BY <1>1 DEF OrderInv, SourcesAreDestinations, settled
<1>2. CASE UNCHANGED <<smac, dmac, dropped, to_switch, output_queue, todo,
                       fills>>
  BY <1>1, <1>2 DEF OrderInv, pipe
<1>3. CASE recv_from_controller
  <2> DEFINE m == Head(to_switch)
  <2>1. /\ to_switch # <<>> /\ to_switch' = Tail(to_switch)
        /\ UNCHANGED <<todo, fills, output_queue, dropped>>
        /\ m \in Messages
    BY <1>0, <1>3, TailIsSeq DEF recv_from_controller, program, queues
  <2>2. \A a \in Macs : dmac[a] # NONE \/ Forwards(m, a) => dmac'[a] # NONE
    <3>1. ASSUME NEW a \in Macs, Forwards(m, a)
          PROVE  m.type = "add" /\ m.table = "dmac" /\ m.mac = a
      BY <3>1 DEF Forwards, entry
    <3>2. /\ m.type = "add" /\ m.table = "dmac" => m.mac \in Macs
                                                /\ m.port \in Ports
          /\ ~ (m.type = "add" /\ m.table = "smac")
             \/ ~ (m.type = "add" /\ m.table = "dmac")
      BY <2>1 DEF Messages, entry, default_of, set_default_action_smac,
                  set_default_action_dmac
    <3>3. NONE \notin Ports
      BY LearningAssumption DEF LearningAssumption
    <3> HIDE DEF m
    <3>4. \/ m.type = "add" /\ m.table = "dmac"
             /\ dmac' = [dmac EXCEPT ![m.mac] = m.port]
          \/ ~ (m.type = "add" /\ m.table = "dmac") /\ dmac' = dmac
      BY <1>3, <3>2 DEF recv_from_controller, m
    <3> QED BY <1>0, <3>1, <3>2, <3>3, <3>4
  <2>3. pipe # <<>> /\ Head(pipe) = m /\ pipe' = Tail(pipe)
    BY <1>0, <2>1, Piping DEF pipe
  <2> HIDE DEF m
  <2>4. \A a \in Macs : a \in settled \/ Forwards(m, a) => a \in settled'
    BY <2>1, <2>2 DEF settled
  <2>5. /\ Ordered(pipe', settled')
        /\ \A q : Ready(q, pipe, settled) => Ready(q, pipe', settled')
        /\ \A a \in Macs : m = entry("smac", a, NONE) => a \in settled
    BY <1>0, <2>3, <2>4, Arriving DEF OrderInv
  <2>6. ASSUME NEW a \in smac' PROVE a \in settled'
    <3>1. CASE a \in smac
      <4>1. a \in settled
        BY <1>0, <3>1 DEF OrderInv, SourcesAreDestinations, settled
      <4> QED BY <1>0, <2>4, <3>1, <4>1
    <3>2. CASE a \notin smac
      <4>1. m.type = "add" /\ m.table = "smac" /\ a = m.mac
        BY <1>3, <2>6, <3>2 DEF recv_from_controller, m
      <4>2. a \in Macs /\ m = entry("smac", a, NONE)
        BY <2>1, <4>1 DEF Messages, entry, default_of,
                          set_default_action_smac, set_default_action_dmac
      <4> QED BY <2>4, <2>5, <4>2
    <3> QED BY <3>1, <3>2
  <2>7. SourcesAreDestinations'
    BY <2>6 DEF SourcesAreDestinations, settled
  <2> QED BY <2>1, <2>5, <2>7 DEF OrderInv
<1>4. ASSUME NEW q \in Seq(Messages), q # <<>>, Ready(q, pipe, settled),
             send_p4_msg(Head(q)), UNCHANGED <<smac, dmac, to_switch>>
      PROVE  /\ SourcesAreDestinations'
             /\ Ordered(pipe', settled') /\ Ready(Tail(q), pipe', settled')
             /\ \A r : Ready(r, pipe, settled) => Ready(r, pipe', settled')
  <2>1. Head(q) \in Messages
    BY <1>4, TailIsSeq
  <2>2. dropped \subseteq dropped'
    BY <1>4 DEF send_p4_msg
  <2>3. settled \subseteq settled' /\ SourcesAreDestinations'
    BY <1>4, <2>2 DEF settled, OrderInv, SourcesAreDestinations
  <2>4. /\ Ordered(pipe, settled') /\ Ready(q, pipe, settled')
        /\ \A r : Ready(r, pipe, settled) => Ready(r, pipe, settled')
    BY <1>4, <2>3, MoreSettled DEF OrderInv
  <2>5. CASE Len(output_queue) < QueueSize
    <3>1. output_queue' = Append(output_queue, Head(q))
      BY <1>4, <2>5 DEF send_p4_msg, fifo_add_msg
    <3>2. pipe' = Append(pipe, Head(q))
      BY <1>0, <1>4, <2>1, <3>1, Piping DEF pipe
    <3> QED BY <1>0, <1>4, <2>3, <2>4, <3>2, Sending, StaysReady
  <2>6. CASE ~ Len(output_queue) < QueueSize
    <3>1. output_queue' = output_queue
      BY <1>4, <2>6 DEF send_p4_msg, fifo_add_msg
    <3>2. pipe' = pipe
      BY <1>4, <3>1 DEF pipe
    <3>3. \A a \in Macs : Forwards(Head(q), a) => a \in settled'
      <4>1. Len(output_queue) >= QueueSize
        BY <1>0, <2>6, LearningAssumption DEF LearningAssumption
      <4> QED BY <1>4, <4>1 DEF send_p4_msg, Forwards, settled,
                                fill_dmac_table
    <3> QED BY <1>4, <2>3, <2>4, <3>2, <3>3, Dropping
  <2> QED BY <2>5, <2>6
<1>5. CASE init
  <2>1. /\ todo # <<>> /\ todo' = Tail(todo) /\ send_p4_msg(Head(todo))
        /\ UNCHANGED <<smac, dmac, to_switch, fills>>
    BY <1>5 DEF init, tables, wires
  <2>2. Ready(todo, pipe, settled) /\ Ready(fills, pipe, settled)
    BY DEF OrderInv
  <2> QED BY <1>0, <1>4, <2>1, <2>2 DEF OrderInv
<1>6. CASE dhf_sends
  <2>1. /\ fills # <<>> /\ fills' = Tail(fills) /\ send_p4_msg(Head(fills))
        /\ UNCHANGED <<smac, dmac, to_switch, todo>>
    BY <1>6 DEF dhf_sends, tables, wires
  <2>2. Ready(todo, pipe, settled) /\ Ready(fills, pipe, settled)
    BY DEF OrderInv
  <2> QED BY <1>0, <1>4, <2>1, <2>2 DEF OrderInv
<1>7. CASE dhf
  <2>1. /\ UNCHANGED <<smac, dmac, dropped, todo, to_switch, output_queue>>
        /\ fills' = mac_learn_digest(Head(input_queue))
        /\ Head(input_queue) \in Digests
    BY <1>0, <1>7, TailIsSeq DEF dhf, tables, wires
  <2>2. PICK a \in Macs, p \in Ports :
           Head(input_queue) = mac_learn_digest_fields(a, p)
    BY <2>1 DEF Digests
  <2>3. fills' = <<entry("dmac", a, p), entry("smac", a, NONE)>>
    BY <2>1, <2>2, Answer
  <2>4. Ready(fills', pipe', settled')
    <3>1. ASSUME NEW i \in DOMAIN fills', NEW b \in Macs,
                 fills'[i] = entry("smac", b, NONE)
          PROVE  ahead(fills', i - 1, b)
      <4>1. i \in {1, 2} /\ fills'[1] = entry("dmac", a, p)
            /\ fills'[2] = entry("smac", a, NONE)
        BY <2>3
      <4>2. i = 2 /\ a = b
        BY <3>1, <4>1 DEF entry
      <4> QED BY <4>1, <4>2 DEF ahead, Forwards
    <3> QED BY <3>1 DEF Ready
  <2> QED BY <1>1, <2>1, <2>4 DEF OrderInv, pipe
<1>8. CASE output_processor
  <2>1. /\ UNCHANGED <<smac, dmac, dropped, todo, fills>>
        /\ output_queue # <<>> /\ output_queue' = Tail(output_queue)
        /\ to_switch' = Append(to_switch, Head(output_queue))
    BY <1>8 DEF output_processor, tables
  <2>2. pipe' = pipe
    BY <1>0, <2>1, Piping DEF pipe
  <2> QED BY <1>1, <2>1, <2>2 DEF OrderInv
<1>9. CASE disconnect
  <2>1. /\ UNCHANGED <<smac, dmac, dropped>> /\ output_queue' = <<>>
        /\ todo' = <<>> /\ fills' = <<>>
    BY <1>9 DEF disconnect, tables
  <2>2. PICK n \in 0 .. Len(to_switch) : to_switch' = SubSeq(to_switch, 1, n)
    BY <1>9 DEF disconnect
  <2>3. /\ pipe' \in Seq(Messages) /\ Len(pipe') = n
        /\ \A i \in 1 .. n : pipe'[i] = to_switch[i]
    <3>1. /\ to_switch' \in Seq(Messages) /\ Len(to_switch') = n
          /\ \A i \in 1 .. n : to_switch'[i] = to_switch[i]
      BY <1>0, <2>2, PrefixIsSeq
    <3>2. pipe' = to_switch'
      BY <2>1, <3>1, ConcatEmptySeq DEF pipe
    <3> QED BY <3>1, <3>2
  <2>4. /\ Len(pipe') <= Len(pipe)
        /\ \A i \in 1 .. Len(pipe') : pipe'[i] = pipe[i]
    <3>1. /\ Len(to_switch) \in Nat /\ Len(pipe) \in Nat
          /\ Len(to_switch) <= Len(pipe)
          /\ \A i \in 1 .. Len(to_switch) : pipe[i] = to_switch[i]
      BY <1>0, Piping DEF pipe
    <3> QED BY <2>3, <3>1
  <2>5. Ordered(pipe', settled)
    BY <1>0, <2>3, <2>4, Cut DEF OrderInv
  <2>6. Ready(todo', pipe', settled') /\ Ready(fills', pipe', settled')
    BY <2>1 DEF Ready
  <2> QED BY <1>1, <2>1, <2>5, <2>6 DEF OrderInv
<1>10. CASE main_reads
  BY <1>2, <1>10 DEF main_reads, tables
<1>11. CASE UNCHANGED vars
  BY <1>2, <1>11 DEF vars, tables, wires, program, queues
<1>12. ASSUME NEW l \in Lcores, ingress(l) PROVE OrderInv'
  BY <1>2, <1>12 DEF ingress, apply_smac, apply_dmac, send_packet, tables,
     wires, program, queues
<1>13. ASSUME NEW l \in Lcores, NEW src \in Macs, NEW dst \in Macs,
              NEW port \in Ports, receive(l, src, dst, port)
       PROVE  OrderInv'
  BY <1>2, <1>13 DEF receive, tables, wires, program, queues
<1> QED
  BY <1>3, <1>5, <1>6, <1>7, <1>8, <1>9, <1>10, <1>11, <1>12, <1>13
    DEF Next, handler

(* A source that the switch takes for known has an entry in dmac, unless   *)
(* one was dropped at the full output queue, whatever file the controller  *)
(* reads, however long its queues are and whenever the connection breaks:  *)
(* queues keep the order of the messages, and both programs of the         *)
(* controller send the entry of dmac first.                                *)
THEOREM KnownSources == Spec => []SourcesAreDestinations
<1>1. OrderInv => SourcesAreDestinations
  BY DEF OrderInv
<1> QED BY <1>1, InitOrder, StepOrder, TypesKept, PTL DEF Spec

(***************************************************************************)
(* Ports are learned where addresses were seen.                            *)
(***************************************************************************)

known == seen \cup listed

\* The messages and the digests that say nothing else of the network.
KnownMessages == {m \in Messages : m.type = "add" /\ m.table = "dmac"
                                     => <<m.mac, m.port>> \in known}
SeenDigests   == {d \in Digests :
                   \E m \in Macs, p \in Ports :
                     <<m, p>> \in seen /\ d = mac_learn_digest_fields(m, p)}

LearnInv ==
  /\ LearnedWhereSeen
  /\ to_switch \in Seq(KnownMessages) /\ todo \in Seq(KnownMessages)
  /\ fills \in Seq(KnownMessages) /\ output_queue \in Seq(KnownMessages)
  /\ to_controller \in Seq(SeenDigests) /\ input_queue \in Seq(SeenDigests)
  /\ \A l \in Lcores : pd[l].pc = "smac" =>
        <<pd[l].src, pd[l].ingress_port>> \in seen

(* A sequence over a set is one over a larger set.                         *)
LEMMA SeqOfMore ==
  ASSUME NEW S, NEW T, S \subseteq T
  PROVE  Seq(S) \subseteq Seq(T)
<1>1. ASSUME NEW q \in Seq(S) PROVE q \in Seq(T)
  <2>1. \A i \in 1 .. Len(q) : q[i] \in T
    OBVIOUS
  <2> QED BY <2>1
<1> QED BY <1>1

(* No port is learned at the start.                                        *)
LEMMA InitLearned == Init => LearnInv
<1> SUFFICES ASSUME Init PROVE LearnInv
  OBVIOUS
<1>1. todo \in Seq(KnownMessages)
  <2>1. CASE wrong_format(file)
    BY <2>1 DEF Init
  <2>2. CASE ~ wrong_format(file)
    <3>1. file \in Files /\ todo = init_messages(file)
      BY <2>2 DEF Init
    <3>2. todo \in Seq(Messages)
      BY <2>2, <3>1, InitMessages
    <3>3. ASSUME NEW i \in DOMAIN todo PROVE todo[i] \in KnownMessages
      <4>1. todo[i] \in Messages
        BY <3>2
      <4>2. CASE todo[i] \in {set_default_action_smac,
                              set_default_action_dmac}
        BY <4>1, <4>2 DEF KnownMessages, default_of, set_default_action_smac,
                          set_default_action_dmac
      <4>3. CASE \E k \in DOMAIN file :
                   \/ todo[i] = entry("dmac", file[k].mac, file[k].port)
                   \/ todo[i] = entry("smac", file[k].mac, NONE)
        BY <4>1, <4>3 DEF KnownMessages, known, listed, entry
      <4> QED BY <2>2, <3>1, <4>2, <4>3, InitMessages
    <3> QED BY <3>2, <3>3
  <2> QED BY <2>1, <2>2
<1> QED BY <1>1 DEF Init, LearnInv, LearnedWhereSeen, idle

(* Each step keeps what is under way and in dmac to what was seen.         *)
LEMMA StepLearned == TypeInv /\ LearnInv /\ [Next]_vars => LearnInv'
<1> SUFFICES ASSUME TypeInv, LearnInv, [Next]_vars PROVE LearnInv'
  OBVIOUS
<1>0. /\ pd \in [Lcores -> Descriptors]
      /\ dmac \in [Macs -> Ports \cup {NONE}] /\ seen \subseteq Macs \X Ports
      /\ PacketInv
      /\ to_switch \in Seq(KnownMessages) /\ todo \in Seq(KnownMessages)
      /\ fills \in Seq(KnownMessages) /\ output_queue \in Seq(KnownMessages)
      /\ to_controller \in Seq(SeenDigests) /\ input_queue \in Seq(SeenDigests)
  BY DEF TypeInv, TypeOK, LearnInv, Descriptors
<1>1. ASSUME UNCHANGED <<tables, wires, program, file, seen>>,
             \A l \in Lcores : pd'[l].pc = "smac" => pd'[l] = pd[l]
      PROVE  LearnInv'
  BY <1>0, <1>1 DEF tables, wires, program, queues, LearnInv,
     LearnedWhereSeen, KnownMessages, SeenDigests, known, listed
<1>2. ASSUME NEW l \in Lcores, NEW src \in Macs, NEW dst \in Macs,
             NEW port \in Ports, receive(l, src, dst, port)
      PROVE  LearnInv'
  <2>1. /\ seen \subseteq seen' /\ <<src, port>> \in seen'
        /\ UNCHANGED <<tables, wires, program, file>>
    BY <1>2 DEF receive
  <2>2. known \subseteq known'
    BY <2>1 DEF known, listed
  <2>3. KnownMessages \subseteq KnownMessages'
    BY <2>2 DEF KnownMessages
  <2>4. SeenDigests \subseteq SeenDigests'
    BY <2>1 DEF SeenDigests
  <2>5. /\ to_switch' \in Seq(KnownMessages')
        /\ todo' \in Seq(KnownMessages') /\ fills' \in Seq(KnownMessages')
        /\ output_queue' \in Seq(KnownMessages')
        /\ to_controller' \in Seq(SeenDigests')
        /\ input_queue' \in Seq(SeenDigests')
    <3>1. /\ Seq(KnownMessages) \subseteq Seq(KnownMessages')
          /\ Seq(SeenDigests) \subseteq Seq(SeenDigests')
      BY <2>3, <2>4, SeqOfMore
    <3> QED BY <1>0, <2>1, <3>1 DEF wires, program, queues
  <2>6. LearnedWhereSeen'
    BY <2>1, <2>2 DEF LearnInv, LearnedWhereSeen, known, tables
  <2>7. \A k \in Lcores : pd'[k].pc = "smac" =>
          <<pd'[k].src, pd'[k].ingress_port>> \in seen'
    BY <1>0, <1>2, <2>1 DEF receive, LearnInv, Descriptors
  <2> QED BY <2>5, <2>6, <2>7 DEF LearnInv
<1>3. ASSUME NEW l \in Lcores, apply_smac(l) PROVE LearnInv'
  <2>1. UNCHANGED <<tables, to_switch, program, file, seen>>
    BY <1>3 DEF apply_smac
  <2>2. to_controller' \in Seq(SeenDigests)
    <3> DEFINE d == mac_learn_digest_fields(pd[l].src, pd[l].ingress_port)
    <3>1. d \in SeenDigests
      BY <1>0, <1>3 DEF apply_smac, LearnInv, PacketInv, SeenDigests, Digests
    <3>2. to_controller' \in {to_controller, Append(to_controller, d)}
      BY <1>3 DEF apply_smac, generate_digest
    <3> HIDE DEF d
    <3> QED BY <1>0, <3>1, <3>2, AddedIsSeq
  <2>3. \A k \in Lcores : pd'[k].pc = "smac" =>
          <<pd'[k].src, pd'[k].ingress_port>> \in seen
    BY <1>0, <1>3 DEF apply_smac, LearnInv, Descriptors
  <2> QED BY <1>0, <2>1, <2>2, <2>3
       DEF tables, program, queues, LearnInv, LearnedWhereSeen,
           KnownMessages, SeenDigests, known, listed
<1>4. ASSUME NEW l \in Lcores, apply_dmac(l) \/ send_packet(l)
      PROVE  LearnInv'
  <2>1. \A k \in Lcores : pd'[k].pc = "smac" => pd'[k] = pd[k]
    BY <1>0, <1>4 DEF apply_dmac, send_packet, idle, Descriptors
  <2> QED BY <1>1, <1>4, <2>1 DEF apply_dmac, send_packet
<1>5. CASE recv_from_controller
  <2> DEFINE m == Head(to_switch)
  <2>1. /\ m \in KnownMessages /\ to_switch' \in Seq(KnownMessages)
        /\ UNCHANGED <<pd, to_controller, program, file, seen>>
    BY <1>0, <1>5, TailIsSeq DEF recv_from_controller
  <2>2. m.type = "add" /\ m.table = "dmac"
          => m.mac \in Macs /\ m.port \in Ports /\ <<m.mac, m.port>> \in known
    BY <2>1 DEF KnownMessages, Messages, entry, default_of,
                set_default_action_smac, set_default_action_dmac
  <2> HIDE DEF m
  <2>3. \/ m.type = "add" /\ m.table = "dmac"
           /\ dmac' = [dmac EXCEPT ![m.mac] = m.port]
        \/ dmac' = dmac
    BY <1>5 DEF recv_from_controller, m
  <2>4. LearnedWhereSeen' /\ known' = known
    <3>1. known' = known
      BY <2>1 DEF known, listed
    <3>2. ASSUME NEW a \in Macs, dmac'[a] # NONE
          PROVE  <<a, dmac'[a]>> \in known
      <4>1. dmac[a] # NONE => <<a, dmac[a]>> \in known
        BY DEF LearnInv, LearnedWhereSeen, known
      <4> QED BY <1>0, <2>2, <2>3, <3>2, <4>1
    <3> QED BY <3>1, <3>2 DEF LearnedWhereSeen, known
  <2>5. KnownMessages' = KnownMessages /\ SeenDigests' = SeenDigests
    <3>1. KnownMessages' = KnownMessages
      BY <2>4 DEF KnownMessages
    <3>2. SeenDigests' = SeenDigests
      BY <2>1 DEF SeenDigests
    <3> QED BY <3>1, <3>2
  <2>6. UNCHANGED <<todo, fills, input_queue, output_queue, to_controller>>
    BY <2>1 DEF program, queues
  <2>7. \A l \in Lcores : pd'[l].pc = "smac" =>
          <<pd'[l].src, pd'[l].ingress_port>> \in seen'
    BY <2>1 DEF LearnInv
  <2> QED BY <1>0, <2>1, <2>4, <2>5, <2>6, <2>7 DEF LearnInv
<1>6. CASE init \/ main_reads \/ handler \/ output_processor \/ disconnect
  <2>1. UNCHANGED <<tables, pd, file, seen>>
    BY <1>6 DEF init, main_reads, handler, dhf, dhf_sends, output_processor,
                disconnect
  <2>2. /\ to_switch' \in Seq(KnownMessages) /\ todo' \in Seq(KnownMessages)
        /\ fills' \in Seq(KnownMessages) /\ output_queue' \in Seq(KnownMessages)
        /\ to_controller' \in Seq(SeenDigests)
        /\ input_queue' \in Seq(SeenDigests)
    <3>1. CASE init
      <4>1. Head(todo) \in KnownMessages /\ todo' \in Seq(KnownMessages)
        BY <1>0, <3>1, TailIsSeq DEF init
      <4> QED BY <1>0, <3>1, <4>1, AddedIsSeq DEF init, send_p4_msg, wires
    <3>2. CASE dhf_sends
      <4>1. Head(fills) \in KnownMessages /\ fills' \in Seq(KnownMessages)
        BY <1>0, <3>2, TailIsSeq DEF dhf_sends
      <4> QED BY <1>0, <3>2, <4>1, AddedIsSeq DEF dhf_sends, send_p4_msg, wires
    <3>3. CASE dhf
      <4>1. /\ UNCHANGED <<todo, to_switch, output_queue, to_controller>>
            /\ Head(input_queue) \in SeenDigests
            /\ input_queue' \in Seq(SeenDigests)
            /\ fills' = mac_learn_digest(Head(input_queue))
        BY <1>0, <3>3, TailIsSeq DEF dhf, wires
      <4>2. PICK a \in Macs, p \in Ports :
              /\ <<a, p>> \in seen
              /\ Head(input_queue) = mac_learn_digest_fields(a, p)
        BY <1>0, <4>1 DEF SeenDigests
      <4> DEFINE d == entry("dmac", a, p)
                 s == entry("smac", a, NONE)
      <4>3. fills' = <<d, s>>
        BY <4>1, <4>2, Answer
      <4>4. d \in KnownMessages /\ s \in KnownMessages
        BY <4>2 DEF KnownMessages, Messages, known, entry
      <4> HIDE DEF d, s
      <4>5. <<d, s>> \in Seq(KnownMessages)
        BY <4>4
      <4> QED BY <1>0, <4>1, <4>3, <4>5
    <3>4. CASE main_reads
      <4>1. /\ Head(to_controller) \in SeenDigests
            /\ to_controller' \in Seq(SeenDigests)
        BY <1>0, <3>4, TailIsSeq DEF main_reads
      <4> QED BY <1>0, <3>4, <4>1, AddedIsSeq DEF main_reads
    <3>5. CASE output_processor
      <4>1. /\ Head(output_queue) \in KnownMessages
            /\ output_queue' \in Seq(KnownMessages)
        BY <1>0, <3>5, TailIsSeq DEF output_processor
      <4> QED BY <1>0, <3>5, <4>1, AddedIsSeq DEF output_processor
    <3>6. CASE disconnect
      <4>1. to_switch' \in Seq(KnownMessages)
        BY <1>0, <3>6, PrefixIsSeq DEF disconnect
      <4>2. \A S : <<>> \in Seq(S)
        OBVIOUS
      <4> QED BY <3>6, <4>1, <4>2 DEF disconnect
    <3> QED BY <1>6, <3>1, <3>2, <3>3, <3>4, <3>5, <3>6 DEF handler
  <2> QED BY <2>1, <2>2
       DEF tables, LearnInv, LearnedWhereSeen, KnownMessages, SeenDigests,
           known, listed
<1>7. CASE UNCHANGED vars
  BY <1>1, <1>7 DEF vars
<1> QED
  BY <1>2, <1>3, <1>4, <1>5, <1>6, <1>7 DEF Next, ingress, handler

(* Whatever the lcores and the controller interleave, dmac has no port for *)
(* an address but one where it was seen or that the file lists.            *)
THEOREM LearnedPorts == Spec => []LearnedWhereSeen
<1>1. LearnInv => LearnedWhereSeen
  BY DEF LearnInv
<1> QED BY <1>1, InitLearned, StepLearned, TypesKept, PTL DEF Spec

(* Each step keeps packets on the ports of their destinations.             *)
LEMMA StepEgress ==
  TypeInv /\ LearnInv /\ EgressIsForDestination /\ [Next]_vars
    => EgressIsForDestination'
<1> SUFFICES ASSUME TypeInv, LearnInv, EgressIsForDestination, [Next]_vars,
                    NEW l \in Lcores, pd'[l].pc = "send"
             PROVE  \/ pd'[l].egress_port = Bcast
                    \/ <<pd'[l].dst, pd'[l].egress_port>> \in known'
                    \/ pd'[l].unready
  BY DEF EgressIsForDestination, known, listed
<1>0. /\ pd \in [Lcores -> Descriptors] /\ PacketInv
      /\ dmac \in [Macs -> Ports \cup {NONE}]
  BY DEF TypeInv, TypeOK, Descriptors
<1>1. known \subseteq known'
  BY DEF Next, vars, known, listed, ingress, handler, receive, apply_smac,
     apply_dmac, send_packet, recv_from_controller, init, main_reads, dhf,
     dhf_sends, output_processor, disconnect
<1>2. CASE pd'[l] = pd[l]
  BY <1>1, <1>2 DEF EgressIsForDestination, known, listed
<1>3. CASE apply_dmac(l)
  <2> DEFINE port == dmac[pd[l].dst]
  <2>1. /\ pd'[l].dst = pd[l].dst
        /\ port # NONE => pd'[l].egress_port = port
        /\ port = NONE /\ dmac_default = "bcast" => pd'[l].egress_port = Bcast
        /\ port = NONE /\ dmac_default # "bcast" => pd'[l].unready
    <3>1. dmac_default \in {"none", "bcast"}
      BY DEF TypeInv, TypeOK
    <3> QED BY <1>0, <1>3, <3>1 DEF apply_dmac, Descriptors
  <2>2. pd[l].dst \in Macs
    BY <1>0, <1>3 DEF apply_dmac, PacketInv
  <2>3. port # NONE => <<pd[l].dst, port>> \in known
    BY <2>2 DEF LearnInv, LearnedWhereSeen, known
  <2> QED BY <1>1, <2>1, <2>3
<1>4. pd'[l] = pd[l] \/ apply_dmac(l)
  <2>1. ASSUME NEW k \in Lcores, NEW src \in Macs, NEW dst \in Macs,
               NEW port \in Ports, receive(k, src, dst, port)
        PROVE  pd'[l] = pd[l]
    BY <1>0, <2>1 DEF receive, Descriptors
  <2>2. ASSUME NEW k \in Lcores, apply_smac(k) \/ send_packet(k)
        PROVE  pd'[l] = pd[l]
    BY <1>0, <2>2 DEF apply_smac, send_packet, idle, Descriptors
  <2>3. ASSUME NEW k \in Lcores, apply_dmac(k), k # l
        PROVE  pd'[l] = pd[l]
    BY <1>0, <2>3 DEF apply_dmac
  <2>4. CASE recv_from_controller \/ init \/ main_reads \/ handler
             \/ output_processor \/ disconnect \/ UNCHANGED vars
    BY <2>4 DEF recv_from_controller, init, main_reads, handler, dhf,
                dhf_sends, output_processor, disconnect, vars
  <2> QED BY <2>1, <2>2, <2>3, <2>4 DEF Next, ingress
<1> QED BY <1>2, <1>3, <1>4

(* Every packet that does not overtake the controller's defaults leaves    *)
(* for a port where its destination was seen or is listed, or for all.     *)
THEOREM EgressKept == Spec => []EgressIsForDestination
<1>1. Init => EgressIsForDestination
  BY DEF Init, EgressIsForDestination, idle
<1> QED
  BY <1>1, InitLearned, StepLearned, StepEgress, TypesKept, PTL DEF Spec
=============================================================================
