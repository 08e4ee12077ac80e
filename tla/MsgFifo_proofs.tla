--------------------------- MODULE MsgFifo_proofs ---------------------------
(***************************************************************************)
(* Theorems about MsgFifo, for every size of the ring, every set of        *)
(* consumers and every number of messages.                                 *)
(***************************************************************************)
EXTENDS MsgFifo, SequenceTheorems, TLAPS

(* An index that is reduced to the size of the ring is a slot.             *)
LEMMA ModSlot ==
  ASSUME NEW x \in Nat
  PROVE  x % QueueSize \in Slots
  BY FifoAssumption DEF Slots

(* The slot n places behind slot h: one turn of the ring is enough.        *)
LEMMA RingAdd ==
  ASSUME NEW h \in Slots, NEW n \in 0 .. QueueSize
  PROVE  (h + n) % QueueSize = IF h + n < QueueSize THEN h + n
                               ELSE h + n - QueueSize
  BY FifoAssumption DEF Slots

(* Going one slot on and n - 1 more is going n slots on ...               *)
LEMMA RingFromNext ==
  ASSUME NEW h \in Slots, NEW n \in 1 .. QueueSize
  PROVE  (((h + 1) % QueueSize) + (n - 1)) % QueueSize = (h + n) % QueueSize
<1> DEFINE g == (h + 1) % QueueSize
<1>1. g = IF h + 1 < QueueSize THEN h + 1 ELSE h + 1 - QueueSize
  BY RingAdd, FifoAssumption
<1>2. g \in Slots
  BY <1>1, FifoAssumption DEF Slots
<1> HIDE DEF g
<1>3. (g + (n - 1)) % QueueSize
        = IF g + (n - 1) < QueueSize THEN g + (n - 1) ELSE g + (n - 1) - QueueSize
  BY <1>2, RingAdd, FifoAssumption
<1>4. (h + n) % QueueSize
        = IF h + n < QueueSize THEN h + n ELSE h + n - QueueSize
  BY RingAdd
<1>5. (g + (n - 1)) % QueueSize = (h + n) % QueueSize
  BY <1>1, <1>3, <1>4, FifoAssumption DEF Slots
<1> QED
  BY <1>5 DEF g

(* ... and so is going n slots on and then one more.                       *)
LEMMA RingToNext ==
  ASSUME NEW h \in Slots, NEW n \in 0 .. QueueSize - 1
  PROVE  (((h + n) % QueueSize) + 1) % QueueSize = (h + (n + 1)) % QueueSize
<1> DEFINE g == (h + n) % QueueSize
<1>1. g = IF h + n < QueueSize THEN h + n ELSE h + n - QueueSize
  BY RingAdd, FifoAssumption
<1>2. g \in Slots
  BY <1>1, FifoAssumption DEF Slots
<1> HIDE DEF g
<1>3. (g + 1) % QueueSize
        = IF g + 1 < QueueSize THEN g + 1 ELSE g + 1 - QueueSize
  BY <1>2, RingAdd, FifoAssumption
<1>4. (h + (n + 1)) % QueueSize
        = IF h + (n + 1) < QueueSize THEN h + (n + 1) ELSE h + (n + 1) - QueueSize
  BY RingAdd, FifoAssumption
<1>5. (g + 1) % QueueSize = (h + (n + 1)) % QueueSize
  BY <1>1, <1>3, <1>4, FifoAssumption DEF Slots
<1> QED
  BY <1>5 DEF g

(* Different distances from a slot, less than a turn, are different slots. *)
LEMMA RingApart ==
  ASSUME NEW h \in Slots, NEW m \in 0 .. QueueSize - 1,
         NEW n \in 0 .. QueueSize - 1, m # n
  PROVE  (h + m) % QueueSize # (h + n) % QueueSize
<1>1. (h + m) % QueueSize
        = IF h + m < QueueSize THEN h + m ELSE h + m - QueueSize
  BY RingAdd, FifoAssumption
<1>2. (h + n) % QueueSize
        = IF h + n < QueueSize THEN h + n ELSE h + n - QueueSize
  BY RingAdd, FifoAssumption
<1> QED
  BY <1>1, <1>2, FifoAssumption DEF Slots

(* A slot is behind itself at distance zero.                               *)
LEMMA RingZero ==
  ASSUME NEW h \in Slots
  PROVE  h % QueueSize = h
  BY FifoAssumption DEF Slots

(* Two sequences are equal when they agree on every index: the case of a   *)
(* sequence with one more element ...                                      *)
LEMMA AppendEqual ==
  ASSUME NEW S, NEW s \in Seq(S), NEW t \in Seq(S), NEW e \in S,
         Len(t) = Len(s) + 1, t[Len(s) + 1] = e,
         \A i \in 1 .. Len(s) : t[i] = s[i]
  PROVE  t = Append(s, e)
<1>1. Append(s, e) \in Seq(S) /\ Len(Append(s, e)) = Len(s) + 1
  OBVIOUS
<1>2. \A i \in 1 .. Len(t) : t[i] = Append(s, e)[i]
  OBVIOUS
<1> QED
  BY <1>1, <1>2, SeqEqual

(* ... and of a sequence without its first element.                        *)
LEMMA TailEqual ==
  ASSUME NEW S, NEW s \in Seq(S), NEW t \in Seq(S), s # <<>>,
         Len(t) = Len(s) - 1,
         \A i \in 1 .. Len(t) : t[i] = s[i + 1]
  PROVE  t = Tail(s)
  BY HeadTailProperties, SeqEqual

(* The variables of the ring and of its consumers keep their types; in     *)
(* particular the indices stay inside the ring and its size within         *)
(* P4_BG_QUEUE_SIZE.                                                       *)
THEOREM TypeCorrect == Spec => []TypeOK
<1>1. Init => TypeOK
  BY FifoAssumption DEF Init, TypeOK, Slots
<1>2. TypeOK /\ [Next]_vars => TypeOK'
  <2> SUFFICES ASSUME TypeOK, [Next]_vars
               PROVE  TypeOK'
    OBVIOUS
  <2> USE FifoAssumption
  <2>1. CASE fifo_add_msg
    <3>1. CASE ~full
      <4>1. (tail + 1) % QueueSize \in Slots
        <5>1. tail + 1 \in Nat
          BY DEF TypeOK, Slots
        <5> QED
          BY <5>1, ModSlot
      <4>2. added' \in Msgs
        BY <2>1 DEF fifo_add_msg, TypeOK, Msgs
      <4>3. pc' \in [Consumers -> {"wait", "blocked", "remove", "process"}]
        BY <2>1, <3>1 DEF fifo_add_msg, TypeOK, signal_not_empty
      <4> QED
        BY <2>1, <3>1, <4>1, <4>2, <4>3 DEF fifo_add_msg, full, TypeOK
    <3>2. CASE full
      BY <2>1, <3>2 DEF fifo_add_msg, TypeOK
    <3> QED
      BY <3>1, <3>2
  <2>2. ASSUME NEW c \in Consumers, fifo_wait(c)
        PROVE  TypeOK'
    BY <2>2 DEF fifo_wait, TypeOK
  <2>3. ASSUME NEW c \in Consumers, spurious_wakeup(c)
        PROVE  TypeOK'
    BY <2>3 DEF spurious_wakeup, TypeOK
  <2>4. ASSUME NEW c \in Consumers, fifo_remove_msg(c)
        PROVE  TypeOK'
    <3>1. (head + 1) % QueueSize \in Slots
      <4>1. head + 1 \in Nat
        BY DEF TypeOK, Slots
      <4> QED
        BY <4>1, ModSlot
    <3> QED
      BY <2>4, <3>1 DEF fifo_remove_msg, TypeOK
  <2>5. ASSUME NEW c \in Consumers, processed(c)
        PROVE  TypeOK'
    BY <2>5 DEF processed, TypeOK
  <2>6. CASE UNCHANGED vars
    BY <2>6 DEF vars, TypeOK
  <2> QED
    BY <2>1, <2>2, <2>3, <2>4, <2>5, <2>6 DEF Next
<1> QED
  BY <1>1, <1>2, PTL DEF Spec

(* While a message is queued, some consumer is not blocked: no wakeup is   *)
(* lost, although a signal wakes one thread only.                          *)
THEOREM WakeupKept == Spec => []NoLostWakeup
<1>1. Init => NoLostWakeup
  BY DEF Init, NoLostWakeup
<1>2. TypeOK /\ NoLostWakeup /\ [Next]_vars => NoLostWakeup'
  <2> SUFFICES ASSUME TypeOK, NoLostWakeup, [Next]_vars, size' > 0
               PROVE  \E c \in Consumers : pc'[c] # "blocked"
    BY DEF NoLostWakeup, waiting
  <2> USE DEF TypeOK
  <2>1. CASE fifo_add_msg
    <3>1. CASE ~full /\ waiting = {}
      <4>1. PICK c \in Consumers : TRUE
        BY FifoAssumption
      <4> QED
        BY <2>1, <3>1, <4>1 DEF fifo_add_msg, signal_not_empty, waiting
    <3>2. CASE ~full /\ waiting # {}
      <4>1. PICK c \in waiting : pc' = [pc EXCEPT ![c] = "remove"]
        BY <2>1, <3>2 DEF fifo_add_msg, signal_not_empty
      <4> QED
        BY <4>1 DEF waiting
    <3>3. CASE full
      BY <2>1, <3>3, FifoAssumption DEF fifo_add_msg, full, NoLostWakeup, waiting
    <3> QED
      BY <3>1, <3>2, <3>3
  <2>2. ASSUME NEW c \in Consumers, fifo_wait(c)
        PROVE  \E d \in Consumers : pc'[d] # "blocked"
    BY <2>2 DEF fifo_wait
  <2>3. ASSUME NEW c \in Consumers, spurious_wakeup(c)
        PROVE  \E d \in Consumers : pc'[d] # "blocked"
    BY <2>3 DEF spurious_wakeup
  <2>4. ASSUME NEW c \in Consumers, fifo_remove_msg(c)
        PROVE  \E d \in Consumers : pc'[d] # "blocked"
    BY <2>4 DEF fifo_remove_msg
  <2>5. ASSUME NEW c \in Consumers, processed(c)
        PROVE  \E d \in Consumers : pc'[d] # "blocked"
    BY <2>5 DEF processed
  <2>6. CASE UNCHANGED vars
    BY <2>6 DEF vars, NoLostWakeup, waiting
  <2> QED
    BY <2>1, <2>2, <2>3, <2>4, <2>5, <2>6 DEF Next
<1> QED
  BY <1>1, <1>2, TypeCorrect, PTL DEF Spec

-----------------------------------------------------------------------------
(* The ring implements the bounded queue.                                  *)

(* The slot after the tail is the one behind the last message, also when   *)
(* the ring has wrapped between the head and the tail.                     *)
RingInv == (tail + 1) % QueueSize = (head + size) % QueueSize

(* RingInv holds in every state; the indices of head and tail wrap         *)
(* independently of each other.                                            *)
THEOREM RingCorrect == Spec => []RingInv
<1>1. Init => RingInv
  BY DEF Init, RingInv
<1>2. TypeOK /\ TypeOK' /\ RingInv /\ [Next]_vars => RingInv'
  <2> SUFFICES ASSUME TypeOK, TypeOK', RingInv, [Next]_vars
               PROVE  RingInv'
    OBVIOUS
  <2> USE FifoAssumption
  <2>1. CASE fifo_add_msg
    <3>1. CASE ~full
      <4>1. tail' = (head + size) % QueueSize /\ size' = size + 1 /\ head' = head
        BY <2>1, <3>1 DEF fifo_add_msg, RingInv
      <4>2. head \in Slots /\ size \in 0 .. QueueSize - 1
        BY <3>1 DEF full, TypeOK
      <4> QED
        BY <4>1, <4>2, RingToNext DEF RingInv
    <3>2. CASE full
      BY <2>1, <3>2 DEF fifo_add_msg, RingInv
    <3> QED
      BY <3>1, <3>2
  <2>2. ASSUME NEW c \in Consumers, fifo_remove_msg(c)
        PROVE  RingInv'
    <3>1. CASE size > 0
      <4>1. head' = (head + 1) % QueueSize /\ size' = size - 1 /\ tail' = tail
        BY <2>2, <3>1 DEF fifo_remove_msg
      <4>2. head \in Slots /\ size \in 1 .. QueueSize
        BY <3>1 DEF TypeOK
      <4> QED
        BY <4>1, <4>2, RingFromNext DEF RingInv
    <3>2. CASE size = 0
      BY <2>2, <3>2 DEF fifo_remove_msg, RingInv
    <3> QED
      BY <2>2, <3>1, <3>2 DEF fifo_remove_msg
  <2>3. CASE UNCHANGED <<head, size, tail>>
    BY <2>3 DEF RingInv
  <2> QED
    BY <2>1, <2>2, <2>3
    DEF Next, fifo_wait, spurious_wakeup, processed, vars
<1> QED
  BY <1>1, <1>2, TypeCorrect, PTL DEF Spec

(* What the ring holds is a sequence of as many messages as its size says. *)
ItemsTyped == items \in Seq(Msgs \union {NULL}) /\ Len(items) = size

(* Typed slots and indices make a typed abstract queue.                    *)
LEMMA ItemsAreTyped == TypeOK => ItemsTyped
<1> SUFFICES ASSUME TypeOK
             PROVE  ItemsTyped
  OBVIOUS
<1>1. \A i \in 1 .. size : (head + i - 1) % QueueSize \in Slots
  <2>1. \A i \in 1 .. size : head + i - 1 \in Nat
    BY FifoAssumption DEF TypeOK, Slots
  <2> QED
    BY <2>1, ModSlot
<1> QED
  BY <1>1 DEF items, TypeOK, ItemsTyped

(* Every step of the ring is a step of the bounded queue or a stutter:     *)
(* messages leave in the order in which they came, each goes to one        *)
(* consumer, and only a full queue refuses one.                            *)
THEOREM RingImplementsQueue == Spec => ImplementsBoundedFifo
<1>1. Init => Fifo!Init
  <2> SUFFICES ASSUME Init
               PROVE  items = <<>> /\ Fifo!Init
    OBVIOUS
  <2>1. items = <<>>
    BY DEF Init, items
  <2> QED
    BY <2>1 DEF Init, Fifo!Init
<1>2. /\ TypeOK /\ TypeOK' /\ RingInv /\ ItemsTyped /\ ItemsTyped'
      /\ [Next]_vars
      => [Fifo!Next]_(Fifo!vars)
  <2> SUFFICES ASSUME TypeOK, TypeOK', RingInv, ItemsTyped, ItemsTyped',
                      [Next]_vars
               PROVE  Fifo!Next \/ UNCHANGED Fifo!vars
    BY DEF Fifo!vars
  <2> USE FifoAssumption
  <2>1. /\ items \in Seq(Msgs \union {NULL}) /\ Len(items) = size
        /\ items' \in Seq(Msgs \union {NULL}) /\ Len(items') = size'
    BY DEF ItemsTyped
  <2>2. CASE fifo_add_msg
    <3>1. CASE ~full
      <4> DEFINE new == added + 1
      <4>1. /\ tail' = (head + size) % QueueSize
            /\ size' = size + 1 /\ size < QueueSize
            /\ head' = head /\ added' = new /\ taken' = taken
            /\ queue' = [queue EXCEPT ![tail'] = new]
        BY <2>2, <3>1 DEF fifo_add_msg, RingInv, full, TypeOK
      <4>2. \A i \in 1 .. size : items'[i] = items[i]
        <5> SUFFICES ASSUME NEW i \in 1 .. size
                     PROVE  items'[i] = items[i]
          OBVIOUS
        <5>1. /\ head \in Slots /\ size \in 0 .. QueueSize - 1
              /\ i - 1 \in 0 .. QueueSize - 1 /\ i - 1 # size
          BY <4>1 DEF TypeOK
        <5>2. (head + (i - 1)) % QueueSize # tail'
          BY <4>1, <5>1, RingApart
        <5>3. head + i - 1 = head + (i - 1)
          BY DEF TypeOK, Slots
        <5>4. (head + i - 1) % QueueSize \in Slots
          <6>1. head + i - 1 \in Nat
            BY DEF TypeOK, Slots
          <6> QED
            BY <6>1, ModSlot
        <5> QED
          BY <4>1, <5>2, <5>3, <5>4 DEF items, TypeOK
      <4>3. items'[size + 1] = new
        <5>1. head + (size + 1) - 1 = head + size
          BY DEF TypeOK, Slots
        <5>2. tail' \in Slots
          BY <4>1, ModSlot DEF TypeOK, Slots
        <5> QED
          BY <4>1, <5>1, <5>2 DEF items, TypeOK
      <4>4. items' = Append(items, new)
        <5>1. new \in Msgs
          BY <2>2 DEF fifo_add_msg, TypeOK, Msgs
        <5>2. /\ Len(items') = Len(items) + 1
              /\ items'[Len(items) + 1] = new
              /\ \A i \in 1 .. Len(items) : items'[i] = items[i]
          BY <2>1, <4>1, <4>2, <4>3
        <5> QED
          BY <2>1, <5>1, <5>2, AppendEqual
      <4>5. Fifo!Put
        BY <2>1, <4>1, <4>4 DEF Fifo!Put
      <4> QED
        BY <4>5 DEF Fifo!Next
    <3>2. CASE full
      <4>1. items' = items
        BY <2>2, <3>2 DEF fifo_add_msg, items
      <4>2. Fifo!Put
        BY <2>1, <2>2, <3>2, <4>1 DEF fifo_add_msg, full, Fifo!Put, TypeOK
      <4> QED
        BY <4>2 DEF Fifo!Next
    <3> QED
      BY <3>1, <3>2
  <2>3. ASSUME NEW c \in Consumers, fifo_remove_msg(c)
        PROVE  Fifo!Next \/ UNCHANGED Fifo!vars
    <3>1. CASE size > 0
      <4>1. /\ head' = (head + 1) % QueueSize /\ size' = size - 1
            /\ taken' = [taken EXCEPT ![c] = queue[head]]
            /\ queue' = queue /\ added' = added
        BY <2>3, <3>1 DEF fifo_remove_msg
      <4>2. items[1] = queue[head]
        <5>1. head + 1 - 1 = head /\ 1 \in 1 .. size
          BY <3>1 DEF TypeOK, Slots
        <5> QED
          BY <5>1, RingZero DEF items, TypeOK
      <4>3. \A i \in 1 .. size - 1 : items'[i] = items[i + 1]
        <5> SUFFICES ASSUME NEW i \in 1 .. size - 1
                     PROVE  items'[i] = items[i + 1]
          OBVIOUS
        <5>1. head \in Slots /\ i \in 1 .. QueueSize
          BY DEF TypeOK
        <5>2. (head' + (i - 1)) % QueueSize = (head + i) % QueueSize
          BY <4>1, <5>1, RingFromNext
        <5>3. head' + i - 1 = head' + (i - 1) /\ head + (i + 1) - 1 = head + i
          BY DEF TypeOK, Slots
        <5> QED
          BY <4>1, <5>2, <5>3 DEF items, TypeOK
      <4>4. items # <<>> /\ Head(items) = queue[head]
        BY <2>1, <3>1, <4>2 DEF TypeOK
      <4>5. items' = Tail(items)
        <5>1. /\ Len(items') = Len(items) - 1
              /\ \A i \in 1 .. Len(items') : items'[i] = items[i + 1]
          BY <2>1, <4>1, <4>3
        <5> QED
          BY <2>1, <4>4, <5>1, TailEqual
      <4>6. Fifo!Take(c)
        BY <4>1, <4>4, <4>5 DEF Fifo!Take
      <4> QED
        BY <4>6 DEF Fifo!Next
    <3>2. CASE size = 0
      <4>1. UNCHANGED <<queue, head, size, taken, added>>
        BY <2>3, <3>2 DEF fifo_remove_msg
      <4> QED
        BY <4>1 DEF items, Fifo!vars
    <3> QED
      BY <2>3, <3>1, <3>2 DEF fifo_remove_msg
  <2>4. ASSUME NEW c \in Consumers, processed(c)
        PROVE  Fifo!Next \/ UNCHANGED Fifo!vars
    <3>1. items' = items
      BY <2>4 DEF processed, items
    <3>2. Fifo!Finish(c)
      BY <2>4, <3>1 DEF processed, Fifo!Finish
    <3> QED
      BY <3>2 DEF Fifo!Next
  <2>5. ASSUME UNCHANGED <<queue, head, size, taken, added>>
        PROVE  UNCHANGED Fifo!vars
    BY <2>5 DEF items, Fifo!vars
  <2> QED
    BY <2>2, <2>3, <2>4, <2>5 DEF Next, fifo_wait, spurious_wakeup, vars
<1> QED
  BY <1>1, <1>2, TypeCorrect, RingCorrect, ItemsAreTyped, PTL
  DEF Spec, ImplementsBoundedFifo, Fifo!Spec
=============================================================================
