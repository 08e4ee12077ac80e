------------------------------- MODULE MsgFifo -------------------------------
(***************************************************************************)
(* fifo.c: the ring of message pointers between two threads of the control *)
(* plane, with its mutex and the condition variable not_empty.  Each       *)
(* critical section is one step.  A consumer is one of the threads that    *)
(* loop over fifo_wait and fifo_remove_msg (input_processor and            *)
(* output_processor, of the switch's backend and of the controller); any   *)
(* thread may add.                                                         *)
(*                                                                         *)
(* fifo_wait waits at most once and does not look at the size again after  *)
(* a wakeup, so a consumer can find the queue empty when it removes; it    *)
(* then goes back to fifo_wait.                                            *)
(*                                                                         *)
(* Messages are numbered in the order of the calls of fifo_add_msg;        *)
(* MaxMsgs bounds those calls.                                             *)
(***************************************************************************)
EXTENDS Integers, Sequences

CONSTANTS QueueSize,   \* P4_BG_QUEUE_SIZE
          Consumers,   \* the threads that remove messages
          MaxMsgs,     \* bound: how many messages are added
          NULL         \* the null pointer

ASSUME FifoAssumption == /\ QueueSize \in Nat \ {0}
                         /\ Consumers # {}
                         /\ MaxMsgs \in Nat
                         /\ NULL \notin 1 .. MaxMsgs

Msgs  == 1 .. MaxMsgs
Slots == 0 .. QueueSize - 1

VARIABLES queue, head, size, tail,   \* struct fifo_st
          pc,      \* where each consumer is in its loop
          taken,   \* the message a consumer is processing
          added    \* how often fifo_add_msg was called

vars == <<queue, head, size, tail, pc, taken, added>>

-----------------------------------------------------------------------------

Init == /\ queue = [i \in Slots |-> NULL]
        /\ head = 0
        /\ size = 0
        /\ tail = -1
        /\ pc = [c \in Consumers |-> "wait"]
        /\ taken = [c \in Consumers |-> NULL]
        /\ added = 0

waiting == {c \in Consumers : pc[c] = "blocked"}

\* Seeded bug: the signal is forgotten.
signal_not_empty_missing == UNCHANGED pc

\* pthread_cond_signal: one thread blocked on not_empty, if there is one,
\* leaves pthread_cond_wait and with it fifo_wait.
signal_not_empty ==
  IF waiting = {} THEN UNCHANGED pc
  ELSE \E c \in waiting : pc' = [pc EXCEPT ![c] = "remove"]

\* Seeded bug: one message too many is accepted.
full_off_by_one == size > QueueSize

full == size >= QueueSize

fifo_add_msg ==
  /\ added < MaxMsgs
  /\ added' = added + 1
  /\ \/ /\ ~full
        /\ tail' = (tail + 1) % QueueSize
        /\ size' = size + 1
        /\ queue' = [queue EXCEPT ![tail'] = added']
        /\ signal_not_empty
     \/ /\ full
        /\ UNCHANGED <<queue, size, tail, pc>>
  /\ UNCHANGED <<head, taken>>

\* Seeded bug: the size is not looked at before the thread blocks.
fifo_wait_untested(c) ==
  /\ pc[c] = "wait"
  /\ pc' = [pc EXCEPT ![c] = "blocked"]
  /\ UNCHANGED <<queue, head, size, tail, taken, added>>

fifo_wait(c) ==
  /\ pc[c] = "wait"
  /\ pc' = [pc EXCEPT ![c] = IF size = 0 THEN "blocked" ELSE "remove"]
  /\ UNCHANGED <<queue, head, size, tail, taken, added>>

\* POSIX lets pthread_cond_wait return without a signal.
spurious_wakeup(c) ==
  /\ pc[c] = "blocked"
  /\ pc' = [pc EXCEPT ![c] = "remove"]
  /\ UNCHANGED <<queue, head, size, tail, taken, added>>

\* Seeded bug: the head does not wrap.
fifo_remove_msg_no_wrap(c) ==
  /\ pc[c] = "remove"
  /\ \/ /\ size > 0 /\ head < QueueSize
        /\ taken' = [taken EXCEPT ![c] = queue[head]]
        /\ head' = head + 1
        /\ size' = size - 1
        /\ pc' = [pc EXCEPT ![c] = "process"]
     \/ /\ size = 0
        /\ pc' = [pc EXCEPT ![c] = "wait"]
        /\ UNCHANGED <<head, size, taken>>
  /\ UNCHANGED <<queue, tail, added>>

fifo_remove_msg(c) ==
  /\ pc[c] = "remove"
  /\ \/ /\ size > 0
        /\ taken' = [taken EXCEPT ![c] = queue[head]]
        /\ head' = (head + 1) % QueueSize
        /\ size' = size - 1
        /\ pc' = [pc EXCEPT ![c] = "process"]
     \/ /\ size = 0
        /\ pc' = [pc EXCEPT ![c] = "wait"]
        /\ UNCHANGED <<head, size, taken>>
  /\ UNCHANGED <<queue, tail, added>>

\* The consumer is done with the message and calls fifo_wait again.
processed(c) ==
  /\ pc[c] = "process"
  /\ taken' = [taken EXCEPT ![c] = NULL]
  /\ pc' = [pc EXCEPT ![c] = "wait"]
  /\ UNCHANGED <<queue, head, size, tail, added>>

Next == \/ fifo_add_msg
        \/ \E c \in Consumers : \/ fifo_wait(c)
                                \/ spurious_wakeup(c)
                                \/ fifo_remove_msg(c)
                                \/ processed(c)

Spec == Init /\ [][Next]_vars

\* A consumer that can take a step of its loop does; nothing is assumed of
\* producers or of spurious wakeups.
FairSpec == Spec /\ \A c \in Consumers : WF_vars(\/ fifo_wait(c)
                                                 \/ fifo_remove_msg(c)
                                                 \/ processed(c))

-----------------------------------------------------------------------------

TypeOK == /\ queue \in [Slots -> Msgs \union {NULL}]
          /\ head \in Slots
          /\ size \in 0 .. QueueSize
          /\ tail \in Slots \union {-1}
          /\ pc \in [Consumers -> {"wait", "blocked", "remove", "process"}]
          /\ taken \in [Consumers -> Msgs \union {NULL}]
          /\ added \in 0 .. MaxMsgs

(* No wakeup is lost: while a message is queued some consumer is awake,    *)
(* although fifo_add_msg signals one thread only and fifo_wait tests the   *)
(* size only once.                                                         *)
NoLostWakeup == size > 0 => waiting # Consumers

(* The ring seen as a sequence, oldest message first.                      *)
items == [i \in 1 .. size |-> queue[(head + i - 1) % QueueSize]]

(* fifo.c implements a bounded queue: order kept, every message to one     *)
(* consumer, nothing overwritten when the ring wraps or is full.           *)
Fifo == INSTANCE BoundedFifo WITH Capacity <- QueueSize
ImplementsBoundedFifo == Fifo!Spec

(* Every message that found room is in the end taken by a consumer.        *)
Queued(m) == \E i \in DOMAIN items : items[i] = m
EveryMsgTaken ==
  \A m \in Msgs : Queued(m) ~> \E c \in Consumers : taken[c] = m
=============================================================================
