------------------------------ MODULE Controller ------------------------------
(***************************************************************************)
(* The controller's side of the control plane (controller.c): the main     *)
(* thread accepts switches, reads their digests and initialises each new   *)
(* switch; the threads of the pool run one output_processor and one        *)
(* input_processor per accepted connection, as long as there are threads.  *)
(* The two queues are shared by all connections, and an output_processor   *)
(* writes to the descriptor its connection once had.                       *)
(*                                                                         *)
(* The queues are used at the level of BoundedFifo.  The pool is used as   *)
(* ThreadPool shows it to be when no dispatch meets a thread on its way    *)
(* into pthread_cond_wait: a dispatch that finds jobs in the list signals  *)
(* nobody.  The jobs dispatched here never end.                            *)
(*                                                                         *)
(* A connection is numbered in the order in which the switches connect, a  *)
(* digest per connection, a message in the order of calls of send_p4_msg.  *)
(* accept reads its length argument uninitialised: a garbage value is in   *)
(* range or not, and accept leaves it alone when it fails.                 *)
(*                                                                         *)
(* Not here: destroy_controller, which main calls after an endless loop.   *)
(***************************************************************************)
EXTENDS Integers, Sequences, FiniteSets

CONSTANTS PoolThreads,   \* the three threads of create_threadpool(3)
          QueueSize,     \* P4_BG_QUEUE_SIZE
          InitMsgs,      \* how many messages the init function sends
          DigestMsgs,    \* how many messages the digest handler sends
          NetSize,       \* bound: digests under way on a connection
          MaxConns,      \* bound: connections
          MaxDigests,    \* bound: digests of all connections together
          NULL           \* the null pointer

Conns == 1 .. MaxConns
Fds   == 1 .. MaxConns   \* the descriptors above the listening one
Jobs  == [fn : {"output", "input"}, sock_fd : Fds]
Digests == Conns \X (1 .. MaxDigests)   \* a digest: its switch, its number

ASSUME ControllerAssumption ==
  /\ QueueSize \in Nat \ {0}
  /\ {InitMsgs, DigestMsgs, NetSize, MaxConns, MaxDigests} \subseteq Nat
  /\ IsFiniteSet(PoolThreads) /\ Cardinality(PoolThreads) = 3
  /\ NULL \notin Nat \union Jobs \union Digests

VARIABLES
  fd,            \* the connection a descriptor refers to, 0 if it is closed
  peer,          \* what the switch did with a connection
  accepted,      \* how many connections were taken from the backlog
  length_valid,  \* the garbage in length is a length accept accepts
  to_controller, \* the digests under way on each connection
  main, conn, init_left,      \* execute_controller: where it is, its new
                              \* descriptor, what init has still to send
  jobs, thread, job,  \* the pool: queued jobs, where each thread is, its job
  cell, digest,  \* the mem_cell of an output_processor, of an input_processor
  to_send,       \* what the handler of a digest has still to send
  input_queue, output_queue,
  alive          \* no write met SIGPIPE

\* What happened so far: calls of send_p4_msg, digests sent per connection (and
\* not lost by a reset), digests handled and messages written, in order.
VARIABLES added, sent, handled, written

network == <<peer, to_controller, sent>>
exec    == <<fd, accepted, main, conn, init_left>>
pool    == <<jobs, thread, job>>
work    == <<cell, digest, to_send, handled, written>>
fifos   == <<input_queue, output_queue, added>>
controllervars == <<network, exec, pool, work, fifos, length_valid, alive>>

-----------------------------------------------------------------------------

ControllerInit ==
  /\ fd = [f \in Fds |-> 0]
  /\ peer = [c \in Conns |-> "none"]
  /\ accepted = 0
  /\ length_valid \in BOOLEAN
  /\ to_controller = [c \in Conns |-> <<>>]
  /\ main = "select" /\ conn = 0 /\ init_left = 0
  /\ jobs = <<>>
  /\ thread = [t \in PoolThreads |-> "blocked"]
  /\ job = [t \in PoolThreads |-> NULL]
  /\ cell = [t \in PoolThreads |-> NULL]
  /\ digest = [t \in PoolThreads |-> NULL]
  /\ to_send = 0
  /\ input_queue = <<>> /\ output_queue = <<>>
  /\ alive = TRUE
  /\ added = 0
  /\ sent = [c \in Conns |-> 0]
  /\ handled = <<>> /\ written = <<>>

fifo_add_msg(q, m) == IF Len(q) < QueueSize THEN Append(q, m) ELSE q

\* send_p4_msg; a message that finds the queue full is lost.
send_p4_msg == /\ added' = added + 1
               /\ output_queue' = fifo_add_msg(output_queue, added')

-----------------------------------------------------------------------------
(* execute_controller                                                      *)

MainGoto(from, to) == /\ alive
                      /\ main = from
                      /\ main' = to

\* accept returns the lowest descriptor that is free.
lowest_free(f) == fd[f] = 0 /\ \A g \in 1 .. f - 1 : fd[g] # 0

pending == accepted < MaxConns /\ peer[accepted + 1] # "none"

accepts == /\ MainGoto("select", "dispatch_output")
           /\ pending /\ length_valid
           /\ accepted' = accepted + 1
           /\ \E f \in Fds : /\ lowest_free(f)
                             /\ fd' = [fd EXCEPT ![f] = accepted']
                             /\ conn' = f
           /\ UNCHANGED <<network, init_left, pool, work, fifos, length_valid,
                          alive>>

\* accept has taken the connection, cannot return its address and closes it.
accept_fails == /\ MainGoto("select", "select")
                /\ pending /\ ~length_valid
                /\ accepted' = accepted + 1
                /\ UNCHANGED <<network, fd, conn, init_left, pool, work, fifos,
                               length_valid, alive>>

dispatch(fn) ==
  /\ jobs' = Append(jobs, [fn |-> fn, sock_fd |-> conn])
  /\ LET blocked == {t \in PoolThreads : thread[t] = "blocked"}
     IN  IF jobs = <<>> /\ blocked # {}
         THEN \E t \in blocked : thread' = [thread EXCEPT ![t] = "woken"]
         ELSE UNCHANGED thread
  /\ UNCHANGED job

\* Seeded bug: the two processors are dispatched in the other order.
dispatch_output_swapped == /\ MainGoto("dispatch_output", "sleep")
                           /\ dispatch("input")
                           /\ UNCHANGED <<network, fd, accepted, conn,
                                          init_left, work, fifos,
                                          length_valid, alive>>

dispatch_output == /\ MainGoto("dispatch_output", "sleep")
                   /\ dispatch("output")
                   /\ UNCHANGED <<network, fd, accepted, conn, init_left, work,
                                  fifos, length_valid, alive>>

\* Seeded bug: the second job does not wait for the first to be taken.
dispatch_input_at_once ==
  /\ MainGoto("sleep", "init")
  /\ dispatch("input")
  /\ init_left' = InitMsgs
  /\ UNCHANGED <<network, fd, accepted, conn, work, fifos, length_valid, alive>>

\* sleep(1) is long enough for a woken thread to take its job.
dispatch_input == /\ MainGoto("sleep", "init")
                  /\ \A t \in PoolThreads : thread[t] # "woken"
                  /\ dispatch("input")
                  /\ init_left' = InitMsgs
                  /\ UNCHANGED <<network, fd, accepted, conn, work, fifos,
                                 length_valid, alive>>

init_sends == /\ init_left > 0
              /\ MainGoto("init", "init")
              /\ init_left' = init_left - 1
              /\ send_p4_msg
              /\ UNCHANGED <<network, fd, accepted, conn, pool, work,
                             input_queue, length_valid, alive>>

init_returns == /\ init_left = 0
                /\ MainGoto("init", "select")
                /\ UNCHANGED <<network, fd, accepted, conn, init_left, pool,
                               work, fifos, length_valid, alive>>

\* read_p4_msg > 0
main_reads(f) == /\ MainGoto("select", "select")
                 /\ fd[f] # 0
                 /\ to_controller[fd[f]] # <<>>
                 /\ input_queue' = fifo_add_msg(input_queue,
                                     <<fd[f], Head(to_controller[fd[f]])>>)
                 /\ to_controller' = [to_controller EXCEPT ![fd[f]] = Tail(@)]
                 /\ UNCHANGED <<peer, sent, fd, accepted, conn,
                                init_left, pool, work, output_queue, added,
                                length_valid, alive>>

\* read_p4_msg = 0: the output_processor of the connection is not told.
main_meets_eof(f) == /\ MainGoto("select", "select")
                     /\ fd[f] # 0
                     /\ peer[fd[f]] = "fin" /\ to_controller[fd[f]] = <<>>
                     /\ fd' = [fd EXCEPT ![f] = 0]
                     /\ UNCHANGED <<network, accepted, conn, init_left, pool,
                                    work, fifos, length_valid, alive>>

\* read_p4_msg < 0: nothing is closed; the socket reports a reset once.
main_meets_error(f) == /\ MainGoto("select", "select")
                       /\ fd[f] # 0
                       /\ peer[fd[f]] = "rst" /\ to_controller[fd[f]] = <<>>
                       /\ peer' = [peer EXCEPT ![fd[f]] = "fin"]
                       /\ UNCHANGED <<to_controller, sent, fd,
                                      accepted, conn, init_left, pool, work,
                                      fifos, length_valid, alive>>

-----------------------------------------------------------------------------
(* The threads of the pool.                                                *)

takes_job(t) == /\ alive
                /\ thread[t] = "woken"
                /\ \/ /\ jobs # <<>>
                      /\ thread' = [thread EXCEPT ![t] = "runs"]
                      /\ job' = [job EXCEPT ![t] = Head(jobs)]
                      /\ jobs' = Tail(jobs)
                   \/ /\ jobs = <<>>
                      /\ thread' = [thread EXCEPT ![t] = "blocked"]
                      /\ UNCHANGED <<jobs, job>>
                /\ UNCHANGED <<network, exec, work, fifos, length_valid, alive>>

\* POSIX lets pthread_cond_wait return without a signal.
spurious_wakeup(t) == /\ alive
                      /\ thread[t] = "blocked"
                      /\ thread' = [thread EXCEPT ![t] = "woken"]
                      /\ UNCHANGED <<network, exec, jobs, job, work, fifos,
                                     length_valid, alive>>

Runs(t, fn) == thread[t] = "runs" /\ job[t].fn = fn

output_takes(t) == /\ alive /\ Runs(t, "output")
                   /\ cell[t] = NULL
                   /\ output_queue # <<>>
                   /\ cell' = [cell EXCEPT ![t] = Head(output_queue)]
                   /\ output_queue' = Tail(output_queue)
                   /\ UNCHANGED <<network, exec, pool, digest, to_send, handled,
                                  written, input_queue, added, length_valid,
                                  alive>>

\* The connection the descriptor of an output_processor refers to now, if any.
wired(t) == fd[job[t].sock_fd]

\* On a descriptor that is closed, or whose switch is gone, the message is
\* lost; the result of write_p4_msg is not looked at.
output_writes(t) ==
  /\ alive /\ Runs(t, "output")
  /\ cell[t] # NULL
  /\ written' = Append(written, cell[t])
  /\ cell' = [cell EXCEPT ![t] = NULL]
  /\ UNCHANGED <<network, exec, pool, digest, to_send, handled, fifos,
                 length_valid, alive>>

input_takes(t) == /\ alive /\ Runs(t, "input")
                  /\ digest[t] = NULL
                  /\ input_queue # <<>>
                  /\ digest' = [digest EXCEPT ![t] = Head(input_queue)]
                  /\ input_queue' = Tail(input_queue)
                  /\ to_send' = DigestMsgs
                  /\ UNCHANGED <<network, exec, pool, cell, handled, written,
                                 output_queue, added, length_valid, alive>>

\* The digest handler answers a digest with new table entries.
input_sends(t) == /\ alive /\ Runs(t, "input")
                  /\ digest[t] # NULL /\ to_send > 0
                  /\ to_send' = to_send - 1
                  /\ send_p4_msg
                  /\ UNCHANGED <<network, exec, pool, cell, digest, handled,
                                 written, input_queue, length_valid, alive>>

input_frees(t) == /\ alive /\ Runs(t, "input")
                  /\ digest[t] # NULL /\ to_send = 0
                  /\ handled' = Append(handled, digest[t])
                  /\ digest' = [digest EXCEPT ![t] = NULL]
                  /\ UNCHANGED <<network, exec, pool, cell, to_send, written,
                                 fifos, length_valid, alive>>

\* A second write to a connection the switch gave up; nothing handles the
\* signal.
dies == /\ alive
        /\ \E t \in PoolThreads : /\ Runs(t, "output")
                                  /\ cell[t] # NULL
                                  /\ wired(t) # 0
                                  /\ peer[wired(t)] \in {"fin", "rst"}
        /\ alive' = FALSE
        /\ UNCHANGED <<network, exec, pool, work, fifos, length_valid>>

-----------------------------------------------------------------------------
(* The switches.                                                           *)

switch_connects(c) == /\ alive
                      /\ peer[c] = "none"
                      /\ \A b \in 1 .. c - 1 : peer[b] # "none"
                      /\ peer' = [peer EXCEPT ![c] = "up"]
                      /\ UNCHANGED <<to_controller, sent, exec, pool, work,
                                     fifos, length_valid, alive>>

\* How many digests all switches together have sent.
SentByAll == Cardinality({d \in Digests : d[2] <= sent[d[1]]})

switch_sends(c) == /\ alive
                   /\ peer[c] = "up"
                   /\ SentByAll < MaxDigests /\ Len(to_controller[c]) < NetSize
                   /\ sent' = [sent EXCEPT ![c] = @ + 1]
                   /\ to_controller' = [to_controller EXCEPT
                                          ![c] = Append(@, sent'[c])]
                   /\ UNCHANGED <<peer, exec, pool, work, fifos, length_valid,
                                  alive>>

\* A reset loses what the controller has not read.
switch_disconnects(c) ==
  /\ alive
  /\ peer[c] = "up"
  /\ \/ /\ peer' = [peer EXCEPT ![c] = "fin"]
        /\ UNCHANGED <<to_controller, sent>>
     \/ /\ peer' = [peer EXCEPT ![c] = "rst"]
        /\ sent' = [sent EXCEPT ![c] = @ - Len(to_controller[c])]
        /\ to_controller' = [to_controller EXCEPT ![c] = <<>>]
  /\ UNCHANGED <<exec, pool, work, fifos, length_valid, alive>>

-----------------------------------------------------------------------------

Accept    == \/ accepts \/ accept_fails \/ dispatch_output \/ dispatch_input
             \/ init_sends \/ init_returns
Read(f)   == main_reads(f) \/ main_meets_eof(f) \/ main_meets_error(f)
Work(t)   == \/ takes_job(t) \/ spurious_wakeup(t)
             \/ output_takes(t) \/ output_writes(t) \/ input_takes(t)
             \/ input_sends(t) \/ input_frees(t)
Switch(c) == switch_connects(c) \/ switch_sends(c) \/ switch_disconnects(c)

ControllerNext ==
  \/ Accept \/ dies
  \/ \E f \in Fds : Read(f)
  \/ \E t \in PoolThreads : Work(t)
  \/ \E c \in Conns : Switch(c)

ControllerSpec == ControllerInit /\ [][ControllerNext]_controllervars

-----------------------------------------------------------------------------

(* Types.  The main thread waits in select only with init done, and the    *)
(* free descriptors never run out.                                         *)
ControllerTypeOK ==
  /\ fd \in [Fds -> 0 .. MaxConns]
  /\ peer \in [Conns -> {"none", "up", "fin", "rst"}]
  /\ accepted \in 0 .. MaxConns
  /\ length_valid \in BOOLEAN
  /\ to_controller \in [Conns -> Seq(1 .. MaxDigests)]
  /\ main \in {"select", "dispatch_output", "sleep", "init"}
  /\ conn \in Fds \union {0}
  /\ init_left \in 0 .. InitMsgs
  /\ main = "select" => init_left = 0
  /\ jobs \in Seq(Jobs)
  /\ thread \in [PoolThreads -> {"blocked", "woken", "runs"}]
  /\ job \in [PoolThreads -> Jobs \union {NULL}]
  /\ cell \in [PoolThreads -> Nat \union {NULL}]
  /\ digest \in [PoolThreads -> Digests \union {NULL}]
  /\ to_send \in 0 .. DigestMsgs
  /\ input_queue \in Seq(Digests) /\ Len(input_queue) <= QueueSize
  /\ output_queue \in Seq(Nat) /\ Len(output_queue) <= QueueSize
  /\ alive \in BOOLEAN
  /\ added \in Nat
  /\ sent \in [Conns -> 0 .. MaxDigests]
  /\ handled \in Seq(Digests) /\ written \in Seq(Nat)

Handling == {t \in PoolThreads : digest[t] # NULL}
Writing  == {t \in PoolThreads : cell[t] # NULL}

\* What such threads have in their hands, as a sequence.
InHand(threads, of) ==
  IF threads = {} THEN <<>> ELSE <<of[CHOOSE t \in threads : TRUE]>>

Increasing(s) == \A i, j \in DOMAIN s : i < j => s[i] < s[j]

\* The digests the controller has read and kept, oldest first.
taken_over == handled \o InHand(Handling, digest) \o input_queue

(* The queues keep their bound and order.  The digest handler is never run *)
(* by two threads, and of every switch the digests are handled in the      *)
(* order it sent them, none twice, also when several switches are          *)
(* connected or one connects again; one is skipped only when it meets a    *)
(* full queue.  As long as one switch has connected, messages are written  *)
(* to it in the order of the calls of send_p4_msg, none twice.  (With a    *)
(* second switch two output_processors share the queue, and order is lost.)*)
OrderKept ==
  /\ ControllerTypeOK
  /\ Cardinality(Handling) <= 1
  /\ \A i, j \in DOMAIN taken_over :
       i < j /\ taken_over[i][1] = taken_over[j][1]
         => taken_over[i][2] < taken_over[j][2]
  /\ \A i \in DOMAIN taken_over :
       \A k \in DOMAIN to_controller[taken_over[i][1]] :
         taken_over[i][2] < to_controller[taken_over[i][1]][k]
  /\ \A c \in Conns : Increasing(to_controller[c])
  /\ accepted <= 1 =>
       Increasing(written \o InHand(Writing, cell) \o output_queue)

(* From the init of the first switch on, each of the two queues has a      *)
(* thread, or one that is waking up and will take the job: dispatch signals*)
(* only a job that meets an empty list, and of the jobs of later           *)
(* connections some never get a thread.                                    *)
Woken == {t \in PoolThreads : thread[t] = "woken"}
Served(fn) == \/ \E t \in PoolThreads : Runs(t, fn)
              \/ \E i \in DOMAIN jobs : /\ jobs[i].fn = fn
                                        /\ i <= Cardinality(Woken)
QueuesAreServed ==
  main \in {"init", "select"} /\ accepted > 0 /\ length_valid
    => Served("output") /\ Served("input")
=============================================================================
