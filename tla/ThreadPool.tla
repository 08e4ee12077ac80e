----------------------------- MODULE ThreadPool -----------------------------
(***************************************************************************)
(* threadpool.c: the pool whose threads run the loops of the control plane *)
(* (three threads, on the switch as in the controller).                    *)
(*                                                                         *)
(* do_work unlocks qlock BEFORE it calls pthread_cond_wait with it.  That  *)
(* is undefined by POSIX; the build's mutexes are default glibc mutexes,   *)
(* for which pthread_cond_wait makes the caller a waiter and then unlocks  *)
(* the mutex, whoever holds it.  So a critical section is not atomic here: *)
(* every access of the queue is a step of its own, and qlock is a flag     *)
(* that any unlock clears.                                                 *)
(*                                                                         *)
(* Abstracted: the linked list of work_t is the sequence from qhead to     *)
(* qtail.  pool->shutdown and pool->dont_accept are left out: nothing in   *)
(* the repository ever sets them.                                          *)
(***************************************************************************)
EXTENDS Integers, Sequences

CONSTANTS PoolThreads,   \* the threads create_threadpool starts
          NumJobs,       \* how many jobs are dispatched, one after the other
          Settled,       \* TRUE: dispatch is called only when every thread of
                         \* the pool is blocked or runs a job, which is what
                         \* the callers' sleep(1) is for
          NULL           \* the null pointer

ASSUME ThreadPoolAssumption == /\ NumJobs \in Nat
                               /\ Settled \in BOOLEAN
                               /\ NULL \notin 1 .. NumJobs

Jobs == 1 .. NumJobs

VARIABLES qlock,    \* qlock is locked
          qsize,
          list,     \* the jobs from qhead to qtail; empty: both are NULL
          pc,       \* where each thread of the pool is in do_work
          cur,      \* the job each thread took
          main,     \* where the caller of dispatch is
          job,      \* the job it dispatches, or has dispatched
          started   \* how often each job was started

queue == <<qsize, list>>
vars == <<qlock, qsize, list, pc, cur, main, job, started>>

Init == /\ qlock = FALSE
        /\ qsize = 0
        /\ list = <<>>
        /\ pc = [t \in PoolThreads |-> "lock"]
        /\ cur = [t \in PoolThreads |-> NULL]
        /\ main = "idle"
        /\ job = 0
        /\ started = [j \in Jobs |-> 0]

\* A thread that took the null qhead dereferences it: the process is dead.
crashed == \E t \in PoolThreads : pc[t] \in {"take", "unlock"} /\ cur[t] = NULL

Goto(t, from, to) == /\ ~crashed
                     /\ pc[t] = from
                     /\ pc' = [pc EXCEPT ![t] = to]

MainGoto(from, to) == /\ ~crashed
                      /\ main = from
                      /\ main' = to

Lock   == ~qlock /\ qlock' = TRUE
Unlock == qlock' = FALSE

-----------------------------------------------------------------------------
(* do_work                                                                 *)

\* From the top of the loop, or on the way out of pthread_cond_wait.
work_locks(t) ==
  /\ Lock
  /\ \E from \in {"lock", "woken"} : Goto(t, from, "test")
  /\ UNCHANGED <<queue, cur, main, job, started>>

work_finds_none(t) ==
  /\ qsize = 0
  /\ Goto(t, "test", "before_wait")
  /\ Unlock
  /\ UNCHANGED <<queue, cur, main, job, started>>

work_waits(t) ==
  /\ Goto(t, "before_wait", "blocked")
  /\ Unlock
  /\ UNCHANGED <<queue, cur, main, job, started>>

\* POSIX lets pthread_cond_wait return without a signal.
spurious_wakeup(t) ==
  /\ Goto(t, "blocked", "woken")
  /\ UNCHANGED <<qlock, queue, cur, main, job, started>>

work_takes(t) ==
  /\ qsize # 0
  /\ Goto(t, "test", "take")
  /\ cur' = [cur EXCEPT ![t] = IF list = <<>> THEN NULL ELSE Head(list)]
  /\ UNCHANGED <<qlock, queue, main, job, started>>

\* Seeded bug: qhead is not advanced.
work_unlinks_keeps_head(t) ==
  /\ Goto(t, "take", "unlock")
  /\ qsize' = qsize - 1
  /\ list' = IF qsize' = 0 THEN <<>> ELSE list
  /\ UNCHANGED <<qlock, cur, main, job, started>>

work_unlinks(t) ==
  /\ Goto(t, "take", "unlock")
  /\ qsize' = qsize - 1
  /\ list' = IF qsize' = 0 \/ list = <<>> THEN <<>> ELSE Tail(list)
  /\ UNCHANGED <<qlock, cur, main, job, started>>

work_starts(t) ==
  /\ Goto(t, "unlock", "run")
  /\ Unlock
  /\ started' = [started EXCEPT ![cur[t]] = @ + 1]
  /\ UNCHANGED <<queue, cur, main, job>>

\* A job may run for ever; the loops of the control plane do.
work_ends(t) ==
  /\ Goto(t, "run", "lock")
  /\ cur' = [cur EXCEPT ![t] = NULL]
  /\ UNCHANGED <<qlock, queue, main, job, started>>

-----------------------------------------------------------------------------
(* dispatch, called by one thread                                          *)

settled == \A t \in PoolThreads : pc[t] \in {"blocked", "run"}

dispatch_locks ==
  /\ job < NumJobs
  /\ Settled => settled
  /\ Lock
  /\ MainGoto("idle", "link")
  /\ job' = job + 1
  /\ UNCHANGED <<queue, pc, cur, started>>

blocked == {t \in PoolThreads : pc[t] = "blocked"}

\* Seeded bug: the signal is forgotten.
signal_q_not_empty_missing == UNCHANGED pc

signal_q_not_empty ==
  IF blocked = {} THEN UNCHANGED pc
  ELSE \E t \in blocked : pc' = [pc EXCEPT ![t] = "woken"]

\* Only the job that meets an empty queue is signalled.
dispatch_links ==
  /\ MainGoto("link", "count")
  /\ \/ /\ qsize = 0
        /\ list' = <<job>>
        /\ signal_q_not_empty
     \/ /\ qsize # 0
        /\ list' = Append(list, job)
        /\ UNCHANGED pc
  /\ UNCHANGED <<qlock, qsize, cur, job, started>>

dispatch_returns ==
  /\ MainGoto("count", "idle")
  /\ qsize' = qsize + 1
  /\ Unlock
  /\ UNCHANGED <<list, pc, cur, job, started>>

-----------------------------------------------------------------------------

DoWork(t) == \/ work_locks(t) \/ work_finds_none(t) \/ work_waits(t)
             \/ work_takes(t) \/ work_unlinks(t) \/ work_starts(t)
Dispatch  == dispatch_locks \/ dispatch_links \/ dispatch_returns

Next == \/ Dispatch
        \/ \E t \in PoolThreads : DoWork(t) \/ work_ends(t) \/ spurious_wakeup(t)

Spec == Init /\ [][Next]_vars

(* The callers dispatch all their jobs, and a thread of the pool that wants*)
(* the mutex gets it at some time.  A job need not end.                    *)
FairSpec == /\ Spec
            /\ WF_vars(Dispatch)
            /\ \A t \in PoolThreads : SF_vars(DoWork(t))

-----------------------------------------------------------------------------

(* Types; the number of queued jobs is never negative.                     *)
TypeOK == /\ qlock \in BOOLEAN
          /\ qsize \in 0 .. NumJobs
          /\ list \in Seq(Jobs)
          /\ pc \in [PoolThreads -> {"lock", "test", "before_wait", "blocked",
                                     "woken", "take", "unlock", "run"}]
          /\ cur \in [PoolThreads -> Jobs \union {NULL}]
          /\ main \in {"idle", "link", "count"}
          /\ job \in 0 .. NumJobs
          /\ started \in [Jobs -> Nat]

(* A job is started at most once, though a thread whose pthread_cond_wait  *)
(* unlocked the mutex of another one can be in the queue with it; neither  *)
(* dereferences NULL; and when nobody is between two updates of the queue, *)
(* qsize counts the jobs of the list (and never wraps), so that none is    *)
(* stranded behind a qsize of zero.                                        *)
RunOnce ==
  /\ TypeOK
  /\ ~crashed /\ \A j \in Jobs : started[j] <= 1
  /\ main = "idle" /\ (\A t \in PoolThreads : pc[t] # "take")
       => qsize = Len(list)

(* A dispatched job is started by a thread of the pool, unless all of them *)
(* are busy (threadpool.h:49-51).                                          *)
all_busy == \A t \in PoolThreads : pc[t] = "run"
EveryJobStarts == \A j \in Jobs : job >= j ~> started[j] >= 1 \/ all_busy
=============================================================================
