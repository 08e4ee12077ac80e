-------------------------- MODULE ThreadPool_proofs --------------------------
(***************************************************************************)
(* Theorems about ThreadPool, for any number of threads and of jobs, when  *)
(* dispatch is called only while the threads are settled.  Nothing bounds  *)
(* the spurious wakeups.                                                   *)
(*                                                                         *)
(* qlock does not protect the queue by itself: a thread that waits for a   *)
(* signal unlocks it, whoever holds it.  What saves the queue is that such *)
(* a thread has seen qsize = 0, and that no job is added while it is on    *)
(* its way into pthread_cond_wait.  Exclusion says so.                     *)
(***************************************************************************)
EXTENDS ThreadPool, SequenceTheorems, TLAPS

\* Where a thread neither reads the queue nor is about to unlock qlock.
outside == {"lock", "woken", "blocked", "run"}

\* The last job that was put into the list, and the last one taken out of it.
linked == IF main = "link" THEN job - 1 ELSE job
taken  == linked - Len(list)

\* t updates the queue, or is bound to.
holds(t) == pc[t] \in {"take", "unlock"} \/ (pc[t] = "test" /\ qsize > 0)

Exclusion ==
  /\ \A t \in PoolThreads : holds(t) =>
       /\ qlock /\ main = "idle"
       /\ \A u \in PoolThreads \ {t} : pc[u] \in outside
  /\ main # "idle" => qlock /\ \A t \in PoolThreads : pc[t] \in outside
  /\ qsize > 0 => \A t \in PoolThreads : pc[t] # "before_wait"

\* The list holds the jobs that follow the one taken last.
InOrder ==
  /\ main # "idle" => job >= 1
  /\ qsize = IF main = "count" THEN Len(list) - 1 ELSE Len(list)
  /\ taken >= 0
  /\ \A i \in 1 .. Len(list) : list[i] = taken + i

OnceEach ==
  /\ \A j \in Jobs : started[j] = 0 \/ (started[j] = 1 /\ j <= taken)
  /\ \A t \in PoolThreads :
       /\ pc[t] = "take" => Len(list) >= 1 /\ cur[t] = taken + 1
       /\ pc[t] = "unlock" => /\ taken >= 1 /\ cur[t] = taken
                              /\ started[taken] = 0

Inv == TypeOK /\ Exclusion /\ InOrder /\ OnceEach

-----------------------------------------------------------------------------

(* The invariant holds of the first state.                                 *)
LEMMA InvInit == Init => Inv
<1> SUFFICES ASSUME Init PROVE Inv
  OBVIOUS
<1>1. Len(list) = 0 /\ list \in Seq(Jobs)
  BY EmptySeq DEF Init
<1>2. TypeOK
  <2>1. qlock \in BOOLEAN
    BY DEF Init
  <2>2. /\ qsize \in 0 .. NumJobs /\ job \in 0 .. NumJobs
        /\ started \in [Jobs -> Nat]
    BY ThreadPoolAssumption DEF Init
  <2> QED
    BY <2>1, <2>2, <1>1 DEF Init, TypeOK
<1>3. Exclusion
  BY DEF Init, Exclusion, holds, outside
<1>4. InOrder
  BY <1>1 DEF Init, InOrder, taken, linked
<1>5. OnceEach
  BY <1>1 DEF Init, OnceEach
<1> QED
  BY <1>2, <1>3, <1>4, <1>5 DEF Inv

(* No thread dereferences a null qhead: what was taken is a job.           *)
LEMMA NoCrash == Inv => ~crashed
<1> SUFFICES ASSUME Inv, NEW t \in PoolThreads, pc[t] \in {"take", "unlock"}
             PROVE  cur[t] # NULL
  BY DEF crashed
<1>1. Len(list) \in Nat /\ job \in Nat /\ job <= NumJobs /\ NumJobs \in Nat
  BY LenProperties, ThreadPoolAssumption DEF Inv, TypeOK
<1>2. CASE pc[t] = "take"
  <2>1. Len(list) >= 1 /\ cur[t] = taken + 1 /\ taken >= 0
    BY <1>2 DEF Inv, OnceEach, InOrder
  <2>2. main = "idle"
    BY <1>2 DEF Inv, Exclusion, holds
  <2>3. taken + 1 \in 1 .. NumJobs
    BY <1>1, <2>1, <2>2 DEF taken, linked
  <2> QED
    BY <2>1, <2>3, ThreadPoolAssumption
<1>3. CASE pc[t] = "unlock"
  <2>1. taken >= 1 /\ cur[t] = taken
    BY <1>3 DEF Inv, OnceEach
  <2>2. main = "idle"
    BY <1>3 DEF Inv, Exclusion, holds
  <2>3. taken \in 1 .. NumJobs
    BY <1>1, <2>1, <2>2 DEF taken, linked
  <2> QED
    BY <2>1, <2>3, ThreadPoolAssumption
<1> QED
  BY <1>2, <1>3

-----------------------------------------------------------------------------
(* Steps of a thread that leave the queue alone.                           *)

(* The thread that gets qlock while there are jobs is alone with the       *)
(* queue.                                                                  *)
LEMMA LocksStep ==
  ASSUME Inv, NEW t \in PoolThreads, work_locks(t)
  PROVE  Inv'
<1> USE DEF work_locks, Goto, Lock, queue
<1>1. TypeOK'
  BY DEF Inv, TypeOK
<1>2. Exclusion'
  BY DEF Inv, TypeOK, Exclusion, holds, outside
<1>3. InOrder'
  BY DEF Inv, InOrder, taken, linked
<1>4. OnceEach'
  BY DEF Inv, TypeOK, OnceEach, taken, linked
<1> QED
  BY <1>1, <1>2, <1>3, <1>4 DEF Inv

(* A thread that unlocks qlock when it found no job had it to itself, or   *)
(* shared it with others that found none.                                  *)
LEMMA FindsNoneStep ==
  ASSUME Inv, NEW t \in PoolThreads, work_finds_none(t)
  PROVE  Inv'
<1> USE DEF work_finds_none, Goto, Unlock, queue
<1>1. TypeOK'
  BY DEF Inv, TypeOK
<1>2. Exclusion'
  BY DEF Inv, TypeOK, Exclusion, holds, outside
<1>3. InOrder'
  BY DEF Inv, InOrder, taken, linked
<1>4. OnceEach'
  BY DEF Inv, TypeOK, OnceEach, taken, linked
<1> QED
  BY <1>1, <1>2, <1>3, <1>4 DEF Inv

(* It unlocks a mutex that it does not hold: nobody else relies on it.     *)
LEMMA WaitsStep ==
  ASSUME Inv, NEW t \in PoolThreads, work_waits(t)
  PROVE  Inv'
<1> USE DEF work_waits, Goto, Unlock, queue
<1>1. TypeOK'
  BY DEF Inv, TypeOK
<1>2. Exclusion'
  BY DEF Inv, TypeOK, Exclusion, holds, outside
<1>3. InOrder'
  BY DEF Inv, InOrder, taken, linked
<1>4. OnceEach'
  BY DEF Inv, TypeOK, OnceEach, taken, linked
<1> QED
  BY <1>1, <1>2, <1>3, <1>4 DEF Inv

(* A thread that wakes without a signal is as good as one that was         *)
(* signalled.                                                              *)
LEMMA SpuriousStep ==
  ASSUME Inv, NEW t \in PoolThreads, spurious_wakeup(t)
  PROVE  Inv'
<1> USE DEF spurious_wakeup, Goto, queue
<1>1. TypeOK'
  BY DEF Inv, TypeOK
<1>2. Exclusion'
  BY DEF Inv, TypeOK, Exclusion, holds, outside
<1>3. InOrder'
  BY DEF Inv, InOrder, taken, linked
<1>4. OnceEach'
  BY DEF Inv, TypeOK, OnceEach, taken, linked
<1> QED
  BY <1>1, <1>2, <1>3, <1>4 DEF Inv

(* A job ends.                                                             *)
LEMMA EndsStep ==
  ASSUME Inv, NEW t \in PoolThreads, work_ends(t)
  PROVE  Inv'
<1> USE DEF work_ends, Goto, queue
<1>1. TypeOK'
  BY DEF Inv, TypeOK
<1>2. Exclusion'
  BY DEF Inv, TypeOK, Exclusion, holds, outside
<1>3. InOrder'
  BY DEF Inv, InOrder, taken, linked
<1>4. OnceEach'
  BY DEF Inv, TypeOK, OnceEach, taken, linked
<1> QED
  BY <1>1, <1>2, <1>3, <1>4 DEF Inv

-----------------------------------------------------------------------------
(* Steps of a thread that take a job out of the queue and start it.        *)

(* The thread takes the first job of the list, and there is one.           *)
LEMMA TakesStep ==
  ASSUME Inv, NEW t \in PoolThreads, work_takes(t)
  PROVE  Inv'
<1> USE DEF work_takes, Goto, queue
<1>1. Len(list) \in Nat /\ qsize > 0 /\ pc[t] = "test"
  BY LenProperties DEF Inv, TypeOK
<1>2. main = "idle" /\ Len(list) >= 1
  BY <1>1 DEF Inv, Exclusion, InOrder, holds
<1>3. list # <<>> /\ Head(list) = list[1] /\ list[1] \in Jobs
  BY <1>1, <1>2, EmptySeq, ElementOfSeq DEF Inv, TypeOK
<1>4. cur' = [cur EXCEPT ![t] = list[1]] /\ list[1] = taken + 1
  BY <1>1, <1>2, <1>3 DEF Inv, InOrder
<1>5. TypeOK'
  BY <1>3, <1>4 DEF Inv, TypeOK
<1>6. Exclusion'
  BY <1>1 DEF Inv, TypeOK, Exclusion, holds, outside
<1>7. InOrder' /\ taken' = taken
  BY DEF Inv, InOrder, taken, linked
<1>8. OnceEach'
  BY <1>2, <1>4, <1>7 DEF Inv, TypeOK, OnceEach
<1> QED
  BY <1>5, <1>6, <1>7, <1>8 DEF Inv

(* The job taken leaves the list, and no other.                            *)
LEMMA UnlinksStep ==
  ASSUME Inv, NEW t \in PoolThreads, work_unlinks(t)
  PROVE  Inv'
<1> USE DEF work_unlinks, Goto
<1>1. Len(list) \in Nat /\ pc[t] = "take" /\ job \in Nat /\ job <= NumJobs
      /\ NumJobs \in Nat
  BY LenProperties, ThreadPoolAssumption DEF Inv, TypeOK
<1>2. main = "idle" /\ main' = "idle" /\ Len(list) >= 1 /\ qsize = Len(list)
  BY <1>1 DEF Inv, Exclusion, InOrder, OnceEach, holds
<1>3. /\ Tail(list) \in Seq(Jobs) /\ Len(Tail(list)) = Len(list) - 1
      /\ \A i \in 1 .. Len(Tail(list)) : Tail(list)[i] = list[i + 1]
  BY <1>1, <1>2, EmptySeq, HeadTailProperties DEF Inv, TypeOK
<1>4. /\ list' \in Seq(Jobs) /\ Len(list') = Len(list) - 1
      /\ \A i \in 1 .. Len(list') : list'[i] = list[i + 1]
  <2>1. CASE qsize' = 0
    BY <2>1, <1>2, EmptySeq
  <2>2. CASE qsize' # 0
    BY <2>2, <1>1, <1>2, <1>3, EmptySeq
  <2> QED
    BY <2>1, <2>2
<1>5. taken' = taken + 1 /\ taken \in Int
  <2>1. linked = job /\ linked' = job
    BY <1>2 DEF linked
  <2> HIDE DEF work_unlinks
  <2> QED
    BY <2>1, <1>1, <1>4 DEF taken
<1>6. TypeOK'
  BY <1>1, <1>2, <1>4 DEF Inv, TypeOK
<1>7. Exclusion'
  <2>1. qlock /\ qlock' /\ \A u \in PoolThreads \ {t} : pc[u] \in outside
    BY <1>1 DEF Inv, Exclusion, holds
  <2>2. pc'[t] = "unlock" /\ \A u \in PoolThreads \ {t} : pc'[u] = pc[u]
    BY DEF Inv, TypeOK
  <2>3. \A u \in PoolThreads \ {t} : ~ holds(u)' /\ pc'[u] # "before_wait"
    BY <2>1, <2>2 DEF holds, outside
  <2> QED
    BY <1>2, <2>1, <2>2, <2>3 DEF Exclusion
<1>8. InOrder'
  BY <1>1, <1>2, <1>4, <1>5 DEF Inv, InOrder
<1>9. OnceEach'
  <2>1. \A u \in PoolThreads \ {t} : pc'[u] \in outside
    BY <1>1 DEF Inv, TypeOK, Exclusion, holds
  <2>2. pc'[t] = "unlock" /\ cur'[t] = taken' /\ taken' >= 1
    BY <1>1, <1>5 DEF Inv, TypeOK, InOrder, OnceEach
  <2>3. taken' \in Jobs
    BY <1>1, <1>2, <1>4, <2>2 DEF Jobs, taken, linked
  <2>4. started'[taken'] = 0
    BY <1>5, <2>3 DEF Inv, OnceEach
  <2>5. \A j \in Jobs : started'[j] = 0 \/ (started'[j] = 1 /\ j <= taken')
    BY <1>5 DEF Inv, OnceEach, Jobs
  <2> QED
    BY <2>1, <2>2, <2>4, <2>5 DEF OnceEach, outside
<1> QED
  BY <1>6, <1>7, <1>8, <1>9 DEF Inv

(* The job taken was not started before.                                   *)
LEMMA StartsStep ==
  ASSUME Inv, NEW t \in PoolThreads, work_starts(t)
  PROVE  Inv'
<1> USE DEF work_starts, Goto, Unlock, queue
<1>1. Len(list) \in Nat /\ pc[t] = "unlock" /\ job \in Nat /\ job <= NumJobs
      /\ NumJobs \in Nat
  BY LenProperties, ThreadPoolAssumption DEF Inv, TypeOK
<1>2. cur[t] = taken /\ taken >= 1 /\ started[taken] = 0 /\ main = "idle"
  BY <1>1 DEF Inv, Exclusion, OnceEach, holds
<1>3. taken \in Jobs /\ taken' = taken
  BY <1>1, <1>2 DEF Jobs, taken, linked
<1>4. started' = [started EXCEPT ![taken] = 1]
  BY <1>2
<1>5. TypeOK'
  <2>1. qlock' \in BOOLEAN
    OBVIOUS
  <2>2. started' \in [Jobs -> Nat]
    <3>1. started \in [Jobs -> Nat]
      BY DEF Inv, TypeOK
    <3> HIDE DEF work_starts
    <3> QED
      BY <3>1, <1>3, <1>4
  <2>3. pc' \in [PoolThreads -> {"lock", "test", "before_wait", "blocked",
                                 "woken", "take", "unlock", "run"}]
    BY DEF Inv, TypeOK
  <2>4. UNCHANGED <<qsize, list, cur, main, job>>
    OBVIOUS
  <2> HIDE DEF work_starts
  <2> QED
    BY <2>1, <2>2, <2>3, <2>4 DEF Inv, TypeOK
<1>6. Exclusion'
  BY <1>1 DEF Inv, TypeOK, Exclusion, holds, outside
<1>7. InOrder'
  BY <1>3 DEF Inv, InOrder
<1>8. OnceEach'
  <2>1. \A u \in PoolThreads : pc'[u] \in outside
    BY <1>1 DEF Inv, TypeOK, Exclusion, holds, outside
  <2>2. \A j \in Jobs : started'[j] = 0 \/ (started'[j] = 1 /\ j <= taken')
    BY <1>3, <1>4 DEF Inv, TypeOK, OnceEach, Jobs
  <2> QED
    BY <2>1, <2>2 DEF OnceEach, outside
<1> QED
  BY <1>5, <1>6, <1>7, <1>8 DEF Inv

-----------------------------------------------------------------------------
(* dispatch.                                                               *)

(* Here the sleep(1) of the callers is needed: no thread is on its way     *)
(* into pthread_cond_wait, and none will be before the job is counted.     *)
LEMMA DispatchLocksStep ==
  ASSUME Inv, Settled, dispatch_locks
  PROVE  Inv'
<1> USE DEF dispatch_locks, MainGoto, Lock, queue
<1>1. Len(list) \in Nat /\ job \in Nat /\ NumJobs \in Nat
  BY LenProperties, ThreadPoolAssumption DEF Inv, TypeOK
<1>2. \A t \in PoolThreads : pc[t] \in outside
  BY DEF settled, outside
<1>3. taken' = taken
  BY <1>1 DEF taken, linked
<1>4. TypeOK'
  BY <1>1 DEF Inv, TypeOK
<1>5. Exclusion'
  BY <1>2 DEF Exclusion, holds, outside
<1>6. InOrder'
  BY <1>1, <1>3 DEF Inv, InOrder
<1>7. OnceEach'
  BY <1>2, <1>3 DEF Inv, OnceEach, outside
<1> QED
  BY <1>4, <1>5, <1>6, <1>7 DEF Inv

(* The job is linked while all the threads stay away from the queue.       *)
LEMMA DispatchLinksStep ==
  ASSUME Inv, dispatch_links
  PROVE  Inv'
<1> USE DEF dispatch_links, MainGoto
<1>1. Len(list) \in Nat /\ job \in Jobs /\ main = "link" /\ main' = "count"
      /\ qsize = Len(list) /\ list \in Seq(Jobs)
  BY LenProperties, ThreadPoolAssumption DEF Inv, TypeOK, InOrder, Jobs
<1>2. /\ pc' \in [PoolThreads -> {"lock", "test", "before_wait", "blocked",
                                  "woken", "take", "unlock", "run"}]
      /\ \A t \in PoolThreads : pc'[t] \in outside
  <2>1. \A t \in PoolThreads : pc[t] \in outside
    BY <1>1 DEF Inv, Exclusion
  <2> QED
    BY <2>1 DEF Inv, TypeOK, signal_q_not_empty, blocked, outside
<1>3. /\ list' \in Seq(Jobs) /\ Len(list') = Len(list) + 1
      /\ \A i \in 1 .. Len(list) : list'[i] = list[i]
      /\ list'[Len(list) + 1] = job
  <2>1. CASE qsize = 0
    <3>1. list' = <<job>> /\ Len(list) = 0
      BY <2>1, <1>1
    <3> QED
      BY <3>1, <1>1
  <2>2. CASE qsize # 0
    BY <2>2, <1>1, AppendProperties
  <2> QED
    BY <2>1, <2>2
<1>4. taken' = taken /\ taken = job - 1 - Len(list)
  BY <1>1, <1>3 DEF taken, linked, Jobs
<1>5. TypeOK'
  BY <1>2, <1>3 DEF Inv, TypeOK
<1>6. Exclusion'
  BY <1>1, <1>2 DEF Inv, Exclusion, holds, outside
<1>7. InOrder'
  <2>1. \A i \in 1 .. Len(list') : list'[i] = taken' + i
    <3> SUFFICES ASSUME NEW i \in 1 .. Len(list') PROVE list'[i] = taken' + i
      OBVIOUS
    <3>1. CASE i <= Len(list)
      BY <1>1, <1>3, <1>4, <3>1 DEF Inv, InOrder
    <3>2. CASE i = Len(list) + 1
      BY <1>1, <1>3, <1>4, <3>2 DEF Jobs
    <3> QED
      BY <1>1, <1>3, <3>1, <3>2
  <2> QED
    BY <2>1, <1>1, <1>3, <1>4 DEF Inv, InOrder
<1>8. OnceEach'
  BY <1>2, <1>4 DEF Inv, OnceEach, outside
<1> QED
  BY <1>5, <1>6, <1>7, <1>8 DEF Inv

(* The job is counted, and qlock unlocked.                                 *)
LEMMA DispatchReturnsStep ==
  ASSUME Inv, dispatch_returns
  PROVE  Inv'
<1> USE DEF dispatch_returns, MainGoto, Unlock
<1>1. Len(list) \in Nat /\ job \in Nat /\ job <= NumJobs /\ NumJobs \in Nat
      /\ main = "count" /\ main' = "idle" /\ qsize = Len(list) - 1
  BY LenProperties, ThreadPoolAssumption DEF Inv, TypeOK, InOrder
<1>2. \A t \in PoolThreads : pc[t] \in outside
  BY <1>1 DEF Inv, Exclusion
<1>3. taken' = taken /\ taken = job - Len(list) /\ taken >= 0
  BY <1>1 DEF taken, linked, Inv, InOrder
<1>4. TypeOK'
  <2>1. qlock' \in BOOLEAN
    OBVIOUS
  <2>2. qsize' \in 0 .. NumJobs
    BY <1>1, <1>3
  <2> QED
    BY <2>1, <2>2 DEF Inv, TypeOK
<1>5. Exclusion'
  BY <1>1, <1>2 DEF Exclusion, holds, outside
<1>6. InOrder'
  BY <1>1, <1>3 DEF Inv, InOrder
<1>7. OnceEach'
  BY <1>2, <1>3 DEF Inv, OnceEach, outside
<1> QED
  BY <1>4, <1>5, <1>6, <1>7 DEF Inv

-----------------------------------------------------------------------------

(* Every step keeps the invariant.                                         *)
LEMMA InvStep ==
  ASSUME Settled
  PROVE  Inv /\ [Next]_vars => Inv'
<1> SUFFICES ASSUME Inv, [Next]_vars PROVE Inv'
  OBVIOUS
<1>1. CASE Dispatch
  BY <1>1, DispatchLocksStep, DispatchLinksStep, DispatchReturnsStep
  DEF Dispatch
<1>2. ASSUME NEW t \in PoolThreads,
             DoWork(t) \/ work_ends(t) \/ spurious_wakeup(t)
      PROVE  Inv'
  BY <1>2, LocksStep, FindsNoneStep, WaitsStep, TakesStep, UnlinksStep,
     StartsStep, EndsStep, SpuriousStep DEF DoWork
<1>3. CASE UNCHANGED vars
  BY <1>3 DEF vars, Inv, TypeOK, Exclusion, InOrder, OnceEach, holds, outside,
              taken, linked
<1> QED
  BY <1>1, <1>2, <1>3 DEF Next

(* The invariant, as long as dispatch waits for the threads to settle.     *)
THEOREM InvCorrect == ASSUME Settled PROVE Spec => []Inv
<1>1. Init => Inv
  BY InvInit
<1>2. Inv /\ [Next]_vars => Inv'
  BY InvStep
<1> QED
  BY <1>1, <1>2, PTL DEF Spec

(* The types, and that qsize never wraps, nor exceeds the jobs.            *)
THEOREM TypeCorrect == ASSUME Settled PROVE Spec => []TypeOK
<1>1. Inv => TypeOK
  BY DEF Inv
<1> QED
  BY <1>1, InvCorrect, PTL

(* No job is started twice and no thread dereferences a null qhead, though *)
(* qlock is unlocked by threads that do not hold it; and between two       *)
(* updates qsize counts the list: no job is stranded behind a zero.        *)
THEOREM EachJobOnce == ASSUME Settled PROVE Spec => []RunOnce
<1>1. Inv => RunOnce
  <2> SUFFICES ASSUME Inv PROVE RunOnce
    OBVIOUS
  <2>1. TypeOK /\ ~crashed
    BY NoCrash DEF Inv
  <2>2. \A j \in Jobs : started[j] <= 1
    BY DEF Inv, OnceEach
  <2>3. main = "idle" => qsize = Len(list)
    BY DEF Inv, InOrder
  <2> QED
    BY <2>1, <2>2, <2>3 DEF RunOnce
<1> QED
  BY <1>1, InvCorrect, PTL
=============================================================================
