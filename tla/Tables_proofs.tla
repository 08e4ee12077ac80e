---------------------------- MODULE Tables_proofs ----------------------------
(***************************************************************************)
(* Theorems about the tables of the data plane.                            *)
(*                                                                         *)
(* ReplicaTables, for every number of sockets, lcores, replicas and        *)
(* updates, and every placement of the lcores; they assume that numa_on is *)
(* set, LookupsUndisturbed also that TABCHANGE_DELAY outlasts the lookups  *)
(* begun before it.                                                        *)
(*                                                                         *)
(* LookupTables, for tables of every size, any keys, rules and entries,    *)
(* and every sequence of calls.                                            *)
(***************************************************************************)
EXTENDS ReplicaTables, LookupTables, FiniteSetTheorems, SequenceTheorems,
        WellFoundedInduction, TLAPS

-----------------------------------------------------------------------------
(* ReplicaTables: the instances and the updates made to them.              *)

\* An instance that got the first n updates.
upto(n) == [i \in 1 .. n |-> i]

(* The next update extends such an instance to the next such instance.     *)
LEMMA UptoAppend ==
  ASSUME NEW n \in Nat
  PROVE  /\ upto(n) \in Seq(Int) /\ Len(upto(n)) = n
         /\ Append(upto(n), n + 1) = upto(n + 1)
  BY DEF upto

(* The instance that is changed first is never the active one.             *)
LEMMA ReplicaAfter ==
  ASSUME NEW r \in Replicas
  PROVE  replica_after(r) \in Replicas /\ replica_after(r) # r
<1>1. CASE r + 1 < NbReplica
  <2>1. (r + 1) % NbReplica = r + 1
    BY <1>1, ReplicaAssumption DEF Replicas
  <2> QED
    BY <1>1, <2>1, ReplicaAssumption DEF Replicas, replica_after
<1>2. CASE r + 1 = NbReplica
  <2>1. (r + 1) % NbReplica = 0
    BY <1>2, ReplicaAssumption DEF Replicas
  <2> QED
    BY <1>2, <2>1, ReplicaAssumption DEF Replicas, replica_after
<1> QED
  BY <1>1, <1>2, ReplicaAssumption DEF Replicas

-----------------------------------------------------------------------------
(* Type correctness.                                                       *)

TableType == [Sockets -> [Replicas -> Seq(Int)]]

(* Making update n in one instance of a table.                             *)
LEMMA TableStep ==
  ASSUME NEW T \in TableType, NEW s, NEW r, NEW n \in Int
  PROVE  [T EXCEPT ![s][r] = Append(@, n)] \in TableType
<1> DEFINE U == [T EXCEPT ![s][r] = Append(@, n)]
<1>1. ASSUME NEW z \in Sockets, NEW q \in Replicas
      PROVE  U[z][q] \in Seq(Int)
  <2>1. T[z][q] \in Seq(Int) /\ Append(T[z][q], n) \in Seq(Int)
    BY DEF TableType
  <2>2. U[z][q] = IF z = s /\ q = r THEN Append(T[z][q], n) ELSE T[z][q]
    BY DEF TableType
  <2> QED
    BY <2>1, <2>2
<1>2. U \in [Sockets -> [Replicas -> Seq(Int)]]
  <2>1. U = [z \in Sockets |-> [q \in Replicas |-> U[z][q]]]
    BY DEF TableType
  <2> HIDE DEF U
  <2> QED
    BY <2>1, <1>1
<1> QED
  BY <1>2 DEF TableType

(* While fun, change_replica or usleep runs, it runs for a socket that has *)
(* tables, and the last loop never changes the new active instance again.  *)
InLoops == /\ wpc \notin {"idle", "sockets"} => socketid \in in_use
           /\ wpc = "fun_other" => current_replica \in Replicas \ {next_replica}

TypeInv == TypeOK /\ InLoops

(* Every socket an lcore uses is one of the NB_SOCKETS.                    *)
LEMMA InUse == in_use \subseteq Sockets
  BY ReplicaAssumption DEF in_use, home, Sockets

(* Every step keeps the types.                                             *)
LEMMA TypeStep == TypeInv /\ [Next]_vars => TypeInv'
<1> SUFFICES ASSUME TypeInv, [Next]_vars
             PROVE  TypeInv'
  OBVIOUS
<1> USE DEF TypeInv
<1>0. /\ tables \in TableType /\ updates \in Int
      /\ active_replica \in [Sockets -> Replicas]
      /\ instance \in [Lcores -> Replicas]
      /\ socketid \in 0 .. NbSockets /\ next_replica \in Replicas
      /\ current_replica \in 0 .. NbReplica /\ lcore_id \in 0 .. NbLcores
      /\ NbReplica \in Nat /\ NbSockets \in Nat /\ NbLcores \in Nat
      /\ MaxUpdates \in Nat
  BY ReplicaAssumption DEF TypeOK, TableType
<1>1. CASE promote
  BY <1>1, <1>0 DEF promote, TypeOK, InLoops
<1>2. CASE socket_loop
  <2>1. CASE socketid \in in_use /\ change_table
    <3>1. socketid \in Sockets
      BY <2>1, InUse
    <3>2. /\ active_replica[socketid] \in Replicas
          /\ replica_after(active_replica[socketid]) \in Replicas
      BY <1>0, <3>1, ReplicaAfter
    <3>3. current_replica' \in 0 .. NbReplica /\ next_replica' \in Replicas
      BY <2>1, <3>2, <1>0 DEF change_table, Replicas
    <3> QED
      BY <1>2, <2>1, <3>3 DEF socket_loop, change_table, TypeOK, InLoops, in_use
  <2>2. CASE socketid \in Sockets /\ socketid' = socketid + 1
             /\ UNCHANGED <<wpc, next_replica, current_replica>>
    <3>1. socketid + 1 \in 0 .. NbSockets
      BY <2>2, <1>0 DEF Sockets
    <3> QED
      BY <1>2, <2>2, <3>1 DEF socket_loop, TypeOK, InLoops
  <2>3. CASE wpc' = "idle"
             /\ UNCHANGED <<socketid, next_replica, current_replica>>
    BY <1>2, <2>3 DEF socket_loop, TypeOK, InLoops
  <2> QED
    BY <1>2, <2>1, <2>2, <2>3 DEF socket_loop
<1>3. CASE fun_returns_in_next
  <2>1. tables' \in TableType
    BY <1>3, <1>0, TableStep DEF fun_returns_in_next
  <2>2. /\ wpc' = "change_replica" /\ lcore_id' \in 0 .. NbLcores
        /\ socketid \in in_use
        /\ UNCHANGED <<active_replica, instance, using, updates, socketid,
                       next_replica, current_replica>>
    BY <1>3, <1>0 DEF fun_returns_in_next, InLoops
  <2> QED
    BY <2>1, <2>2 DEF TypeOK, TableType, InLoops, in_use
<1>4. CASE change_replica
  <2>1. lcore_id + 1 \in 0 .. NbLcores
    BY <1>4, <1>0 DEF change_replica, Lcores
  <2>2. /\ instance' \in [Lcores -> Replicas]
        /\ active_replica' \in [Sockets -> Replicas]
    <3>1. CASE /\ instance' = [instance EXCEPT ![lcore_id] = next_replica]
               /\ active_replica' = [active_replica EXCEPT ![socketid] = next_replica]
      BY <3>1, <1>0
    <3>2. CASE UNCHANGED <<instance, active_replica>>
      BY <3>2, <1>0
    <3> QED
      BY <1>4, <3>1, <3>2 DEF change_replica
  <2>3. /\ lcore_id' = lcore_id + 1
        /\ UNCHANGED <<tables, using, updates, wpc, socketid, next_replica,
                       current_replica>>
    BY <1>4 DEF change_replica
  <2> QED
    BY <2>1, <2>2, <2>3 DEF TypeOK, InLoops, in_use
<1>5. CASE change_replica_returns
  BY <1>5 DEF change_replica_returns, TypeOK, InLoops
<1>6. CASE usleep_returns
  BY <1>6, <1>0 DEF usleep_returns, TypeOK, InLoops
<1>7. CASE replica_loop
  <2>0. wpc = "replicas" /\ socketid \in Sockets
    BY <1>7, InUse DEF replica_loop, InLoops
  <2>1. /\ wpc' \in {"fun_other", "replicas", "sockets"}
        /\ UNCHANGED <<tables, active_replica, instance, using, updates,
                       next_replica, lcore_id>>
    BY <1>7 DEF replica_loop
  <2>2. current_replica' \in 0 .. NbReplica
    BY <1>7, <1>0 DEF replica_loop, Replicas
  <2>3. socketid' \in 0 .. NbSockets
    BY <1>7, <2>0, <1>0 DEF replica_loop, Sockets
  <2>4. InLoops'
    BY <1>7 DEF replica_loop, InLoops
  <2> QED
    BY <2>1, <2>2, <2>3, <2>4 DEF TypeOK
<1>8. CASE fun_returns_in_other
  <2>1. tables' \in TableType
    BY <1>8, <1>0, TableStep DEF fun_returns_in_other
  <2>2. /\ wpc' = "replicas" /\ current_replica' = current_replica + 1
        /\ current_replica \in Replicas /\ socketid \in in_use
        /\ UNCHANGED <<active_replica, instance, using, updates, socketid,
                       next_replica, lcore_id>>
    BY <1>8 DEF fun_returns_in_other, InLoops
  <2>3. current_replica' \in 0 .. NbReplica
    BY <2>2, <1>0 DEF Replicas
  <2> QED
    BY <2>1, <2>2, <2>3 DEF TypeOK, TableType, InLoops
<1>9. ASSUME NEW l \in Lcores, lookup_begins(l) \/ lookup_ends(l)
      PROVE  TypeInv'
  BY <1>9 DEF lookup_begins, lookup_ends, control, TypeOK, InLoops
<1>10. CASE UNCHANGED vars
  BY <1>10 DEF vars, control, TypeOK, InLoops
<1> QED
  BY <1>1, <1>2, <1>3, <1>4, <1>5, <1>6, <1>7, <1>8, <1>9, <1>10
  DEF Next, ControlPlane

(* The types of the tables and of CHANGE_TABLE, in every state.            *)
LEMMA TypeInvCorrect == Spec => []TypeInv
<1>1. Init => TypeInv
  BY ReplicaAssumption DEF Init, TypeInv, TypeOK, InLoops, Sockets, Replicas, Lcores
<1> QED
  BY <1>1, TypeStep, PTL DEF Spec

(* Pointers stay instances, and the indices of the loops stay in range.    *)
THEOREM TypeCorrect == Spec => []TypeOK
  BY TypeInvCorrect, PTL DEF TypeInv

-----------------------------------------------------------------------------
(* What the instances hold, and where lcores and lookups are.              *)

\* The update under way is made in instance r of the socket it is at.
made(r) == \/ wpc \in {"change_replica", "usleep", "replicas", "fun_other"}
              /\ r = next_replica
           \/ wpc \in {"replicas", "fun_other"} /\ r < current_replica

(* The update under way is made on the sockets before the one the loop is  *)
(* at, and on that one in the instances that fun returned for.             *)
up_to_date(s, r) == wpc = "idle" \/ s < socketid \/ (s = socketid /\ made(r))

(* Every instance holds all updates, the one under way excepted.           *)
Contents == \A s \in in_use, r \in Replicas :
              tables[s][r] = upto(IF up_to_date(s, r) THEN updates ELSE updates - 1)

Busy == wpc # "idle" => updates >= 1

(* An lcore points to the active replica, and changes to the next one when *)
(* change_replica reaches it.                                              *)
Pointer(l) ==
  LET here == home(l) = socketid
  IN  /\ ~here \/ wpc \in {"idle", "sockets", "fun_next"} =>
           instance[l] = active_replica[home(l)]
      /\ here /\ wpc = "fun_next" => next_replica # instance[l]
      /\ here /\ wpc = "change_replica" =>
           IF l < lcore_id
           THEN instance[l] = next_replica /\ active_replica[home(l)] = next_replica
           ELSE instance[l] # next_replica
      /\ here /\ wpc \in {"usleep", "replicas", "fun_other"} =>
           instance[l] = next_replica /\ active_replica[home(l)] = next_replica

(* No lookup is under way in an instance that was active before the last   *)
(* change of replica, once the delay is over, if the delay suffices.       *)
Lookup(l) ==
  /\ DelaySuffices
  /\ home(l) # socketid \/ wpc \notin {"change_replica", "usleep"}
  => using[l] \in {NONE, instance[l]}

Inv == /\ TypeInv
       /\ Busy
       /\ Contents
       /\ \A l \in Lcores : Pointer(l) /\ Lookup(l)

(* Contents is kept by a step that changes no instance and no number.      *)
LEMMA ContentsKept ==
  ASSUME Contents, UNCHANGED <<tables, updates>>,
         \A s \in in_use, r \in Replicas : up_to_date(s, r)' <=> up_to_date(s, r)
  PROVE  Contents'
<1>1. \A s \in in_use, r \in Replicas :
        tables'[s][r] = upto(IF up_to_date(s, r)' THEN updates' ELSE updates' - 1)
  BY DEF Contents
<1> QED
  BY <1>1 DEF Contents, in_use, home, Replicas

(* Inv is inductive.                                                       *)
LEMMA InvStep ==
  ASSUME NumaOn = TRUE, Inv, [Next]_vars
  PROVE  Inv'
<1> USE DEF Inv
<1>0. /\ TypeInv' /\ TypeInv
  BY TypeStep
<1>a. /\ tables \in TableType /\ updates \in Nat
      /\ active_replica \in [Sockets -> Replicas]
      /\ instance \in [Lcores -> Replicas]
      /\ socketid \in Nat /\ next_replica \in Replicas
      /\ current_replica \in Nat /\ lcore_id \in Nat
      /\ using \in [Lcores -> Replicas \union {NONE}]
  BY DEF TypeInv, TypeOK, TableType, Replicas
<1>b. Replicas \subseteq Nat /\ Sockets \subseteq Nat /\ Lcores \subseteq Nat
      /\ NbReplica \in Nat /\ NbSockets \in Nat /\ NbLcores \in Nat
  BY ReplicaAssumption DEF Replicas, Sockets, Lcores
<1>c. /\ in_use \subseteq Sockets
      /\ \A l \in Lcores : home(l) = SocketOf[l] /\ home(l) \in in_use
  BY InUse DEF in_use, home
<1>1. CASE promote
  <2>1. Busy'
    BY <1>1, <1>a DEF promote, Busy
  <2>2. Contents'
    <3>1. ASSUME NEW s \in in_use, NEW r \in Replicas
          PROVE  up_to_date(s, r) /\ ~up_to_date(s, r)'
      BY <1>1, <1>b, <1>c DEF promote, up_to_date, made
    <3>2. updates' - 1 = updates /\ tables' = tables
      BY <1>1, <1>a DEF promote
    <3>3. \A s \in in_use, r \in Replicas :
            tables'[s][r] = upto(IF up_to_date(s, r)' THEN updates' ELSE updates' - 1)
      BY <3>1, <3>2 DEF Contents
    <3> QED
      BY <3>3 DEF Contents, in_use, home, Replicas
  <2>3. ASSUME NEW l \in Lcores
        PROVE  Pointer(l)' /\ Lookup(l)'
    BY <1>1, <2>3 DEF promote, Pointer, Lookup, home
  <2> QED
    BY <1>0, <2>1, <2>2, <2>3
<1>2. CASE socket_loop
  <2>1. Busy'
    BY <1>2 DEF socket_loop, change_table, Busy
  <2>2. CASE socketid \in in_use /\ change_table
    <3>1. /\ active_replica[socketid] \in Replicas
          /\ next_replica' \in Replicas
          /\ next_replica' # active_replica[socketid]
      BY <2>2, <1>a, <1>c, ReplicaAfter DEF change_table
    <3>2. Contents'
      BY <1>2, <2>2, <1>b, <1>c
      DEF socket_loop, change_table, Contents, up_to_date, made, in_use
    <3>3. ASSUME NEW l \in Lcores
          PROVE  Pointer(l)' /\ Lookup(l)'
      BY <1>2, <2>2, <3>1, <3>3
      DEF socket_loop, change_table, Pointer, Lookup, home
    <3> QED
      BY <1>0, <2>1, <3>2, <3>3
  <2>3. CASE socketid \in Sockets \ in_use /\ socketid' = socketid + 1
             /\ UNCHANGED <<wpc, next_replica, current_replica>>
    <3>1. Contents'
      <4>1. ASSUME NEW s \in in_use, NEW r \in Replicas
            PROVE  up_to_date(s, r)' <=> up_to_date(s, r)
        <5>1. s # socketid /\ s \in Nat
          BY <2>3, <1>b, <1>c
        <5>2. s < socketid + 1 <=> s < socketid
          BY <5>1, <1>a
        <5>3. wpc = "sockets" /\ wpc' = "sockets"
          BY <1>2, <2>3 DEF socket_loop
        <5> QED
          BY <2>3, <5>1, <5>2, <5>3 DEF up_to_date, made
      <4> QED
        BY <1>2, <4>1, ContentsKept DEF socket_loop
    <3>2. ASSUME NEW l \in Lcores
          PROVE  Pointer(l)' /\ Lookup(l)'
      BY <1>2, <2>3, <3>2, <1>c DEF socket_loop, Pointer, Lookup, home
    <3> QED
      BY <1>0, <2>1, <3>1, <3>2
  <2>4. CASE socketid \notin Sockets /\ wpc' = "idle"
             /\ UNCHANGED <<socketid, next_replica, current_replica>>
    <3>1. \A s \in in_use : s < socketid
      BY <2>4, <1>a, <1>b, <1>c DEF Sockets
    <3>2. Contents'
      BY <1>2, <2>4, <3>1 DEF socket_loop, Contents, up_to_date, made, in_use
    <3>3. ASSUME NEW l \in Lcores
          PROVE  Pointer(l)' /\ Lookup(l)'
      BY <1>2, <2>4, <3>3 DEF socket_loop, Pointer, Lookup, home
    <3> QED
      BY <1>0, <2>1, <3>2, <3>3
  <2> QED
    BY <1>2, <2>2, <2>3, <2>4 DEF socket_loop
<1>3. CASE fun_returns_in_next
  <2>1. Busy' /\ socketid \in in_use
    BY <1>3 DEF fun_returns_in_next, Busy, TypeInv, InLoops
  <2>2. \A z \in Sockets, q \in Replicas :
          tables'[z][q] = IF z = socketid /\ q = next_replica
                          THEN Append(tables[z][q], updates) ELSE tables[z][q]
    <3>1. /\ tables' = [tables EXCEPT ![socketid][next_replica] =
                            Append(@, updates)]
          /\ socketid \in Sockets /\ updates \in Int
      BY <1>3, <1>a, <1>c, <2>1 DEF fun_returns_in_next
    <3> QED
      BY <3>1, <1>a DEF TableType
  <2>3. tables[socketid][next_replica] = upto(updates - 1)
    <3>1. ~up_to_date(socketid, next_replica)
      BY <1>3, <1>a DEF fun_returns_in_next, up_to_date, made
    <3> QED
      BY <1>a, <2>1, <3>1 DEF Contents
  <2>4. Append(upto(updates - 1), updates) = upto(updates)
    <3> DEFINE n == updates - 1
    <3>1. n \in Nat /\ updates = n + 1
      BY <1>3, <1>a DEF Busy, fun_returns_in_next
    <3> HIDE DEF n
    <3>2. Append(upto(n), n + 1) = upto(n + 1)
      BY <3>1, UptoAppend
    <3> QED
      BY <3>1, <3>2 DEF n
  <2>5. Contents'
    <3> SUFFICES ASSUME NEW s \in in_use, NEW r \in Replicas
                 PROVE  tables'[s][r] = upto(IF up_to_date(s, r)' THEN updates'
                                             ELSE updates' - 1)
      BY DEF Contents, in_use, Replicas, home
    <3>1. s \in Sockets /\ updates' = updates /\ socketid' = socketid
          /\ next_replica' = next_replica /\ wpc = "fun_next"
          /\ wpc' = "change_replica"
      BY <1>3, <1>c DEF fun_returns_in_next
    <3>2. CASE s = socketid /\ r = next_replica
      BY <3>1, <3>2, <2>2, <2>3, <2>4, <1>a, <1>b DEF up_to_date, made
    <3>3. CASE ~(s = socketid /\ r = next_replica)
      <4>1. tables'[s][r] = tables[s][r]
        BY <3>1, <3>3, <2>2
      <4>2. up_to_date(s, r)' = up_to_date(s, r)
        BY <3>1, <3>3, <1>a, <1>b DEF up_to_date, made
      <4> QED
        BY <4>1, <4>2, <3>1 DEF Contents
    <3> QED
      BY <3>2, <3>3
  <2>6. ASSUME NEW l \in Lcores
        PROVE  Pointer(l)' /\ Lookup(l)'
    BY <1>3, <2>6, <1>b DEF fun_returns_in_next, Pointer, Lookup, home
  <2> QED
    BY <1>0, <2>1, <2>5, <2>6
<1>4. CASE change_replica
  <2>1. Busy' /\ socketid \in in_use
    BY <1>4 DEF change_replica, Busy, TypeInv, InLoops
  <2>2. Contents'
    BY <1>4 DEF change_replica, Contents, up_to_date, made, in_use
  <2>3. ASSUME NEW l \in Lcores
        PROVE  Pointer(l)' /\ Lookup(l)'
    <3>1. /\ wpc = "change_replica" /\ wpc' = "change_replica"
          /\ lcore_id \in Lcores /\ lcore_id' = lcore_id + 1
          /\ UNCHANGED <<using, socketid, next_replica>>
          /\ home(l)' = home(l) /\ home(l) = SocketOf[l] /\ home(l) \in Sockets
          /\ l \in Nat /\ lcore_id \in Nat
      BY <1>4, <1>a, <1>b, <1>c DEF change_replica, home
    <3>2. CASE /\ SocketOf[lcore_id] = socketid
               /\ instance' = [instance EXCEPT ![lcore_id] = next_replica]
               /\ active_replica' = [active_replica EXCEPT ![socketid] = next_replica]
      <4>1. CASE home(l) = socketid
        <5>1. active_replica'[socketid] = next_replica
          BY <3>1, <3>2, <4>1, <1>a
        <5>2. instance'[l] = IF l = lcore_id THEN next_replica ELSE instance[l]
          BY <3>2, <1>a
        <5> QED
          BY <3>1, <4>1, <5>1, <5>2 DEF Pointer, Lookup
      <4>2. CASE home(l) # socketid
        <5>1. /\ active_replica'[home(l)] = active_replica[home(l)]
              /\ instance'[l] = instance[l]
          BY <3>1, <3>2, <4>2, <1>a
        <5> QED
          BY <3>1, <4>2, <5>1 DEF Pointer, Lookup
      <4> QED
        BY <4>1, <4>2
    <3>3. CASE /\ SocketOf[lcore_id] # socketid
               /\ UNCHANGED <<instance, active_replica>>
      BY <3>1, <3>3 DEF Pointer, Lookup
    <3> QED
      BY <1>4, <3>2, <3>3 DEF change_replica
  <2> QED
    BY <1>0, <2>1, <2>2, <2>3
<1>5. CASE change_replica_returns
  <2>1. Busy'
    BY <1>5 DEF change_replica_returns, Busy
  <2>2. Contents'
    BY <1>5 DEF change_replica_returns, Contents, up_to_date, made, in_use
  <2>3. \A l \in Lcores : l < lcore_id
    BY <1>5, <1>a, <1>b DEF change_replica_returns, Lcores
  <2>4. ASSUME NEW l \in Lcores
        PROVE  Pointer(l)' /\ Lookup(l)'
    BY <1>5, <2>3, <2>4 DEF change_replica_returns, Pointer, Lookup, home
  <2> QED
    BY <1>0, <2>1, <2>2, <2>4
<1>6. CASE usleep_returns
  <2>1. Busy'
    BY <1>6 DEF usleep_returns, Busy
  <2>2. Contents'
    <3>1. ASSUME NEW s \in in_use, NEW r \in Replicas
          PROVE  up_to_date(s, r)' <=> up_to_date(s, r)
      BY <1>6, <1>b DEF usleep_returns, up_to_date, made
    <3> QED
      BY <1>6, <3>1, ContentsKept DEF usleep_returns
  <2>3. ASSUME NEW l \in Lcores
        PROVE  Pointer(l)' /\ Lookup(l)'
    BY <1>6, <2>3, <1>a
    DEF usleep_returns, old_lookups, Pointer, Lookup, home
  <2> QED
    BY <1>0, <2>1, <2>2, <2>3
<1>7. CASE replica_loop
  <2>1. Busy'
    BY <1>7 DEF replica_loop, Busy
  <2>2. CASE /\ current_replica \in Replicas \ {next_replica}
             /\ wpc' = "fun_other"
             /\ UNCHANGED <<socketid, current_replica>>
    <3>1. Contents'
      BY <1>7, <2>2 DEF replica_loop, Contents, up_to_date, made, in_use
    <3>2. ASSUME NEW l \in Lcores
          PROVE  Pointer(l)' /\ Lookup(l)'
      BY <1>7, <2>2, <3>2 DEF replica_loop, Pointer, Lookup, home
    <3> QED
      BY <1>0, <2>1, <3>1, <3>2
  <2>3. CASE /\ current_replica = next_replica
             /\ current_replica' = current_replica + 1
             /\ UNCHANGED <<wpc, socketid>>
    <3>1. Contents'
      BY <1>7, <2>3, <1>a, <1>b
      DEF replica_loop, Contents, up_to_date, made, in_use
    <3>2. ASSUME NEW l \in Lcores
          PROVE  Pointer(l)' /\ Lookup(l)'
      BY <1>7, <2>3, <3>2 DEF replica_loop, Pointer, Lookup, home
    <3> QED
      BY <1>0, <2>1, <3>1, <3>2
  <2>4. CASE /\ current_replica \notin Replicas
             /\ wpc' = "sockets"
             /\ socketid' = socketid + 1
             /\ UNCHANGED current_replica
    <3>1. \A r \in Replicas : r < current_replica
      BY <2>4, <1>a, <1>b DEF Replicas
    <3>2. Contents'
      <4>1. ASSUME NEW s \in in_use, NEW r \in Replicas
            PROVE  up_to_date(s, r)' <=> up_to_date(s, r)
        <5>1. s \in Nat /\ socketid \in Nat
          BY <1>a, <1>b, <1>c
        <5>2. s < socketid + 1 <=> s < socketid \/ s = socketid
          BY <5>1
        <5>3. wpc = "replicas" /\ wpc' = "sockets" /\ r < current_replica
          BY <1>7, <2>4, <3>1 DEF replica_loop
        <5> QED
          BY <2>4, <5>2, <5>3 DEF up_to_date, made
      <4> QED
        BY <1>7, <4>1, ContentsKept DEF replica_loop
    <3>3. ASSUME NEW l \in Lcores
          PROVE  Pointer(l)' /\ Lookup(l)'
      BY <1>7, <2>4, <3>3, <1>a, <1>b, <1>c
      DEF replica_loop, Pointer, Lookup, home
    <3> QED
      BY <1>0, <2>1, <3>2, <3>3
  <2> QED
    BY <1>7, <2>2, <2>3, <2>4 DEF replica_loop
<1>8. CASE fun_returns_in_other
  <2>1. Busy' /\ socketid \in in_use
    BY <1>8 DEF fun_returns_in_other, Busy, TypeInv, InLoops
  <2>2. current_replica \in Replicas /\ current_replica # next_replica
    BY <1>8 DEF fun_returns_in_other, TypeInv, InLoops
  <2>3. \A z \in Sockets, q \in Replicas :
          tables'[z][q] = IF z = socketid /\ q = current_replica
                          THEN Append(tables[z][q], updates) ELSE tables[z][q]
    <3>1. /\ tables' = [tables EXCEPT ![socketid][current_replica] =
                            Append(@, updates)]
          /\ socketid \in Sockets /\ updates \in Int
      BY <1>8, <1>a, <1>c, <2>1 DEF fun_returns_in_other
    <3> QED
      BY <3>1, <1>a, <2>2 DEF TableType
  <2>4. tables[socketid][current_replica] = upto(updates - 1)
    <3>1. ~up_to_date(socketid, current_replica)
      BY <1>8, <1>a, <2>2 DEF fun_returns_in_other, up_to_date, made
    <3> QED
      BY <2>1, <2>2, <3>1 DEF Contents
  <2>5. Append(upto(updates - 1), updates) = upto(updates)
    <3> DEFINE n == updates - 1
    <3>1. n \in Nat /\ updates = n + 1
      BY <1>8, <1>a DEF Busy, fun_returns_in_other
    <3> HIDE DEF n
    <3>2. Append(upto(n), n + 1) = upto(n + 1)
      BY <3>1, UptoAppend
    <3> QED
      BY <3>1, <3>2 DEF n
  <2>6. Contents'
    <3> SUFFICES ASSUME NEW s \in in_use, NEW r \in Replicas
                 PROVE  tables'[s][r] = upto(IF up_to_date(s, r)' THEN updates'
                                             ELSE updates' - 1)
      BY DEF Contents, in_use, Replicas, home
    <3>1. s \in Sockets /\ updates' = updates /\ socketid' = socketid
          /\ next_replica' = next_replica /\ wpc = "fun_other"
          /\ wpc' = "replicas" /\ current_replica' = current_replica + 1
      BY <1>8, <1>c DEF fun_returns_in_other
    <3>2. CASE s = socketid /\ r = current_replica
      <4>1. r < current_replica'
        BY <3>1, <3>2, <1>a
      <4>2. up_to_date(s, r)'
        BY <3>1, <3>2, <4>1 DEF up_to_date, made
      <4>3. tables'[s][r] = upto(updates)
        BY <3>1, <3>2, <2>2, <2>3, <2>4, <2>5
      <4> QED
        BY <3>1, <4>2, <4>3
    <3>3. CASE ~(s = socketid /\ r = current_replica)
      <4>1. tables'[s][r] = tables[s][r]
        BY <3>1, <3>3, <2>3
      <4>2. up_to_date(s, r)' = up_to_date(s, r)
        BY <3>1, <3>3, <1>a, <1>b DEF up_to_date, made
      <4> QED
        BY <4>1, <4>2, <3>1 DEF Contents
    <3> QED
      BY <3>2, <3>3
  <2>7. ASSUME NEW l \in Lcores
        PROVE  Pointer(l)' /\ Lookup(l)'
    BY <1>8, <2>7 DEF fun_returns_in_other, Pointer, Lookup, home
  <2> QED
    BY <1>0, <2>1, <2>6, <2>7
<1>9. ASSUME NEW k \in Lcores, lookup_begins(k) \/ lookup_ends(k)
      PROVE  Inv'
  <2>1. Busy' /\ Contents'
    BY <1>9 DEF lookup_begins, lookup_ends, control, Busy, Contents,
                up_to_date, made, in_use
  <2>2. ASSUME NEW l \in Lcores
        PROVE  Pointer(l)' /\ Lookup(l)'
    <3>1. using'[l] \in {using[l], instance[l], NONE}
      BY <1>9, <1>a DEF lookup_begins, lookup_ends
    <3> QED
      BY <1>9, <3>1, <2>2
      DEF lookup_begins, lookup_ends, control, Pointer, Lookup, home
  <2> QED
    BY <1>0, <2>1, <2>2
<1>10. CASE UNCHANGED vars
  <2>1. Busy' /\ Contents'
    BY <1>10 DEF vars, control, Busy, Contents, up_to_date, made, in_use
  <2>2. ASSUME NEW l \in Lcores
        PROVE  Pointer(l)' /\ Lookup(l)'
    BY <1>10, <2>2 DEF vars, control, Pointer, Lookup, home
  <2> QED
    BY <1>0, <2>1, <2>2
<1> QED
  BY <1>1, <1>2, <1>3, <1>4, <1>5, <1>6, <1>7, <1>8, <1>9, <1>10
  DEF Next, ControlPlane

-----------------------------------------------------------------------------
(* What the inductive invariant gives.                                     *)

(* With numa_on the inductive invariant holds in every state.              *)
LEMMA InvCorrect ==
  ASSUME NumaOn = TRUE
  PROVE  Spec => []Inv
<1>1. Init => Inv
  <2> SUFFICES ASSUME Init PROVE Inv
    OBVIOUS
  <2>1. TypeInv
    BY ReplicaAssumption
    DEF Init, TypeInv, TypeOK, InLoops, Sockets, Replicas, Lcores
  <2>2. Busy
    BY DEF Init, Busy
  <2>3. Contents
    BY InUse DEF Init, Contents, up_to_date, upto
  <2>4. \A l \in Lcores : Pointer(l) /\ Lookup(l)
    BY InUse DEF Init, Pointer, Lookup, in_use
  <2> QED
    BY <2>1, <2>2, <2>3, <2>4 DEF Inv
<1>2. Inv /\ [Next]_vars => Inv'
  BY InvStep
<1> QED
  BY <1>1, <1>2, PTL DEF Spec

(* No instance changes under a lookup.                                     *)
THEOREM LookupsUndisturbed ==
  ASSUME NumaOn = TRUE, DelaySuffices = TRUE
  PROVE  Spec => []NoChangeUnderLookup
<1>1. Inv => NoChangeUnderLookup
  <2> SUFFICES ASSUME Inv, NEW l \in Lcores, home(l) = socketid,
                      changing(using[l])
               PROVE  FALSE
    BY DEF NoChangeUnderLookup
  <2>1. using[l] \in {NONE, instance[l]}
    BY DEF Inv, Lookup, changing
  <2>2. next_replica \in Replicas /\ NONE \notin Replicas
    BY ReplicaAssumption DEF Inv, TypeInv, TypeOK
  <2>3. CASE wpc = "fun_next"
    BY <2>1, <2>2, <2>3 DEF Inv, Pointer, changing
  <2>4. CASE wpc = "fun_other"
    BY <2>1, <2>2, <2>4 DEF Inv, Pointer, changing, TypeInv, InLoops
  <2> QED
    BY <2>3, <2>4 DEF changing
<1> QED
  BY <1>1, InvCorrect, PTL

(* Between updates the replicas hold the same entries on every socket.     *)
THEOREM ReplicasAgree ==
  ASSUME NumaOn = TRUE
  PROVE  Spec => []ReplicasAreCopies
<1>1. Inv => ReplicasAreCopies
  BY DEF Inv, Contents, up_to_date, ReplicasAreCopies
<1> QED
  BY <1>1, InvCorrect, PTL

-----------------------------------------------------------------------------
(* The table implements TableView.                                         *)

\* What lcore l sees.
view(l) == tables[home(l)][instance[l]]

(* An lcore on the socket of change_replica that was not reached yet is    *)
(* one update behind; the step that reaches it shows it that update.       *)
LEMMA ViewChanges ==
  ASSUME NumaOn = TRUE, Inv, change_replica, NEW l \in Lcores
  PROVE  view(l)' = IF l = lcore_id /\ SocketOf[lcore_id] = socketid
                    THEN Append(view(l), Len(view(l)) + 1) ELSE view(l)
<1>1. /\ home(l)' = home(l) /\ home(l) = SocketOf[l] /\ home(l) \in in_use
      /\ tables' = tables /\ wpc = "change_replica"
  BY DEF change_replica, home, in_use
<1>2. /\ instance \in [Lcores -> Replicas] /\ next_replica \in Replicas
      /\ instance[l] \in Replicas /\ updates \in Nat /\ updates >= 1
      /\ l \in Nat /\ socketid \in Nat /\ in_use \subseteq Nat
  BY <1>1, InUse DEF Inv, TypeInv, TypeOK, Busy, Lcores, Sockets
<1>3. CASE l = lcore_id /\ SocketOf[lcore_id] = socketid
  <2>1. instance'[l] = next_replica /\ home(l) = socketid
    BY <1>1, <1>2, <1>3 DEF change_replica
  <2>2. instance[l] # next_replica
    BY <1>1, <1>2, <1>3, <2>1 DEF Inv, Pointer
  <2>3. up_to_date(socketid, next_replica)
    BY <1>1 DEF up_to_date, made
  <2>4. ~up_to_date(socketid, instance[l])
    BY <1>1, <1>2, <2>2 DEF up_to_date, made
  <2>5. /\ tables[socketid][next_replica] = upto(updates)
        /\ tables[socketid][instance[l]] = upto(updates - 1)
    BY <1>1, <1>2, <2>1, <2>3, <2>4 DEF Inv, Contents
  <2>6. Append(upto(updates - 1), Len(upto(updates - 1)) + 1) = upto(updates)
    <3> DEFINE n == updates - 1
    <3>1. n \in Nat /\ updates = n + 1
      BY <1>2
    <3> HIDE DEF n
    <3>2. Len(upto(n)) = n /\ Append(upto(n), n + 1) = upto(n + 1)
      BY <3>1, UptoAppend
    <3>3. Append(upto(n), Len(upto(n)) + 1) = upto(updates)
      BY <3>1, <3>2
    <3> QED
      BY <3>3 DEF n
  <2> QED
    BY <1>1, <1>3, <2>1, <2>5, <2>6 DEF view
<1>4. CASE ~(l = lcore_id /\ SocketOf[lcore_id] = socketid)
  <2>1. instance'[l] = instance[l]
    BY <1>2, <1>4 DEF change_replica
  <2> QED
    BY <1>1, <1>4, <2>1 DEF view
<1> QED
  BY <1>3, <1>4

(* The other steps show no lcore anything new.                             *)
LEMMA ViewStays ==
  ASSUME NumaOn = TRUE, Inv, [Next]_vars, ~change_replica, NEW l \in Lcores
  PROVE  view(l)' = view(l)
<1>0. /\ tables \in TableType /\ instance \in [Lcores -> Replicas]
      /\ home(l) \in Sockets /\ instance[l] \in Replicas
      /\ home(l)' = home(l)
  BY InUse DEF Inv, TypeInv, TypeOK, TableType, home, in_use
<1>1. CASE fun_returns_in_next
  <2>1. home(l) # socketid \/ instance[l] # next_replica
    BY <1>1 DEF fun_returns_in_next, Inv, Pointer
  <2>2. /\ tables' = [tables EXCEPT ![socketid][next_replica] =
                        Append(@, updates)]
        /\ instance' = instance
    BY <1>1 DEF fun_returns_in_next
  <2> QED
    BY <1>0, <2>1, <2>2 DEF view, TableType
<1>2. CASE fun_returns_in_other
  <2>1. home(l) # socketid \/ instance[l] # current_replica
    BY <1>2 DEF fun_returns_in_other, Inv, Pointer, TypeInv, InLoops
  <2>2. /\ tables' = [tables EXCEPT ![socketid][current_replica] =
                        Append(@, updates)]
        /\ instance' = instance
    BY <1>2 DEF fun_returns_in_other
  <2> QED
    BY <1>0, <2>1, <2>2 DEF view, TableType
<1>3. CASE UNCHANGED <<tables, instance>>
  BY <1>0, <1>3 DEF view
<1> QED
  BY <1>1, <1>2, <1>3
  DEF Next, ControlPlane, vars, promote, socket_loop, change_replica_returns,
      usleep_returns, replica_loop, lookup_begins, lookup_ends

(* Every step is a step of TableView, or none.                             *)
LEMMA ViewStep ==
  ASSUME NumaOn = TRUE, Inv, [Next]_vars
  PROVE  [View!Next]_View!vars
<1> DEFINE seen == [l \in Lcores |-> view(l)]
<1>0. seen' = [l \in Lcores |-> view(l)']
  OBVIOUS
<1>1. CASE promote
  <2>1. ~change_replica
    BY <1>1 DEF promote, change_replica
  <2>2. \A l \in Lcores : view(l)' = view(l)
    BY <2>1, ViewStays
  <2>3. updates \in Nat /\ wpc = "idle" /\ instance \in [Lcores -> Replicas]
    BY <1>1 DEF promote, Inv, TypeInv, TypeOK
  <2>4. \A l \in Lcores : Len(view(l)) = updates
    BY <2>3, UptoAppend DEF view, Inv, Contents, up_to_date, in_use
  <2> QED
    BY <1>1, <2>2, <2>4 DEF promote, View!Next, View!Make, view
<1>2. CASE change_replica /\ SocketOf[lcore_id] = socketid
  <2>1. lcore_id \in Lcores /\ updates' = updates
    BY <1>2 DEF change_replica
  <2>2. \A l \in Lcores : view(l)' = IF l = lcore_id
                                    THEN Append(view(l), Len(view(l)) + 1)
                                    ELSE view(l)
    BY <1>2, ViewChanges
  <2>3. Len(view(lcore_id)) < updates
    <3>1. /\ instance \in [Lcores -> Replicas] /\ updates \in Nat /\ updates >= 1
          /\ lcore_id \in Nat /\ wpc = "change_replica"
          /\ home(lcore_id) = socketid /\ socketid \in in_use /\ socketid \in Nat
      BY <1>2, <2>1, InUse
      DEF change_replica, Inv, TypeInv, TypeOK, Busy, Lcores, Sockets, home, in_use
    <3>2. instance[lcore_id] # next_replica /\ instance[lcore_id] \in Replicas
      BY <2>1, <3>1 DEF Inv, Pointer
    <3>3. ~up_to_date(socketid, instance[lcore_id])
      BY <3>1, <3>2 DEF up_to_date, made
    <3>4. view(lcore_id) = upto(updates - 1)
      BY <3>1, <3>2, <3>3 DEF view, Inv, Contents
    <3>5. Len(upto(updates - 1)) = updates - 1
      <4> DEFINE n == updates - 1
      <4>1. n \in Nat
        BY <3>1
      <4> HIDE DEF n
      <4>2. Len(upto(n)) = n
        BY <4>1, UptoAppend
      <4> QED
        BY <4>2 DEF n
    <3> QED
      BY <3>1, <3>4, <3>5
  <2>4. PICK k \in Lcores : k = lcore_id
    BY <2>1
  <2>5. View!See(k)
    BY <2>1, <2>2, <2>3, <2>4 DEF View!See, view
  <2> QED
    BY <2>5 DEF View!Next
<1>3. CASE ~promote /\ ~(change_replica /\ SocketOf[lcore_id] = socketid)
  <2>1. \A l \in Lcores : view(l)' = view(l)
    BY <1>3, ViewStays, ViewChanges
  <2>2. updates' = updates
    BY <1>3
    DEF Next, ControlPlane, vars, promote, socket_loop, fun_returns_in_next,
        change_replica, change_replica_returns, usleep_returns, replica_loop,
        fun_returns_in_other, lookup_begins, lookup_ends
  <2> QED
    BY <2>1, <2>2 DEF View!vars, view
<1> QED
  BY <1>1, <1>2, <1>3

(* To every lcore the table is what TableView says: whole updates, in      *)
(* order, none forgotten when the replica changes.                         *)
THEOREM TableImplementsView ==
  ASSUME NumaOn = TRUE
  PROVE  Spec => ImplementsTableView
<1>1. Init => View!Init
  BY InUse, ReplicaAssumption
  DEF Init, View!Init, in_use, Sockets, Replicas
<1>2. Inv /\ [Next]_vars => [View!Next]_View!vars
  BY ViewStep
<1> QED
  BY <1>1, <1>2, InvCorrect, PTL DEF Spec, ImplementsTableView, View!Spec

-----------------------------------------------------------------------------
(* LookupTables: what the calls are, and what one more of them changes.    *)

CallSet == [fun : {"exact_add", "lpm_add", "ternary_add", "table_setdefault"},
            key : UNION {Keys, Rules, Patterns, Tables}]

EntrySet == [key : SUBSET Bits, mask : SUBSET Bits, value : Nat]

LookupTypeInv == /\ LookupTypeOK
                 /\ calls \in Seq(CallSet)
                 /\ entries \in Seq(EntrySet)
                 /\ IsFiniteSet(DOMAIN position)

(* The remainder of a number is an index of content.                       *)
LEMMA Remainder == \A x \in Int : x % TABLE_MAX \in Index
  BY LookupAssumption DEF Index

(* A call is the newest of its function and of its key.                    *)
LEMMA CallsGrow ==
  ASSUME calls \in Seq(CallSet), NEW c \in CallSet, calls' = Append(calls, c)
  PROVE  /\ Len(calls) \in Nat /\ calls' \in Seq(CallSet)
         /\ Len(calls') = Len(calls) + 1 /\ value = Len(calls) + 1
         /\ \A fun : calls_of(fun)' = calls_of(fun) \union
                       (IF c.fun = fun THEN {value} ELSE {})
         /\ \A fun, key : calls_for(fun, key)' = calls_for(fun, key) \union
                       (IF c.fun = fun /\ c.key = key THEN {value} ELSE {})
<1>1. /\ Len(calls) \in Nat /\ calls' \in Seq(CallSet) /\ Len(calls') = Len(calls) + 1
      /\ DOMAIN calls = 1 .. Len(calls) /\ DOMAIN calls' = 1 .. Len(calls) + 1
      /\ \A n \in 1 .. Len(calls) : calls'[n] = calls[n]
      /\ calls'[Len(calls) + 1] = c
  BY AppendProperties, LenProperties
<1>2. value = Len(calls) + 1
  BY <1>1 DEF value
<1>3. /\ \A n : n \in DOMAIN calls' <=> n \in DOMAIN calls \/ n = value
      /\ \A n \in DOMAIN calls : calls'[n] = calls[n] /\ n # value
      /\ calls'[value] = c
  BY <1>1, <1>2
<1> HIDE DEF value
<1>4. ASSUME NEW fun
      PROVE  calls_of(fun)' = calls_of(fun) \union
                              (IF c.fun = fun THEN {value} ELSE {})
  <2>1. \A n : n \in calls_of(fun)' <=> n \in DOMAIN calls' /\ calls'[n].fun = fun
    BY DEF calls_of
  <2>2. \A n : n \in calls_of(fun) <=> n \in DOMAIN calls /\ calls[n].fun = fun
    BY DEF calls_of
  <2> QED
    BY <1>3, <2>1, <2>2
<1>5. ASSUME NEW fun, NEW key
      PROVE  calls_for(fun, key)' = calls_for(fun, key) \union
                       (IF c.fun = fun /\ c.key = key THEN {value} ELSE {})
  <2>1. \A n : n \in calls_for(fun, key)' <=>
                 n \in DOMAIN calls' /\ calls'[n].fun = fun /\ calls'[n].key = key
    BY DEF calls_for, calls_of
  <2>2. \A n : n \in calls_for(fun, key) <=>
                 n \in DOMAIN calls /\ calls[n].fun = fun /\ calls[n].key = key
    BY DEF calls_for, calls_of
  <2> QED
    BY <1>3, <2>1, <2>2
<1> QED
  BY <1>1, <1>2, <1>4, <1>5

(* Calls of other functions are no calls of this one.                      *)
LEMMA CallsOfOthers ==
  ASSUME calls \in Seq(CallSet), NEW c \in CallSet, calls' = Append(calls, c),
         NEW fun, c.fun # fun
  PROVE  /\ calls_of(fun)' = calls_of(fun)
         /\ \A key : calls_for(fun, key)' = calls_for(fun, key)
<1>1. calls_of(fun)' = calls_of(fun) \union (IF c.fun = fun THEN {value} ELSE {})
  BY CallsGrow
<1>2. ASSUME NEW key
      PROVE  calls_for(fun, key)' = calls_for(fun, key)
  <2>1. calls_for(fun, key)' = calls_for(fun, key) \union
                       (IF c.fun = fun /\ c.key = key THEN {value} ELSE {})
    BY CallsGrow
  <2> QED
    BY <2>1
<1> QED
  BY <1>1, <1>2

(* The calls that the four functions make are calls.                       *)
LEMMA CallsAre ==
  /\ \A k \in Keys : [fun |-> "exact_add", key |-> k] \in CallSet
  /\ \A r \in Rules : [fun |-> "lpm_add", key |-> r] \in CallSet
  /\ \A p \in Patterns : [fun |-> "ternary_add", key |-> p] \in CallSet
  /\ \A t \in Tables : [fun |-> "table_setdefault", key |-> t] \in CallSet
  BY DEF CallSet

(* A value that is written into an array of values leaves it one.          *)
LEMMA ValueWritten ==
  ASSUME NEW S, NEW n \in Nat, NEW f \in [S -> 0 .. n], NEW i
  PROVE  /\ [f EXCEPT ![i] = n + 1] \in [S -> 0 .. n + 1]
         /\ f \in [S -> 0 .. n + 1]
<1>1. 0 .. n \subseteq 0 .. n + 1 /\ n + 1 \in 0 .. n + 1
  OBVIOUS
<1>2. f \in [S -> 0 .. n + 1]
  BY <1>1
<1> QED
  BY <1>1, <1>2

(* The types of empty tables.                                              *)
LEMMA LookupTypeInit == LookupInit => LookupTypeInv
<1> SUFFICES ASSUME LookupInit
             PROVE  LookupTypeInv
  OBVIOUS
<1>1. /\ calls = <<>> /\ entries = <<>> /\ position = <<>> /\ rules = <<>>
      /\ refused = {} /\ max_size \in MaxSizes
      /\ DOMAIN position = {} /\ DOMAIN rules = {} /\ Len(calls) = 0
  BY DEF LookupInit
<1>2. 0 \in Index
  BY LookupAssumption DEF Index
<1>3. /\ content \in [Index -> 0 .. 0] /\ lpm_content \in [Index -> 0 .. 0]
      /\ default_val \in [Tables -> 0 .. 0] /\ size \in Index
      /\ running \in BOOLEAN /\ Len(entries) <= AclEntries
  BY <1>1, <1>2, LookupAssumption DEF LookupInit
<1>4. free_slots \in Seq(0 .. max_size - 1)
  <2>1. /\ max_size \in Nat \ {0}
        /\ free_slots = [i \in 1 .. max_size |-> i - 1]
    BY <1>1, LookupAssumption DEF LookupInit
  <2>2. \A i \in 1 .. max_size : i - 1 \in 0 .. max_size - 1
    BY <2>1
  <2> QED
    BY <2>1, <2>2
<1> QED
  BY <1>1, <1>3, <1>4, FS_EmptySet, EmptySeq DEF LookupTypeInv, LookupTypeOK

(* A ring whose first element goes to the end, and one that loses it.      *)
LEMMA RingMoves ==
  ASSUME NEW S, NEW f \in Seq(S), f # <<>>
  PROVE  LET n == Len(f)
             a == Append(Tail(f), Head(f))
         IN  /\ n \in Nat \ {0} /\ Head(f) = f[1] /\ f[1] \in S
             /\ Tail(f) \in Seq(S) /\ Len(Tail(f)) = n - 1
             /\ \A i \in 1 .. n - 1 : Tail(f)[i] = f[i + 1]
             /\ a \in Seq(S) /\ Len(a) = n /\ a[n] = f[1]
             /\ \A i \in 1 .. n - 1 : a[i] = f[i + 1]
  OBVIOUS

(* The three ways in which exact_add moves slots.                          *)
LEMMA SlotMoves ==
  ASSUME LookupTypeInv, NEW key \in Keys, exact_add(key)
  PROVE  \/ /\ free_slots = <<>>
            /\ UNCHANGED <<position, free_slots>>
         \/ /\ free_slots # <<>> /\ free_slots' = Append(Tail(free_slots), Head(free_slots))
            /\ UNCHANGED position
         \/ /\ free_slots # <<>> /\ free_slots' = Tail(free_slots)
            /\ key \notin DOMAIN position
            /\ DOMAIN position' = DOMAIN position \union {key}
            /\ position'[key] = free_slots[1]
            /\ \A k \in DOMAIN position : position'[k] = position[k]
            /\ Cardinality(DOMAIN position') = Cardinality(DOMAIN position) + 1
            /\ IsFiniteSet(DOMAIN position')
<1>1. CASE /\ free_slots # <<>> /\ key \notin DOMAIN position
           /\ position' = with(position, key, Head(free_slots))
           /\ free_slots' = Tail(free_slots)
  <2>1. /\ DOMAIN position' = DOMAIN position \union {key}
        /\ position'[key] = Head(free_slots)
        /\ \A k \in DOMAIN position : position'[k] = position[k]
    BY <1>1 DEF with
  <2>2. Head(free_slots) = free_slots[1]
    BY <1>1, RingMoves DEF LookupTypeInv, LookupTypeOK
  <2>3. /\ Cardinality(DOMAIN position') = Cardinality(DOMAIN position) + 1
        /\ IsFiniteSet(DOMAIN position')
    BY <1>1, <2>1, FS_AddElement DEF LookupTypeInv
  <2> QED
    BY <1>1, <2>1, <2>2, <2>3
<1> QED
  BY <1>1 DEF exact_add, rte_hash_add_key, put_back

(* Every step keeps the types.                                             *)
LEMMA LookupTypeStep == LookupTypeInv /\ [LookupNext]_lookupvars => LookupTypeInv'
<1> SUFFICES ASSUME LookupTypeInv, [LookupNext]_lookupvars
             PROVE  LookupTypeInv'
  OBVIOUS
<1> USE DEF exactvars, lpmvars
<1>0. /\ LookupTypeOK /\ calls \in Seq(CallSet) /\ entries \in Seq(EntrySet)
      /\ Len(calls) \in Nat /\ Cardinality(DOMAIN position) \in Nat
  BY LenProperties, FS_CardinalityType DEF LookupTypeInv
<1>1. ASSUME NEW key \in Keys, exact_add(key)
      PROVE  LookupTypeInv'
  <2>1. /\ Len(calls') = Len(calls) + 1 /\ calls' \in Seq(CallSet)
        /\ value = Len(calls) + 1
    BY <1>0, <1>1, CallsAre, CallsGrow DEF exact_add, call
  <2>2. PICK i : content' = [content EXCEPT ![i] = Len(calls) + 1]
    BY <1>1, <2>1 DEF exact_add
  <2>3. content' \in [Index -> 0 .. Len(calls')]
    <3>1. content \in [Index -> 0 .. Len(calls)]
      BY <1>0 DEF LookupTypeOK
    <3>2. [content EXCEPT ![i] = Len(calls) + 1] \in [Index -> 0 .. Len(calls) + 1]
      BY <1>0, <3>1, ValueWritten
    <3> QED
      BY <2>1, <2>2, <3>2
  <2>4. /\ lpm_content' \in [Index -> 0 .. Len(calls')]
        /\ default_val' \in [Tables -> 0 .. Len(calls')]
    BY <1>0, <1>1, <2>1, ValueWritten DEF LookupTypeOK, exact_add
  <2>5. /\ DOMAIN position' \subseteq Keys
        /\ \A k \in DOMAIN position' : position'[k] \in 0 .. max_size - 1
        /\ free_slots' \in Seq(0 .. max_size - 1)
        /\ IsFiniteSet(DOMAIN position')
    <3>1. /\ DOMAIN position \subseteq Keys /\ IsFiniteSet(DOMAIN position)
          /\ \A k \in DOMAIN position : position[k] \in 0 .. max_size - 1
          /\ free_slots \in Seq(0 .. max_size - 1)
      BY <1>0 DEF LookupTypeInv, LookupTypeOK
    <3>2. free_slots # <<>> =>
            /\ free_slots[1] \in 0 .. max_size - 1
            /\ Tail(free_slots) \in Seq(0 .. max_size - 1)
            /\ Append(Tail(free_slots), Head(free_slots)) \in Seq(0 .. max_size - 1)
      BY <3>1, RingMoves
    <3> QED
      BY <1>1, <3>1, <3>2, SlotMoves
  <2>6. refused' \subseteq 1 .. Len(calls')
    <3>1. refused \subseteq 1 .. Len(calls) /\ value \in 1 .. Len(calls')
      BY <1>0, <2>1 DEF LookupTypeOK
    <3>2. refused' = refused \/ refused' = refused \union {value}
      BY <1>1 DEF exact_add, rte_hash_add_key
    <3>3. 1 .. Len(calls) \subseteq 1 .. Len(calls')
      BY <1>0, <2>1
    <3> QED
      BY ONLY <3>1, <3>2, <3>3
  <2> QED
    <3>1. UNCHANGED <<max_size, rules, size, entries, running>>
      BY <1>1 DEF exact_add
    <3> QED
      BY <1>0, <2>1, <2>3, <2>4, <2>5, <2>6, <3>1 DEF LookupTypeInv, LookupTypeOK
<1>2. ASSUME NEW rule \in Rules, lpm_add(rule)
      PROVE  LookupTypeInv'
  <2>1. /\ Len(calls') = Len(calls) + 1 /\ calls' \in Seq(CallSet)
        /\ value = Len(calls) + 1
    BY <1>0, <1>2, CallsAre, CallsGrow DEF lpm_add, call
  <2>2. lpm_content' \in [Index -> 0 .. Len(calls')]
    BY <1>0, <1>2, <2>1, ValueWritten DEF LookupTypeOK, lpm_add
  <2>3. /\ content' \in [Index -> 0 .. Len(calls')]
        /\ default_val' \in [Tables -> 0 .. Len(calls')]
    BY <1>0, <1>2, <2>1, ValueWritten DEF LookupTypeOK, lpm_add
  <2>4. size \in Index /\ size' \in Index
    <3>1. size \in Index /\ size + 1 \in Int
      BY <1>0, LookupAssumption DEF LookupTypeOK, Index
    <3> QED
      BY <1>2, <3>1, Remainder DEF lpm_add, incremented
  <2>5. /\ DOMAIN rules' \subseteq Rules
        /\ \A r \in DOMAIN rules' : rules'[r] \in Index
    <3>1. CASE UNCHANGED rules
      BY <1>0, <3>1 DEF LookupTypeOK
    <3>2. CASE rules' = with(rules, rule, size)
      <4>1. /\ DOMAIN rules' = DOMAIN rules \union {rule}
            /\ rules'[rule] = size
            /\ \A r \in DOMAIN rules \ {rule} : rules'[r] = rules[r]
        BY <3>2 DEF with
      <4> QED
        BY <1>0, <2>4, <4>1 DEF LookupTypeOK
    <3> QED
      BY <1>2, <3>1, <3>2 DEF lpm_add, number
  <2>6. running' \in BOOLEAN
    BY <1>0, <1>2 DEF LookupTypeOK, lpm_add
  <2>7. UNCHANGED <<max_size, position, free_slots, refused, entries>>
    BY <1>2 DEF lpm_add
  <2>8. refused \subseteq 1 .. Len(calls')
    BY <1>0, <2>1 DEF LookupTypeOK
  <2> QED
    BY <1>0, <2>1, <2>2, <2>3, <2>4, <2>5, <2>6, <2>7, <2>8
    DEF LookupTypeInv, LookupTypeOK
<1>3. ASSUME NEW pattern \in Patterns, ternary_add(pattern)
      PROVE  LookupTypeInv'
  <2>1. /\ Len(calls') = Len(calls) + 1 /\ calls' \in Seq(CallSet)
        /\ value = Len(calls) + 1
    BY <1>0, <1>3, CallsAre, CallsGrow DEF ternary_add, call
  <2> DEFINE e == [key |-> pattern.key, mask |-> pattern.mask, value |-> value]
  <2>2. e \in EntrySet
    BY <1>0, <2>1, LookupAssumption DEF EntrySet
  <2>3. entries' = Append(entries, e) /\ Len(entries) < AclEntries
    BY <1>3 DEF ternary_add
  <2> HIDE DEF e
  <2>4. /\ entries' \in Seq(EntrySet) /\ Len(entries') <= AclEntries
    <3>1. Len(entries') = Len(entries) + 1 /\ Len(entries) \in Nat
      BY <1>0, <2>2, <2>3, AppendProperties, LenProperties
    <3> QED
      BY <1>0, <2>2, <2>3, <3>1, AppendProperties, LookupAssumption
  <2>5. /\ content' \in [Index -> 0 .. Len(calls')]
        /\ lpm_content' \in [Index -> 0 .. Len(calls')]
        /\ default_val' \in [Tables -> 0 .. Len(calls')]
    BY <1>0, <1>3, <2>1, ValueWritten DEF LookupTypeOK, ternary_add
  <2>6. UNCHANGED <<max_size, position, free_slots, refused, rules, size, running>>
    BY <1>3 DEF ternary_add
  <2>7. refused \subseteq 1 .. Len(calls')
    BY <1>0, <2>1 DEF LookupTypeOK
  <2> QED
    BY <1>0, <2>1, <2>4, <2>5, <2>6, <2>7 DEF LookupTypeInv, LookupTypeOK
<1>4. ASSUME NEW t \in Tables, table_setdefault(t)
      PROVE  LookupTypeInv'
  <2>1. /\ Len(calls') = Len(calls) + 1 /\ calls' \in Seq(CallSet)
        /\ value = Len(calls) + 1
    BY <1>0, <1>4, CallsAre, CallsGrow DEF table_setdefault, call
  <2>2. default_val' \in [Tables -> 0 .. Len(calls')]
    BY <1>0, <1>4, <2>1, ValueWritten DEF LookupTypeOK, table_setdefault
  <2>3. /\ content' \in [Index -> 0 .. Len(calls')]
        /\ lpm_content' \in [Index -> 0 .. Len(calls')]
    BY <1>0, <1>4, <2>1, ValueWritten DEF LookupTypeOK, table_setdefault
  <2>4. UNCHANGED <<max_size, position, free_slots, refused, rules, size, entries, running>>
    BY <1>4 DEF table_setdefault
  <2>5. refused \subseteq 1 .. Len(calls')
    BY <1>0, <2>1 DEF LookupTypeOK
  <2> QED
    BY <1>0, <2>1, <2>2, <2>3, <2>4, <2>5 DEF LookupTypeInv, LookupTypeOK
<1>5. CASE UNCHANGED lookupvars
  BY <1>5 DEF lookupvars, LookupTypeInv, LookupTypeOK
<1> QED
  BY <1>1, <1>2, <1>3, <1>4, <1>5 DEF LookupNext

(* The types of the lookup tables, in every state.                         *)
LEMMA LookupTypeCorrect == LookupSpec => []LookupTypeInv
  BY LookupTypeInit, LookupTypeStep, PTL DEF LookupSpec

-----------------------------------------------------------------------------
(* The least and the greatest of a set of numbers.                         *)

(* The order of the natural numbers has no infinite descent.               *)
LEMMA NatWF == IsWellFoundedOn({ss \in Nat \X Nat : ss[1] < ss[2]}, Nat)
  BY NatLessThanWellFounded DEF OpToRel

(* Every set of natural numbers has a least one ...                        *)
LEMMA LeastNatural ==
  ASSUME NEW U, U \subseteq Nat, U # {}
  PROVE  \E n \in U : \A m \in U : n <= m
<1> DEFINE R == {ss \in Nat \X Nat : ss[1] < ss[2]}
<1>1. IsWellFoundedOn(R, Nat)
  BY NatWF
<1> HIDE DEF R
<1>2. PICK n \in U : \A m \in U : ~(<<m, n>> \in R)
  BY <1>1, WFMin
<1>3. \A m \in U : m \in Nat /\ n \in Nat /\ ~(m < n)
  BY <1>2 DEF R
<1> QED
  BY <1>3

(* ... and every bounded one a greatest.                                   *)
LEMMA GreatestNatural ==
  ASSUME NEW b \in Nat, NEW U, U \subseteq 0 .. b, U # {}
  PROVE  \E n \in U : \A m \in U : m <= n
<1> DEFINE V == {b - n : n \in U}
<1>0. \A n \in U : n \in Int /\ 0 <= n /\ n <= b /\ b - n \in Nat
  OBVIOUS
<1>1. V \subseteq Nat /\ V # {}
  BY <1>0
<1> HIDE DEF V
<1>2. PICK v \in V : \A w \in V : v <= w
  BY <1>1, LeastNatural
<1>3. PICK n \in U : v = b - n
  BY DEF V
<1>4. \A m \in U : b - n <= b - m /\ m \in Int /\ n \in Int
  BY <1>0, <1>2, <1>3 DEF V
<1> QED
  BY <1>4

(* The newest call of a set is in the set, and no other is newer.          *)
LEMMA NewestOf ==
  ASSUME NEW b \in Nat, NEW U, U \subseteq 0 .. b
  PROVE  /\ U # {} => newest(U) \in U /\ \A m \in U : m <= newest(U)
         /\ \A n \in U : (\A m \in U : m <= n) => newest(U) = n
<1>0. \A m \in U : m \in Int
  OBVIOUS
<1>1. U # {} => newest(U) \in U /\ \A m \in U : m <= newest(U)
  BY GreatestNatural DEF newest
<1>2. ASSUME NEW n \in U, \A m \in U : m <= n
      PROVE  newest(U) = n
  <2>1. newest(U) \in U /\ n <= newest(U) /\ newest(U) <= n
    BY <1>1, <1>2
  <2>2. newest(U) \in Int /\ n \in Int
    BY <1>0, <1>2, <2>1
  <2> HIDE DEF newest
  <2> QED
    BY <2>1, <2>2
<1> QED
  BY <1>1, <1>2

-----------------------------------------------------------------------------
(* The exact table.                                                        *)

adds        == Cardinality(calls_of("exact_add"))
accepted(k) == calls_for("exact_add", k) \ refused
place(k)    == position[k] % TABLE_MAX

(* A slot is free or has one key, and rte_hash has max_size of them.       *)
Slots ==
  /\ Len(free_slots) + Cardinality(DOMAIN position) = max_size
  /\ \A i, j \in 1 .. Len(free_slots) : free_slots[i] = free_slots[j] => i = j
  /\ \A i \in 1 .. Len(free_slots), k \in DOMAIN position :
       free_slots[i] # position[k]
  /\ \A j, k \in DOMAIN position : position[j] = position[k] => j = k

(* Each call uses up at most one of the slots, in their first order.       *)
FreshSlots ==
  adds <= max_size =>
    /\ max_size - adds <= Len(free_slots)
    /\ \A i \in 1 .. max_size - adds : free_slots[i] = adds + i - 1
    /\ \A k \in DOMAIN position : position[k] < adds

(* A key is there once a call for it was accepted.  While the table is not *)
(* full, the newest call for a key that is there was accepted.             *)
Accepted ==
  LET keys == Cardinality(DOMAIN position)
  IN  /\ refused \subseteq calls_of("exact_add")
      /\ keys < max_size /\ keys < BucketEntries => refused = {}
      /\ DOMAIN position \subseteq Keys
      /\ \A k \in Keys : k \in DOMAIN position <=> accepted(k) # {}
      /\ keys < max_size => \A k \in DOMAIN position :
           \E n \in accepted(k) : \A m \in calls_for("exact_add", k) : m <= n

(* The pointer of a key is that of its newest accepted call or of a newer  *)
(* call, which in a roomy table is a refused one.                          *)
ExactContent ==
  \A k \in DOMAIN position :
    /\ content[place(k)] \in calls_of("exact_add")
    /\ \A n \in accepted(k) : n <= content[place(k)]
    /\ roomy => \/ content[place(k)] \in accepted(k)
                \/ content[place(k)] \in refused /\ place(k) = no_space

ExactInv == Slots /\ FreshSlots /\ Accepted /\ ExactContent

(* Calls are numbered from one.                                            *)
LEMMA CallsNumbered ==
  ASSUME LookupTypeInv
  PROVE  /\ Len(calls) \in Nat
         /\ \A fun : calls_of(fun) \subseteq 1 .. Len(calls)
         /\ \A fun, key : calls_for(fun, key) \subseteq 1 .. Len(calls)
         /\ \A fun, key : calls_for(fun, key) \subseteq calls_of(fun)
<1>1. Len(calls) \in Nat /\ DOMAIN calls = 1 .. Len(calls)
  BY LenProperties DEF LookupTypeInv
<1>2. \A fun : calls_of(fun) \subseteq 1 .. Len(calls)
  BY <1>1 DEF calls_of
<1>3. \A fun, key : calls_for(fun, key) \subseteq calls_of(fun)
  BY DEF calls_for
<1> QED
  BY <1>1, <1>2, <1>3

(* A small number is its own remainder.                                    *)
LEMMA SmallRemainder == \A x \in 0 .. TABLE_MAX - 1 : x % TABLE_MAX = x
  BY LookupAssumption

(* The numbers of things that the invariants speak of.                     *)
LEMMA ExactNumbers ==
  ASSUME LookupTypeInv
  PROVE  /\ max_size \in Nat \ {0} /\ Len(free_slots) \in Nat
         /\ Cardinality(DOMAIN position) \in Nat /\ adds \in Nat
         /\ IsFiniteSet(calls_of("exact_add"))
         /\ \A k \in DOMAIN position : position[k] \in 0 .. max_size - 1
         /\ \A i \in 1 .. Len(free_slots) : free_slots[i] \in 0 .. max_size - 1
<1>1. max_size \in Nat \ {0} /\ free_slots \in Seq(0 .. max_size - 1)
  BY LookupAssumption DEF LookupTypeInv, LookupTypeOK
<1>2. Cardinality(DOMAIN position) \in Nat
  BY FS_CardinalityType DEF LookupTypeInv
<1>3. IsFiniteSet(calls_of("exact_add")) /\ adds \in Nat
  <2>1. IsFiniteSet(1 .. Len(calls)) /\ calls_of("exact_add") \subseteq 1 .. Len(calls)
    BY CallsNumbered, FS_Interval
  <2> QED
    BY <2>1, FS_Subset, FS_CardinalityType DEF adds
<1> QED
  BY <1>1, <1>2, <1>3 DEF LookupTypeInv, LookupTypeOK

(* What a call of exact_add adds to the calls.                             *)
LEMMA ExactCall ==
  ASSUME LookupTypeInv, NEW key \in Keys, exact_add(key)
  PROVE  /\ Len(calls) \in Nat /\ value = Len(calls) + 1 /\ max_size' = max_size
         /\ calls_of("exact_add")' = calls_of("exact_add") \union {value}
         /\ calls_of("exact_add") \subseteq 1 .. Len(calls)
         /\ adds' = adds + 1
         /\ \A k : calls_for("exact_add", k)' = calls_for("exact_add", k) \union
                     (IF key = k THEN {value} ELSE {})
<1>1. /\ Len(calls) \in Nat /\ value = Len(calls) + 1
      /\ calls_of("exact_add")' = calls_of("exact_add") \union {value}
      /\ \A k : calls_for("exact_add", k)' = calls_for("exact_add", k) \union
                  (IF key = k THEN {value} ELSE {})
  BY CallsAre, CallsGrow DEF exact_add, call, LookupTypeInv
<1>2. calls_of("exact_add") \subseteq 1 .. Len(calls)
  BY CallsNumbered
<1>3. adds' = adds + 1
  <2>1. value \notin calls_of("exact_add") /\ IsFiniteSet(calls_of("exact_add"))
    BY <1>1, <1>2, ExactNumbers
  <2>2. Cardinality(calls_of("exact_add") \union {value}) = adds + 1
    BY <2>1, FS_AddElement DEF adds
  <2> QED
    BY <1>1, <2>2 DEF adds
<1> QED
  BY <1>1, <1>2, <1>3 DEF exact_add

(* The three ways in which exact_add answers: refused, an old key, a new.  *)
LEMMA Answers ==
  ASSUME LookupTypeInv, Slots, NEW key \in Keys, exact_add(key)
  PROVE  \/ /\ refused' = refused \union {value} /\ UNCHANGED position
            /\ \/ Cardinality(DOMAIN position) = max_size
               \/ /\ key \notin DOMAIN position
                  /\ Cardinality(DOMAIN position) >= BucketEntries
         \/ /\ refused' = refused /\ UNCHANGED position
            /\ key \in DOMAIN position
         \/ /\ refused' = refused /\ key \notin DOMAIN position
            /\ DOMAIN position' = DOMAIN position \union {key}
            /\ \A k \in DOMAIN position : position'[k] = position[k]
            /\ Cardinality(DOMAIN position') = Cardinality(DOMAIN position) + 1
<1>1. free_slots = <<>> => Cardinality(DOMAIN position) = max_size
  <2>1. Len(<<>>) = 0
    OBVIOUS
  <2> QED
    BY <2>1, ExactNumbers DEF Slots
<1>2. CASE /\ free_slots # <<>> /\ key \notin DOMAIN position
           /\ position' = with(position, key, Head(free_slots))
           /\ refused' = refused
  <2>1. /\ DOMAIN position' = DOMAIN position \union {key}
        /\ \A k \in DOMAIN position : position'[k] = position[k]
    BY <1>2 DEF with
  <2> QED
    BY <1>2, <2>1, FS_AddElement DEF LookupTypeInv
<1> QED
  BY <1>1, <1>2 DEF exact_add, rte_hash_add_key

(* exact_add leaves every slot free or with one key.                       *)
LEMMA SlotsStep ==
  ASSUME LookupTypeInv, Slots, NEW key \in Keys, exact_add(key)
  PROVE  Slots'
<1> DEFINE f == free_slots
           S == 0 .. max_size - 1
<1>1. /\ f \in Seq(S) /\ Len(f) \in Nat /\ Cardinality(DOMAIN position) \in Nat
      /\ max_size \in Nat /\ max_size' = max_size
      /\ \A k \in DOMAIN position : position[k] \in S
  BY ExactNumbers, ExactCall DEF LookupTypeInv, LookupTypeOK
<1>2. CASE UNCHANGED <<position, free_slots>>
  BY <1>1, <1>2 DEF Slots
<1>3. CASE /\ f # <<>> /\ f' = Append(Tail(f), Head(f))
           /\ UNCHANGED position
  <2>1. /\ Len(f') = Len(f) /\ f'[Len(f)] = f[1] /\ Len(f) >= 1
        /\ \A i \in 1 .. Len(f) - 1 : f'[i] = f[i + 1]
    BY <1>1, <1>3, RingMoves
  <2>2. PICK was \in [1 .. Len(f) -> 1 .. Len(f)] :
          \A i \in 1 .. Len(f) : was[i] = IF i = Len(f) THEN 1 ELSE i + 1
    <3>1. [i \in 1 .. Len(f) |-> IF i = Len(f) THEN 1 ELSE i + 1]
            \in [1 .. Len(f) -> 1 .. Len(f)]
      BY <1>1, <2>1
    <3> QED
      BY <3>1
  <2>3. \A i \in 1 .. Len(f) : f'[i] = f[was[i]]
    <3>1. \A i \in 1 .. Len(f) : i # Len(f) => i \in 1 .. Len(f) - 1
      BY <1>1
    <3> QED
      BY <2>1, <2>2, <3>1
  <2>4. \A i, j \in 1 .. Len(f) : was[i] = was[j] => i = j
    BY <1>1, <2>2
  <2>5. Len(f') + Cardinality(DOMAIN position') = max_size'
    BY <1>1, <1>3, <2>1 DEF Slots
  <2>6. \A i, j \in 1 .. Len(f') : f'[i] = f'[j] => i = j
    <3> SUFFICES ASSUME NEW i \in 1 .. Len(f'), NEW j \in 1 .. Len(f'),
                        f'[i] = f'[j]
                 PROVE  i = j
      OBVIOUS
    <3>1. /\ i \in 1 .. Len(f) /\ j \in 1 .. Len(f)
          /\ was[i] \in 1 .. Len(f) /\ was[j] \in 1 .. Len(f)
      BY <2>1, <2>2
    <3>2. f[was[i]] = f[was[j]]
      BY <2>3, <3>1
    <3>3. was[i] = was[j]
      BY <3>1, <3>2 DEF Slots
    <3> QED
      BY <2>4, <3>1, <3>3
  <2>7. \A i \in 1 .. Len(f'), k \in DOMAIN position' : f'[i] # position'[k]
    <3> SUFFICES ASSUME NEW i \in 1 .. Len(f'), NEW k \in DOMAIN position'
                 PROVE  f'[i] # position'[k]
      OBVIOUS
    <3>1. was[i] \in 1 .. Len(f) /\ f'[i] = f[was[i]]
      BY <2>1, <2>2, <2>3
    <3>2. k \in DOMAIN position /\ position'[k] = position[k]
      BY <1>3
    <3>3. f[was[i]] # position[k]
      BY <3>1, <3>2 DEF Slots
    <3> QED
      BY <3>1, <3>2, <3>3
  <2>8. \A j, k \in DOMAIN position' : position'[j] = position'[k] => j = k
    BY <1>3 DEF Slots
  <2> QED
    BY <2>5, <2>6, <2>7, <2>8 DEF Slots
<1>4. CASE /\ f # <<>> /\ f' = Tail(f)
           /\ key \notin DOMAIN position
           /\ DOMAIN position' = DOMAIN position \union {key}
           /\ position'[key] = f[1]
           /\ \A k \in DOMAIN position : position'[k] = position[k]
           /\ Cardinality(DOMAIN position') = Cardinality(DOMAIN position) + 1
  <2>1. /\ Len(f') = Len(f) - 1 /\ Len(f) >= 1
        /\ \A i \in 1 .. Len(f') : f'[i] = f[i + 1] /\ i + 1 \in 1 .. Len(f)
    BY <1>1, <1>4, RingMoves
  <2>2. Len(f') + Cardinality(DOMAIN position') = max_size'
    <3>1. Len(f) + Cardinality(DOMAIN position) = max_size
      BY DEF Slots
    <3>2. \A l, c, m : l \in Nat /\ c \in Nat /\ l + c = m => (l - 1) + (c + 1) = m
      OBVIOUS
    <3>3. /\ Len(f) \in Nat /\ Cardinality(DOMAIN position) \in Nat
          /\ Len(f') = Len(f) - 1 /\ max_size' = max_size
          /\ Cardinality(DOMAIN position') = Cardinality(DOMAIN position) + 1
      BY <1>1, <1>4, <2>1
    <3>4. (Len(f) - 1) + (Cardinality(DOMAIN position) + 1) = max_size
      BY ONLY <3>1, <3>2, <3>3
    <3> QED
      BY ONLY <3>3, <3>4
  <2>3. \A i, j \in 1 .. Len(f') : f'[i] = f'[j] => i = j
    <3> SUFFICES ASSUME NEW i \in 1 .. Len(f'), NEW j \in 1 .. Len(f'), f'[i] = f'[j]
                 PROVE  i = j
      OBVIOUS
    <3>1. f[i + 1] = f[j + 1] /\ i + 1 \in 1 .. Len(f) /\ j + 1 \in 1 .. Len(f)
      BY <2>1
    <3>2. i + 1 = j + 1
      BY <3>1 DEF Slots
    <3> QED
      BY <3>2
  <2>4. \A i \in 1 .. Len(f') : f'[i] # f[1]
    <3>1. \A i \in 1 .. Len(f') : i + 1 # 1 /\ 1 \in 1 .. Len(f)
      BY <1>1, <2>1
    <3> QED
      BY <2>1, <3>1 DEF Slots
  <2>5. \A k \in DOMAIN position : position[k] # f[1]
    <3>1. 1 \in 1 .. Len(f)
      BY <1>1, <2>1
    <3> QED
      BY <3>1 DEF Slots
  <2>6. \A i \in 1 .. Len(f'), k \in DOMAIN position' : f'[i] # position'[k]
    BY <1>4, <2>1, <2>4 DEF Slots
  <2>7. \A j, k \in DOMAIN position' : position'[j] = position'[k] => j = k
    BY <1>4, <2>5 DEF Slots
  <2> QED
    BY <2>2, <2>3, <2>6, <2>7 DEF Slots
<1> QED
  BY <1>2, <1>3, <1>4, SlotMoves

(* exact_add uses up at most the first of the slots never used.            *)
LEMMA FreshStep ==
  ASSUME LookupTypeInv, Slots, FreshSlots, NEW key \in Keys, exact_add(key)
  PROVE  FreshSlots'
<1> DEFINE f == free_slots
           S == 0 .. max_size - 1
<1>1. /\ f \in Seq(S) /\ Len(f) \in Nat /\ adds \in Nat
      /\ max_size \in Nat /\ max_size' = max_size /\ adds' = adds + 1
      /\ \A k \in DOMAIN position : position[k] \in S
  BY ExactNumbers, ExactCall DEF LookupTypeInv, LookupTypeOK
<1> SUFFICES ASSUME adds + 1 <= max_size
             PROVE  /\ max_size - (adds + 1) <= Len(f')
                    /\ \A i \in 1 .. max_size - (adds + 1) : f'[i] = adds + i
                    /\ \A k \in DOMAIN position' : position'[k] < adds + 1
  <2>1. \A i \in Int : (adds + 1) + i - 1 = adds + i
    BY <1>1
  <2> QED
    BY <1>1, <2>1 DEF FreshSlots
<1>2. /\ max_size - adds <= Len(f) /\ Len(f) >= 1
      /\ \A i \in 1 .. max_size - adds : f[i] = adds + i - 1
      /\ f[1] = adds
      /\ \A k \in DOMAIN position : position[k] < adds
  <2>1. /\ max_size - adds <= Len(f)
        /\ \A i \in 1 .. max_size - adds : f[i] = adds + i - 1
        /\ \A k \in DOMAIN position : position[k] < adds
    BY <1>1 DEF FreshSlots
  <2>2. 1 \in 1 .. max_size - adds /\ adds + 1 - 1 = adds /\ Len(f) >= 1
    BY <1>1, <2>1
  <2> QED
    BY <2>1, <2>2
<1>3. f # <<>>
  BY <1>2
<1>4. \A i \in 1 .. max_size - (adds + 1) :
        i + 1 \in 1 .. max_size - adds /\ i \in 1 .. Len(f) - 1
  BY <1>1, <1>2
<1>5. \A i \in 1 .. max_size - (adds + 1) : f[i + 1] = adds + i
  <2>1. \A i \in Int : adds + (i + 1) - 1 = adds + i
    BY <1>1
  <2> QED
    BY <1>2, <1>4, <2>1
<1>6. \A k \in DOMAIN position : position[k] < adds + 1
  BY <1>1, <1>2
<1>7. CASE /\ f' = Append(Tail(f), Head(f)) /\ UNCHANGED position
  <2>1. Len(f') = Len(f) /\ \A i \in 1 .. Len(f) - 1 : f'[i] = f[i + 1]
    BY <1>1, <1>3, <1>7, RingMoves
  <2> QED
    BY <1>1, <1>2, <1>4, <1>5, <1>6, <1>7, <2>1
<1>8. CASE /\ f' = Tail(f)
           /\ DOMAIN position' = DOMAIN position \union {key}
           /\ position'[key] = f[1]
           /\ \A k \in DOMAIN position : position'[k] = position[k]
  <2>1. Len(f') = Len(f) - 1 /\ \A i \in 1 .. Len(f) - 1 : f'[i] = f[i + 1]
    BY <1>1, <1>3, <1>8, RingMoves
  <2>2. \A k \in DOMAIN position' : position'[k] < adds + 1
    BY <1>1, <1>2, <1>6, <1>8
  <2>3. max_size - (adds + 1) <= Len(f')
    BY <1>1, <1>2, <2>1
  <2> QED
    BY <1>4, <1>5, <2>1, <2>2, <2>3
<1> QED
  BY <1>3, <1>7, <1>8, SlotMoves

(* exact_add accepts the call for its key, or tells no other key's apart.  *)
LEMMA AcceptedStep ==
  ASSUME LookupTypeInv, Slots, Accepted, NEW key \in Keys, exact_add(key)
  PROVE  Accepted'
<1> DEFINE keys == Cardinality(DOMAIN position)
           all(k) == calls_for("exact_add", k)
<1>1. /\ Len(calls) \in Nat /\ value = Len(calls) + 1 /\ max_size' = max_size
      /\ calls_of("exact_add")' = calls_of("exact_add") \union {value}
      /\ \A k : all(k)' = all(k) \union (IF key = k THEN {value} ELSE {})
      /\ \A k : all(k) \subseteq 1 .. Len(calls)
      /\ keys \in Nat /\ max_size \in Nat /\ BucketEntries \in Nat
  BY ExactCall, CallsNumbered, ExactNumbers, LookupAssumption
<1>2. refused \subseteq calls_of("exact_add") /\ refused \subseteq 1 .. Len(calls)
  BY CallsNumbered DEF Accepted
<1>3. /\ \A k : value \notin all(k) /\ value \notin refused
      /\ \A k : \A n \in all(k) : n <= value
      /\ value <= value
  BY <1>1, <1>2
<1>4. refused' \subseteq calls_of("exact_add")'
  BY <1>1, <1>2, Answers
<1> HIDE DEF value, all
<1>5. ASSUME NEW k, k # key, refused' = refused \/ refused' = refused \union {value}
      PROVE  /\ all(k)' = all(k)
             /\ accepted(k)' = accepted(k)
  <2>1. all(k)' = all(k)
    BY <1>1, <1>5
  <2>2. accepted(k) = all(k) \ refused /\ accepted(k)' = all(k)' \ refused'
    BY DEF accepted, all
  <2> QED
    BY <1>3, <1>5, <2>1, <2>2
<1>6. CASE /\ refused' = refused \union {value} /\ UNCHANGED position
           /\ \/ keys = max_size
              \/ key \notin DOMAIN position /\ keys >= BucketEntries
  <2>1. accepted(key)' = accepted(key)
    <3>1. /\ accepted(key) = all(key) \ refused
          /\ accepted(key)' = all(key)' \ refused'
      BY DEF accepted, all
    <3> QED
      BY <1>1, <1>3, <1>6, <3>1
  <2>2. \A k \in Keys : k \in DOMAIN position' <=> accepted(k)' # {}
    BY <1>5, <1>6, <2>1 DEF Accepted
  <2>3. keys' < max_size' => key \notin DOMAIN position /\ keys >= BucketEntries
    BY <1>1, <1>6
  <2>4. keys' < max_size' => \A k \in DOMAIN position' :
          \E n \in accepted(k)' : \A m \in all(k)' : m <= n
    <3> SUFFICES ASSUME keys' < max_size', NEW k \in DOMAIN position'
                 PROVE  \E n \in accepted(k)' : \A m \in all(k)' : m <= n
      OBVIOUS
    <3>1. k \in DOMAIN position /\ k # key /\ keys < max_size
      BY <1>1, <1>6, <2>3
    <3>2. \E n \in accepted(k) : \A m \in all(k) : m <= n
      BY <3>1 DEF Accepted, all
    <3> QED
      BY <1>5, <1>6, <3>1, <3>2
  <2>5. ~(keys' < max_size' /\ keys' < BucketEntries)
    BY <1>1, <1>6, <2>3
  <2> QED
    BY <1>4, <1>6, <2>2, <2>4, <2>5 DEF Accepted, all
<1>7. ASSUME refused' = refused, DOMAIN position' = DOMAIN position \union {key},
             keys <= keys', keys' \in Nat
      PROVE  Accepted'
  <2>1. accepted(key)' = accepted(key) \union {value}
    <3>1. /\ accepted(key) = all(key) \ refused
          /\ accepted(key)' = all(key)' \ refused'
      BY DEF accepted, all
    <3> QED
      BY <1>1, <1>3, <1>7, <3>1
  <2>2. \A k \in Keys : k \in DOMAIN position' <=> accepted(k)' # {}
    BY <1>5, <1>7, <2>1 DEF Accepted
  <2>3. keys' < max_size' => keys < max_size
    BY <1>1, <1>7
  <2>4. keys' < max_size' => \A k \in DOMAIN position' :
          \E n \in accepted(k)' : \A m \in all(k)' : m <= n
    <3> SUFFICES ASSUME keys' < max_size', NEW k \in DOMAIN position'
                 PROVE  \E n \in accepted(k)' : \A m \in all(k)' : m <= n
      OBVIOUS
    <3>1. CASE k = key
      <4>1. all(key)' = all(key) \union {value}
        BY <1>1
      <4>2. \A m \in all(key)' : m <= value
        BY <1>3, <4>1
      <4> QED
        BY <2>1, <3>1, <4>2
    <3>2. CASE k # key
      <4>1. \E n \in accepted(k) : \A m \in all(k) : m <= n
        BY <1>7, <2>3, <3>2 DEF Accepted, all
      <4> QED
        BY <1>5, <1>7, <3>2, <4>1
    <3> QED
      BY <3>1, <3>2
  <2>5. keys' < max_size' /\ keys' < BucketEntries => refused' = {}
    <3>1. keys' < BucketEntries => keys < BucketEntries
      BY <1>1, <1>7
    <3> QED
      BY <1>7, <2>3, <3>1 DEF Accepted
  <2>6. DOMAIN position' \subseteq Keys
    BY <1>7 DEF Accepted
  <2> QED
    BY <1>4, <2>2, <2>4, <2>5, <2>6 DEF Accepted, all
<1>8. CASE refused' = refused /\ UNCHANGED position /\ key \in DOMAIN position
  <2>1. DOMAIN position' = DOMAIN position \union {key} /\ keys' = keys
    BY <1>8
  <2> QED
    BY <1>1, <1>7, <1>8, <2>1
<1>9. CASE /\ refused' = refused
           /\ DOMAIN position' = DOMAIN position \union {key}
           /\ keys' = keys + 1
  BY <1>1, <1>7, <1>9
<1> QED
  BY <1>6, <1>8, <1>9, Answers

(* In a roomy table of n slots, after c calls, each key has a place of its *)
(* own.                                                                    *)
LEMMA PlacesDiffer ==
  ASSUME NEW f, NEW n \in Nat, NEW c \in Nat,
         \A i \in DOMAIN f : f[i] \in 0 .. n - 1,
         c <= n => \A i \in DOMAIN f : f[i] < c,
         \A i, j \in DOMAIN f : f[i] = f[j] => i = j,
         n <= TABLE_MAX \/ c <= TABLE_MAX,
         NEW j \in DOMAIN f, NEW k \in DOMAIN f,
         f[j] % TABLE_MAX = f[k] % TABLE_MAX
  PROVE  j = k
<1>1. TABLE_MAX \in Nat
  BY LookupAssumption
<1>2. \A i \in DOMAIN f : f[i] \in 0 .. TABLE_MAX - 1
  <2>1. CASE n <= TABLE_MAX
    BY <1>1, <2>1
  <2>2. CASE ~(n <= TABLE_MAX)
    <3>1. c <= TABLE_MAX /\ c <= n
      BY <1>1, <2>2
    <3> QED
      BY <1>1, <3>1
  <2> QED
    BY <2>1, <2>2
<1>3. f[j] % TABLE_MAX = f[j] /\ f[k] % TABLE_MAX = f[k]
  BY <1>2, SmallRemainder
<1> QED
  BY <1>3

(* exact_add writes the newest value at the place of its key, which in a   *)
(* roomy table is that of no other key, or at no_space.                    *)
LEMMA ContentStep ==
  ASSUME LookupTypeInv, LookupTypeInv', ExactInv, Slots', FreshSlots',
         NEW key \in Keys, exact_add(key)
  PROVE  ExactContent'
<1> DEFINE index == IF value \in refused' THEN no_space
                    ELSE position'[key] % TABLE_MAX
<1>1. /\ Len(calls) \in Nat /\ value = Len(calls) + 1 /\ max_size' = max_size
      /\ calls_of("exact_add")' = calls_of("exact_add") \union {value}
      /\ calls_of("exact_add") \subseteq 1 .. Len(calls)
      /\ adds' = adds + 1 /\ adds \in Nat /\ TABLE_MAX \in Nat
      /\ \A k : calls_for("exact_add", k)' = calls_for("exact_add", k) \union
                  (IF key = k THEN {value} ELSE {})
  BY ExactCall, ExactNumbers, LookupAssumption
<1>2. /\ \A k \in DOMAIN position :
           k \in DOMAIN position' /\ position'[k] = position[k]
      /\ DOMAIN position' \subseteq DOMAIN position \union {key}
      /\ \/ refused' = refused \union {value} /\ UNCHANGED position
         \/ refused' = refused /\ key \in DOMAIN position'
  BY Answers DEF ExactInv
<1>3. /\ value \notin refused /\ value <= value
      /\ \A k : \A n \in accepted(k) : n <= value /\ n # value
  <2>1. refused \subseteq calls_of("exact_add")
    BY DEF ExactInv, Accepted
  <2>2. \A k : \A n \in accepted(k) : n \in 1 .. Len(calls)
    BY CallsNumbered DEF accepted
  <2> QED
    BY <1>1, <2>1, <2>2
<1>4. content' = [content EXCEPT ![index] = value]
  BY DEF exact_add
<1>5. content \in [Index -> 0 .. Len(calls)]
  BY DEF LookupTypeInv, LookupTypeOK
<1>6. \A k \in DOMAIN position' : place(k)' \in Index
  BY Remainder DEF LookupTypeInv, LookupTypeOK, place
<1>7. value \in calls_of("exact_add")'
  BY <1>1
<1>8. value \notin refused' => index = place(key)'
  BY DEF place
<1>9. value \in refused' => index = no_space
  OBVIOUS
<1> HIDE DEF index, value
<1>10. ASSUME NEW k \in DOMAIN position'
       PROVE  /\ content'[place(k)'] \in calls_of("exact_add")'
              /\ \A n \in accepted(k)' : n <= content'[place(k)']
              /\ roomy' => \/ content'[place(k)'] \in accepted(k)'
                           \/ content'[place(k)'] \in refused' /\ place(k)' = no_space
  <2>1. content'[place(k)'] = IF place(k)' = index THEN value ELSE content[place(k)']
    BY <1>4, <1>5, <1>6, <1>10
  <2>2. /\ \A n : n \in accepted(k)' <=> n \in calls_for("exact_add", k)' /\ n \notin refused'
        /\ \A n : n \in accepted(k) <=> n \in calls_for("exact_add", k) /\ n \notin refused
    BY DEF accepted
  <2>3. \A n \in accepted(k)' : n \in accepted(k) \/ (n = value /\ k = key)
    BY <1>1, <1>2, <1>3, <2>2
  <2>4. accepted(k) \subseteq accepted(k)'
    BY <1>1, <1>2, <1>3, <2>2
  <2>5. CASE place(k)' = index
    <3>1. content'[place(k)'] = value
      BY <2>1, <2>5
    <3>2. \A n \in accepted(k)' : n <= value
      BY <1>1, <1>3, <2>3
    <3>3. CASE value \in refused'
      BY <1>7, <1>9, <2>5, <3>1, <3>2, <3>3
    <3>4. CASE value \notin refused'
      <4>1. key \in DOMAIN position' /\ place(key)' = place(k)'
        BY <1>2, <1>8, <2>5, <3>4
      <4>2. roomy' => k = key
        <5>1. /\ max_size' \in Nat /\ adds' \in Nat
              /\ \A i \in DOMAIN position' : position'[i] \in 0 .. max_size' - 1
          <6>1. max_size \in Nat /\ adds \in Nat
            BY ExactNumbers
          <6>2. adds' \in Nat /\ max_size' \in Nat
            BY <1>1, <6>1
          <6>3. \A i \in DOMAIN position' : position'[i] \in 0 .. max_size' - 1
            BY DEF LookupTypeInv, LookupTypeOK
          <6> QED
            BY <6>2, <6>3
        <5>2. /\ adds' <= max_size' => \A i \in DOMAIN position' : position'[i] < adds'
              /\ \A i, j \in DOMAIN position' : position'[i] = position'[j] => i = j
          BY DEF FreshSlots, Slots
        <5>3. position'[key] % TABLE_MAX = position'[k] % TABLE_MAX
          BY <4>1 DEF place
        <5>4. roomy' => max_size' <= TABLE_MAX \/ adds' <= TABLE_MAX
          BY DEF roomy, adds
        <5> HIDE DEF adds
        <5> QED
          BY <1>10, <4>1, <5>1, <5>2, <5>3, <5>4, PlacesDiffer
      <4>3. k = key => value \in accepted(k)'
        BY <1>1, <2>2, <3>4
      <4> QED
        BY <1>7, <3>1, <3>2, <4>2, <4>3
    <3> QED
      BY <3>3, <3>4
  <2>6. CASE place(k)' # index
    <3>1. k \in DOMAIN position
      BY <1>2, <1>3, <1>8, <1>10, <2>6
    <3>2. place(k)' = place(k) /\ content'[place(k)'] = content[place(k)]
      BY <1>2, <2>1, <2>6, <3>1 DEF place
    <3>3. /\ content[place(k)] \in calls_of("exact_add")
          /\ \A n \in accepted(k) : n <= content[place(k)]
          /\ roomy => \/ content[place(k)] \in accepted(k)
                      \/ content[place(k)] \in refused /\ place(k) = no_space
      BY <3>1 DEF ExactInv, ExactContent
    <3>4. roomy' => roomy
      BY <1>1 DEF roomy, adds
    <3>5. value \notin accepted(k)'
      <4>1. k = key => value \in refused'
        BY <1>8, <2>6
      <4> QED
        BY <1>3, <2>2, <2>3, <4>1
    <3>6. accepted(k)' = accepted(k) /\ refused \subseteq refused'
      BY <1>2, <2>3, <2>4, <3>5
    <3> QED
      BY <1>1, <3>2, <3>3, <3>4, <3>6
  <2> QED
    BY <2>5, <2>6
<1> QED
  BY <1>10 DEF ExactContent

(* exact_add keeps the invariant.                                          *)
LEMMA ExactAddKeeps ==
  ASSUME LookupTypeInv, LookupTypeInv', ExactInv, NEW key \in Keys, exact_add(key)
  PROVE  ExactInv'
<1>1. Slots' /\ FreshSlots' /\ Accepted'
  BY SlotsStep, FreshStep, AcceptedStep DEF ExactInv
<1>2. ExactContent'
  BY <1>1, ContentStep
<1> QED
  BY <1>1, <1>2 DEF ExactInv

(* What leaves the exact table and its calls alone keeps the invariant.    *)
LEMMA ExactSame ==
  ASSUME ExactInv, UNCHANGED exactvars,
         calls_of("exact_add")' = calls_of("exact_add"),
         \A k : calls_for("exact_add", k)' = calls_for("exact_add", k)
  PROVE  ExactInv'
<1>1. /\ UNCHANGED <<max_size, position, free_slots, refused, content>>
      /\ adds' = adds
      /\ \A k : accepted(k)' = accepted(k)
      /\ \A k : place(k)' = place(k)
      /\ roomy' <=> roomy
  BY DEF exactvars, adds, accepted, place, roomy
<1>2. Slots'
  BY <1>1 DEF ExactInv, Slots
<1>3. FreshSlots'
  BY <1>1 DEF ExactInv, FreshSlots
<1>4. Accepted'
  BY <1>1 DEF ExactInv, Accepted
<1>5. ExactContent'
  BY <1>1 DEF ExactInv, ExactContent
<1> QED
  BY <1>2, <1>3, <1>4, <1>5 DEF ExactInv

(* Calls for the other tables leave the exact one as it is.                *)
LEMMA ExactQuiet ==
  ASSUME LookupTypeInv, ExactInv,
         NEW c \in CallSet, c.fun # "exact_add", calls' = Append(calls, c),
         UNCHANGED exactvars
  PROVE  ExactInv'
<1>1. /\ calls_of("exact_add")' = calls_of("exact_add")
      /\ \A k : calls_for("exact_add", k)' = calls_for("exact_add", k)
  BY CallsOfOthers DEF LookupTypeInv
<1> QED
  BY <1>1, ExactSame

(* A key of the exact table finds its newest accepted value as long as the *)
(* table has a pointer for each slot, or no more calls were made than it   *)
(* has pointers, unless a call was refused since; and never an older one.  *)
(* Only full tables and full buckets refuse calls.                         *)
THEOREM ExactAlwaysFindsNewest == LookupSpec => []ExactFindsNewest
<1>1. LookupInit => ExactInv
  <2> SUFFICES ASSUME LookupInit
               PROVE  ExactInv
    OBVIOUS
  <2>1. /\ DOMAIN position = {} /\ refused = {} /\ calls_of("exact_add") = {}
        /\ \A k : accepted(k) = {}
    BY DEF LookupInit, calls_of, calls_for, accepted
  <2>2. Cardinality({}) = 0
    BY FS_EmptySet
  <2>3. /\ max_size \in Nat \ {0}
        /\ free_slots = [i \in 1 .. max_size |-> i - 1]
    BY LookupAssumption DEF LookupInit
  <2>4. /\ Len(free_slots) = max_size /\ adds = 0
        /\ \A i \in 1 .. max_size : free_slots[i] = i - 1
    <3>1. Len(free_slots) = max_size /\ \A i \in 1 .. max_size : free_slots[i] = i - 1
      BY <2>3
    <3> QED
      BY <2>1, <2>2, <3>1 DEF adds
  <2>5. Slots
    BY <2>1, <2>2, <2>3, <2>4 DEF Slots
  <2>6. FreshSlots
    BY <2>1, <2>3, <2>4 DEF FreshSlots
  <2>7. Accepted /\ ExactContent
    BY <2>1 DEF Accepted, ExactContent
  <2> QED
    BY <2>5, <2>6, <2>7 DEF ExactInv
<1>2. LookupTypeInv /\ LookupTypeInv' /\ ExactInv /\ [LookupNext]_lookupvars
        => ExactInv'
  <2> SUFFICES ASSUME LookupTypeInv, LookupTypeInv', ExactInv,
                      [LookupNext]_lookupvars
               PROVE  ExactInv'
    OBVIOUS
  <2>1. ASSUME NEW rule \in Rules, lpm_add(rule)
        PROVE  ExactInv'
    BY <2>1, CallsAre, ExactQuiet DEF lpm_add, call
  <2>2. ASSUME NEW pattern \in Patterns, ternary_add(pattern)
        PROVE  ExactInv'
    BY <2>2, CallsAre, ExactQuiet DEF ternary_add, call
  <2>3. ASSUME NEW t \in Tables, table_setdefault(t)
        PROVE  ExactInv'
    BY <2>3, CallsAre, ExactQuiet DEF table_setdefault, call
  <2>4. CASE UNCHANGED lookupvars
    <3>1. UNCHANGED exactvars /\ UNCHANGED calls
      BY <2>4 DEF lookupvars
    <3>2. /\ calls_of("exact_add")' = calls_of("exact_add")
          /\ \A k : calls_for("exact_add", k)' = calls_for("exact_add", k)
      BY <3>1 DEF calls_of, calls_for
    <3> QED
      BY <3>1, <3>2, ExactSame
  <2> QED
    BY <2>1, <2>2, <2>3, <2>4, ExactAddKeeps DEF LookupNext
<1>3. LookupTypeInv /\ ExactInv => ExactFindsNewest
  <2> SUFFICES ASSUME LookupTypeInv, ExactInv
               PROVE  ExactFindsNewest
    OBVIOUS
  <2> DEFINE keys   == Cardinality(DOMAIN position)
             all(k) == calls_for("exact_add", k)
  <2>1. keys < max_size /\ keys < BucketEntries => refused = {}
    BY DEF ExactInv, Accepted
  <2>2. ASSUME NEW k \in Keys, accepted(k) = {}
        PROVE  exact_lookup(k) = default_val["exact"]
    BY <2>2 DEF ExactInv, Accepted, exact_lookup
  <2>3. ASSUME NEW k \in Keys, accepted(k) # {}
        PROVE  LET m == exact_lookup(k)
               IN  /\ m \in calls_of("exact_add") /\ m >= newest(accepted(k))
                   /\ roomy => \/ m = newest(accepted(k))
                               \/ m \in refused /\ no_space < max_size
                   /\ keys < max_size => newest(accepted(k)) = newest(all(k))
    <3>1. k \in DOMAIN position /\ exact_lookup(k) = content[place(k)]
      BY <2>3 DEF ExactInv, Accepted, exact_lookup, place
    <3>2. /\ Len(calls) \in Nat /\ all(k) \subseteq 0 .. Len(calls)
          /\ accepted(k) \subseteq all(k) /\ calls_of("exact_add") \subseteq 0 .. Len(calls)
      BY CallsNumbered DEF accepted
    <3>3. /\ newest(accepted(k)) \in accepted(k)
          /\ \A n \in accepted(k) : n <= newest(accepted(k))
          /\ \A n \in accepted(k) : (\A m \in accepted(k) : m <= n) =>
                                      newest(accepted(k)) = n
          /\ \A n \in all(k) : (\A m \in all(k) : m <= n) => newest(all(k)) = n
      <4>1. accepted(k) \subseteq 0 .. Len(calls)
        BY <3>2
      <4> QED
        BY <2>3, <3>2, <4>1, NewestOf
    <3> HIDE DEF newest, all
    <3>4. /\ content[place(k)] \in calls_of("exact_add")
          /\ \A n \in accepted(k) : n <= content[place(k)]
          /\ roomy => \/ content[place(k)] \in accepted(k)
                      \/ content[place(k)] \in refused /\ place(k) = no_space
      BY <3>1 DEF ExactInv, ExactContent
    <3>5. content[place(k)] >= newest(accepted(k))
      <4>1. content[place(k)] \in Int /\ newest(accepted(k)) \in Int
        BY <3>2, <3>3, <3>4
      <4> QED
        BY <3>3, <3>4, <4>1
    <3>6. roomy /\ place(k) = no_space => no_space < max_size
      <4>1. /\ position[k] \in 0 .. max_size - 1 /\ max_size \in Nat
            /\ TABLE_MAX \in Nat \ {0}
        BY <3>1, ExactNumbers, LookupAssumption
      <4>2. place(k) \in 0 .. TABLE_MAX - 1
        BY <4>1, Remainder DEF place, Index
      <4>3. CASE max_size <= TABLE_MAX
        <5>1. place(k) = position[k]
          BY <4>1, <4>3, SmallRemainder DEF place
        <5> QED
          BY <4>1, <5>1
      <4>4. CASE ~(max_size <= TABLE_MAX)
        BY <4>1, <4>2, <4>4
      <4> QED
        BY <4>3, <4>4
    <3>7. keys < max_size => newest(accepted(k)) = newest(all(k))
      <4> SUFFICES ASSUME keys < max_size
                   PROVE  newest(accepted(k)) = newest(all(k))
        OBVIOUS
      <4>1. PICK n \in accepted(k) : \A m \in all(k) : m <= n
        BY <3>1 DEF ExactInv, Accepted, all
      <4> QED
        BY <3>2, <3>3, <4>1
    <3> QED
      BY <3>1, <3>3, <3>4, <3>5, <3>6, <3>7
  <2> QED
    BY <2>1, <2>2, <2>3 DEF ExactFindsNewest, LookupTypeInv, accepted
<1> QED
  BY <1>1, <1>2, <1>3, LookupTypeCorrect, PTL DEF LookupSpec

-----------------------------------------------------------------------------
(* The lpm table.                                                          *)

\* The additions made since call n.
since(n) == {m \in calls_of("lpm_add") : m > n}

(* A rule is found from its first addition on.  Its pointer is that of its *)
(* newest call, and size is as far from its number as additions were made  *)
(* since, until the numbers have gone round once; then the pointer is that *)
(* of a newer call.                                                        *)
LpmInv ==
  running =>
    /\ \A r \in Rules : r \in DOMAIN rules <=> calls_for("lpm_add", r) # {}
    /\ \A r \in DOMAIN rules :
         LET n == newest(calls_for("lpm_add", r))
             s == Cardinality(since(n))
         IN  /\ lpm_content[rules[r]] >= n
             /\ s < TABLE_MAX =>
                  /\ size = IF rules[r] + 1 + s < TABLE_MAX THEN rules[r] + 1 + s
                            ELSE rules[r] + 1 + s - TABLE_MAX
                  /\ lpm_content[rules[r]] = n

(* The number after the last one is zero.                                  *)
LEMMA Incremented ==
  ASSUME size \in Index
  PROVE  incremented = IF size + 1 < TABLE_MAX THEN size + 1 ELSE 0
<1>1. CASE size + 1 < TABLE_MAX
  BY <1>1, SmallRemainder, LookupAssumption DEF Index, incremented
<1>2. CASE size + 1 = TABLE_MAX
  <2>1. TABLE_MAX % TABLE_MAX = 0
    BY LookupAssumption
  <2> QED
    BY <1>2, <2>1, LookupAssumption DEF incremented
<1> QED
  BY <1>1, <1>2, LookupAssumption DEF Index

(* An addition is the newest call of its rule, and one more since every    *)
(* earlier call.                                                           *)
LEMMA SinceGrows ==
  ASSUME LookupTypeInv, LookupTypeInv', NEW rule \in Rules, lpm_add(rule)
  PROVE  /\ value = Len(calls) + 1
         /\ newest(calls_for("lpm_add", rule)') = value
         /\ \A v : v = value => Cardinality(since(v)') = 0
         /\ \A r : r # rule => calls_for("lpm_add", r)' = calls_for("lpm_add", r)
         /\ calls_for("lpm_add", rule)' # {}
         /\ \A n \in 0 .. Len(calls) :
              /\ Cardinality(since(n)) \in Nat
              /\ Cardinality(since(n)') = Cardinality(since(n)) + 1
<1>1. /\ value = Len(calls) + 1 /\ Len(calls) \in Nat
      /\ calls_of("lpm_add")' = calls_of("lpm_add") \union {value}
      /\ \A r : calls_for("lpm_add", r)' = calls_for("lpm_add", r) \union
                  (IF rule = r THEN {value} ELSE {})
  BY CallsAre, CallsGrow DEF lpm_add, call, LookupTypeInv
<1>2. /\ calls_of("lpm_add") \subseteq 1 .. Len(calls)
      /\ calls_for("lpm_add", rule) \subseteq 1 .. Len(calls)
  BY CallsNumbered
<1> HIDE DEF value
<1>3. newest(calls_for("lpm_add", rule)') = value
  <2>1. /\ calls_for("lpm_add", rule)' \subseteq 0 .. value
        /\ value \in calls_for("lpm_add", rule)'
        /\ \A m \in calls_for("lpm_add", rule)' : m <= value
        /\ value \in Nat
    BY <1>1, <1>2
  <2> QED
    BY <2>1, NewestOf
<1>4. ASSUME NEW v, v = value
      PROVE  Cardinality(since(v)') = 0
  <2>1. \A m \in calls_of("lpm_add")' : ~(m > v)
    BY <1>1, <1>2, <1>4
  <2>2. since(v)' = {}
    BY <2>1 DEF since
  <2> QED
    BY <2>2, FS_EmptySet
<1>5. ASSUME NEW n \in 0 .. Len(calls)
      PROVE  /\ Cardinality(since(n)) \in Nat
             /\ Cardinality(since(n)') = Cardinality(since(n)) + 1
  <2>1. since(n)' = since(n) \union {value} /\ value \notin since(n)
    BY <1>1, <1>2 DEF since
  <2>2. IsFiniteSet(since(n))
    <3>1. since(n) \in SUBSET (1 .. Len(calls)) /\ IsFiniteSet(1 .. Len(calls))
      BY <1>1, <1>2, FS_Interval DEF since
    <3> QED
      BY <3>1, FS_Subset
  <2> QED
    BY <2>1, <2>2, FS_AddElement, FS_CardinalityType
<1> QED
  BY <1>1, <1>3, <1>4, <1>5

(* Another addition, seen from rule r: its pointer stays, unless size came *)
(* round to its number.                                                    *)
LEMMA LpmAddKeeps ==
  ASSUME LookupTypeInv, LookupTypeInv', LpmInv, NEW rule \in Rules, lpm_add(rule)
  PROVE  LpmInv'
<1> SUFFICES ASSUME running'
             PROVE  LpmInv'
  BY DEF LpmInv
<1>1. /\ value = Len(calls) + 1 /\ Len(calls) \in Nat
      /\ newest(calls_for("lpm_add", rule)') = value
      /\ \A v : v = value => Cardinality(since(v)') = 0
      /\ \A r : r # rule => calls_for("lpm_add", r)' = calls_for("lpm_add", r)
      /\ calls_for("lpm_add", rule)' # {}
      /\ \A n \in 0 .. Len(calls) :
           /\ Cardinality(since(n)) \in Nat
           /\ Cardinality(since(n)') = Cardinality(since(n)) + 1
  BY SinceGrows, CallsNumbered
<1>2. /\ running /\ rules' = with(rules, rule, size)
      /\ lpm_content' = [lpm_content EXCEPT ![size] = value]
      /\ size' = IF size + 1 < TABLE_MAX THEN size + 1 ELSE 0
  <2>1. size \in Index
    BY DEF LookupTypeInv, LookupTypeOK
  <2> QED
    BY <2>1, Incremented DEF lpm_add, number, call
<1>3. /\ DOMAIN rules' = DOMAIN rules \union {rule}
      /\ rules'[rule] = size
      /\ \A r \in DOMAIN rules \ {rule} : rules'[r] = rules[r]
  BY <1>2 DEF with
<1>4. /\ lpm_content \in [Index -> 0 .. Len(calls)] /\ size \in Index
      /\ \A r \in DOMAIN rules : rules[r] \in Index
      /\ \A i \in Index : i \in Int /\ 0 <= i /\ i < TABLE_MAX
  <2>1. \A i \in Index : i \in Int /\ 0 <= i /\ i < TABLE_MAX
    BY LookupAssumption DEF Index
  <2> QED
    BY <2>1 DEF LookupTypeInv, LookupTypeOK
<1>5. /\ lpm_content'[size] = value
      /\ \A i \in Index \ {size} : lpm_content'[i] = lpm_content[i]
  BY <1>2, <1>4
<1> HIDE DEF value, newest
<1>6. \A r \in Rules : r \in DOMAIN rules' <=> calls_for("lpm_add", r)' # {}
  BY <1>1, <1>2, <1>3 DEF LpmInv
<1>7. ASSUME NEW r \in DOMAIN rules', NEW n, n = newest(calls_for("lpm_add", r)'),
             NEW s, s = Cardinality(since(n)')
      PROVE  /\ lpm_content'[rules'[r]] >= n
             /\ s < TABLE_MAX =>
                  /\ size' = IF rules'[r] + 1 + s < TABLE_MAX THEN rules'[r] + 1 + s
                             ELSE rules'[r] + 1 + s - TABLE_MAX
                  /\ lpm_content'[rules'[r]] = n
  <2>1. CASE r = rule
    <3>1. n = value /\ s = 0 /\ rules'[r] = size /\ value \in Int
      BY <1>1, <1>3, <1>7, <2>1
    <3>2. size \in Int /\ size < TABLE_MAX /\ TABLE_MAX \in Int
      BY <1>4, LookupAssumption
    <3> QED
      BY <1>2, <1>5, <3>1, <3>2
  <2>2. CASE r # rule
    <3> DEFINE k == Cardinality(since(n))
    <3>1. /\ r \in DOMAIN rules /\ rules'[r] = rules[r]
          /\ n = newest(calls_for("lpm_add", r))
      BY <1>1, <1>3, <1>7, <2>2
    <3>2. n \in 0 .. Len(calls)
      <4>1. r \in Rules /\ calls_for("lpm_add", r) # {}
        BY <1>2, <3>1 DEF LpmInv, LookupTypeInv, LookupTypeOK
      <4>2. calls_for("lpm_add", r) \subseteq 0 .. Len(calls)
        BY CallsNumbered
      <4> QED
        BY <1>1, <3>1, <4>1, <4>2, NewestOf
    <3>3. k \in Nat /\ s = k + 1
      BY <1>1, <1>7, <3>2
    <3>4. /\ lpm_content[rules[r]] >= n
          /\ k < TABLE_MAX =>
               /\ size = IF rules[r] + 1 + k < TABLE_MAX THEN rules[r] + 1 + k
                         ELSE rules[r] + 1 + k - TABLE_MAX
               /\ lpm_content[rules[r]] = n
      BY <1>2, <3>1 DEF LpmInv
    <3> HIDE DEF k
    <3>5. /\ rules[r] \in Int /\ 0 <= rules[r] /\ rules[r] < TABLE_MAX
          /\ size \in Int /\ TABLE_MAX \in Int
      BY <1>4, <3>1, LookupAssumption
    <3>6. s < TABLE_MAX =>
            /\ size # rules[r]
            /\ size' = IF rules[r] + 1 + s < TABLE_MAX THEN rules[r] + 1 + s
                       ELSE rules[r] + 1 + s - TABLE_MAX
      BY <1>2, <3>3, <3>4, <3>5
    <3>7. lpm_content'[rules[r]] = IF size = rules[r] THEN value
                                   ELSE lpm_content[rules[r]]
      BY <1>4, <1>5, <3>1
    <3>8. value \in Int /\ n \in Int /\ value >= n
      BY <1>1, <3>2
    <3> QED
      BY <3>1, <3>3, <3>4, <3>5, <3>6, <3>7, <3>8
  <2> QED
    BY <2>1, <2>2
<1> QED
  BY <1>6, <1>7 DEF LpmInv

(* Calls for the other tables leave the lpm one as it is.                  *)
LEMMA LpmQuiet ==
  ASSUME LookupTypeInv, LpmInv, UNCHANGED lpmvars, running' => running,
         calls_of("lpm_add")' = calls_of("lpm_add"),
         \A r : calls_for("lpm_add", r)' = calls_for("lpm_add", r)
  PROVE  LpmInv'
<1>1. UNCHANGED <<rules, lpm_content, size>>
  BY DEF lpmvars
<1>2. \A n : since(n)' = since(n)
  BY DEF since
<1> QED
  BY <1>1, <1>2 DEF LpmInv

(* The rule rte_lpm decides for is the longest of those that were added    *)
(* and cover the address.                                                  *)
LEMMA LongestIs ==
  ASSUME LookupTypeInv, LpmInv, running, NEW ip
  PROVE  LET own == {r \in Rules : covers(r, ip) /\ calls_for("lpm_add", r) # {}}
             r   == CHOOSE q \in own : \A o \in own : o.depth <= q.depth
         IN  /\ own = {q \in DOMAIN rules : covers(q, ip)}
             /\ own # {} => r \in own /\ longest(ip) = r
<1> DEFINE own == {r \in Rules : covers(r, ip) /\ calls_for("lpm_add", r) # {}}
           best(q) == \A o \in own : o.depth <= q.depth
<1>1. own = {q \in DOMAIN rules : covers(q, ip)}
  BY DEF LpmInv, LookupTypeInv, LookupTypeOK
<1>2. \A q : (q \in own /\ best(q)) <=>
             /\ q \in DOMAIN rules /\ covers(q, ip)
             /\ \A o \in DOMAIN rules : covers(o, ip) => o.depth <= q.depth
  BY <1>1
<1>3. longest(ip) = CHOOSE q \in own : best(q)
  <2> DEFINE right(q) == /\ covers(q, ip)
                         /\ \A o \in DOMAIN rules : covers(o, ip) => o.depth <= q.depth
  <2>1. \A q : (q \in own /\ best(q)) <=> (q \in DOMAIN rules /\ right(q))
    BY <1>2
  <2> HIDE DEF own, best, right
  <2>2. (CHOOSE q \in DOMAIN rules : right(q)) = (CHOOSE q \in own : best(q))
    BY <2>1, Zenon
  <2> QED
    BY <2>2 DEF longest, right
<1>4. ASSUME own # {}
      PROVE  \E q \in own : best(q)
  <2> DEFINE D == {o.depth : o \in own}
  <2>1. LpmBits \in Nat /\ D \subseteq 0 .. LpmBits /\ D # {}
    BY <1>4, LookupAssumption
  <2>2. PICK d \in D : \A e \in D : e <= d
    BY <2>1, GreatestNatural
  <2> QED
    BY <2>2
<1> HIDE DEF own, best
<1>5. own # {} => (CHOOSE q \in own : best(q)) \in own
  BY <1>4
<1> QED
  BY <1>1, <1>3, <1>5 DEF own, best

(* An address finds what its longest prefix was given last, until the      *)
(* numbers of the additions have gone round once.                          *)
THEOREM LpmAlwaysFindsLongest == LookupSpec => []LpmFindsLongest
<1>1. LookupInit => LpmInv
  <2> SUFFICES ASSUME LookupInit
               PROVE  LpmInv
    OBVIOUS
  <2>1. DOMAIN rules = {} /\ \A r : calls_for("lpm_add", r) = {}
    BY DEF LookupInit, calls_for, calls_of
  <2> QED
    BY <2>1 DEF LpmInv
<1>2. LookupTypeInv /\ LookupTypeInv' /\ LpmInv /\ [LookupNext]_lookupvars
        => LpmInv'
  <2> SUFFICES ASSUME LookupTypeInv, LookupTypeInv', LpmInv,
                      [LookupNext]_lookupvars
               PROVE  LpmInv'
    OBVIOUS
  <2>1. ASSUME NEW c \in CallSet, c.fun # "lpm_add", calls' = Append(calls, c),
               UNCHANGED <<lpmvars, running>>
        PROVE  LpmInv'
    <3>1. /\ calls_of("lpm_add")' = calls_of("lpm_add")
          /\ \A r : calls_for("lpm_add", r)' = calls_for("lpm_add", r)
      BY <2>1, CallsOfOthers DEF LookupTypeInv
    <3> QED
      BY <2>1, <3>1, LpmQuiet
  <2>2. ASSUME NEW key \in Keys, exact_add(key)
        PROVE  LpmInv'
    BY <2>1, <2>2, CallsAre DEF exact_add, call
  <2>3. ASSUME NEW pattern \in Patterns, ternary_add(pattern)
        PROVE  LpmInv'
    BY <2>1, <2>3, CallsAre DEF ternary_add, call
  <2>4. ASSUME NEW t \in Tables, table_setdefault(t)
        PROVE  LpmInv'
    BY <2>1, <2>4, CallsAre DEF table_setdefault, call
  <2>5. CASE UNCHANGED lookupvars
    <3>1. UNCHANGED <<lpmvars, running, calls>>
      BY <2>5 DEF lookupvars
    <3>2. /\ calls_of("lpm_add")' = calls_of("lpm_add")
          /\ \A r : calls_for("lpm_add", r)' = calls_for("lpm_add", r)
      BY <3>1 DEF calls_of, calls_for
    <3> QED
      BY <3>1, <3>2, LpmQuiet
  <2> QED
    BY <2>2, <2>3, <2>4, <2>5, LpmAddKeeps DEF LookupNext
<1>3. LookupTypeInv /\ LpmInv => LpmFindsLongest
  <2> SUFFICES ASSUME LookupTypeInv, LpmInv, running, NEW ip \in Addresses
               PROVE
                 LET own == {r \in Rules : covers(r, ip) /\ calls_for("lpm_add", r) # {}}
                 IN  IF own = {} THEN lpm_lookup(ip) = default_val["lpm"]
                     ELSE LET r == CHOOSE q \in own : \A o \in own : o.depth <= q.depth
                              n == newest(calls_for("lpm_add", r))
                          IN  /\ lpm_lookup(ip) >= n
                              /\ Cardinality(since(n)) < TABLE_MAX => lpm_lookup(ip) = n
    BY DEF LpmFindsLongest, since
  <2> DEFINE own == {r \in Rules : covers(r, ip) /\ calls_for("lpm_add", r) # {}}
             r == CHOOSE q \in own : \A o \in own : o.depth <= q.depth
             n == newest(calls_for("lpm_add", r))
  <2>1. /\ own = {q \in DOMAIN rules : covers(q, ip)}
        /\ own # {} => r \in own /\ longest(ip) = r
    BY LongestIs
  <2> HIDE DEF own, r, n
  <2>2. CASE own = {}
    BY <2>1, <2>2 DEF lpm_lookup, own
  <2>3. CASE own # {}
    <3>1. r \in DOMAIN rules /\ covers(r, ip) /\ longest(ip) = r
      BY <2>1, <2>3
    <3>2. rules[r] % TABLE_MAX = rules[r]
      BY <3>1, SmallRemainder DEF LookupTypeInv, LookupTypeOK, Index
    <3>3. lpm_lookup(ip) = lpm_content[rules[r]]
      BY <3>1, <3>2 DEF lpm_lookup
    <3>4. /\ lpm_content[rules[r]] >= n
          /\ Cardinality(since(n)) < TABLE_MAX => lpm_content[rules[r]] = n
      BY <3>1 DEF LpmInv, n
    <3> QED
      BY <2>3, <3>3, <3>4 DEF own, r, n
  <2> QED
    BY <2>2, <2>3
<1> QED
  BY <1>1, <1>2, <1>3, LookupTypeCorrect, PTL DEF LookupSpec

-----------------------------------------------------------------------------
(* The ternary table.                                                      *)

(* The entries are the ternary_add calls, in their order.                  *)
TernaryInv ==
  /\ \A i \in DOMAIN entries :
       LET n == entries[i].value
       IN  /\ n \in calls_of("ternary_add")
           /\ entries[i].key = calls[n].key.key
           /\ entries[i].mask = calls[n].key.mask
  /\ \A i, j \in DOMAIN entries : i < j => entries[i].value < entries[j].value
  /\ \A n \in calls_of("ternary_add") : \E i \in DOMAIN entries : entries[i].value = n

\* A round of the loop of naive_ternary_lookup, given the rounds before.
round(g, i, key) ==
  IF i = 0 THEN [match |-> TRUE, res |-> 0]
  ELSE IF i > 1 /\ g[i - 1].match THEN g[i - 1]
  ELSE IF matches(entries[i], key)
  THEN [match |-> TRUE, res |-> entries[i].value]
  ELSE [match |-> FALSE, res |-> g[i - 1].res]

(* Rounds that follow from each other are the rounds of the loop: no round *)
(* is the first to differ.                                                 *)
LEMMA RoundsAre ==
  ASSUME LookupTypeInv, NEW key, NEW h,
         h = [i \in 0 .. Len(entries) |-> round(h, i, key)]
  PROVE  LET last == h[Len(entries)]
         IN  naive_ternary_lookup(key) = IF last.match THEN last.res ELSE 0
<1> DEFINE N == Len(entries)
           scan == CHOOSE g : g = [i \in 0 .. N |-> round(g, i, key)]
<1>1. N \in Nat
  BY LenProperties DEF LookupTypeInv
<1>2. naive_ternary_lookup(key) = IF scan[N].match THEN scan[N].res ELSE 0
  BY DEF naive_ternary_lookup, round
<1>3. scan = [i \in 0 .. N |-> round(scan, i, key)]
  OBVIOUS
<1> HIDE DEF scan, N
<1>4. \A i \in 0 .. N : scan[i] = h[i]
  <2> DEFINE U == {i \in 0 .. N : scan[i] # h[i]}
  <2>1. SUFFICES ASSUME U # {}
                 PROVE  FALSE
    OBVIOUS
  <2>2. U \subseteq Nat
    BY <1>1
  <2>3. PICK i \in U : \A j \in U : i <= j
    BY <2>1, <2>2, LeastNatural
  <2>4. i \in 0 .. N /\ scan[i] # h[i]
    BY <2>3
  <2>5. scan[i] = round(scan, i, key) /\ h[i] = round(h, i, key)
    BY <1>3, <2>4 DEF N
  <2>6. i # 0 => scan[i - 1] = h[i - 1]
    <3>1. SUFFICES ASSUME i # 0
                   PROVE  i - 1 \notin U /\ i - 1 \in 0 .. N
      OBVIOUS
    <3> QED
      BY <1>1, <2>3, <2>4, <3>1
  <2>7. round(scan, i, key) = round(h, i, key)
    <3>1. CASE i = 0
      BY <3>1 DEF round
    <3>2. CASE i # 0
      BY <2>6, <3>2 DEF round
    <3> QED
      BY <3>1, <3>2
  <2> QED
    BY <2>4, <2>5, <2>7
<1>5. scan[N] = h[N]
  BY <1>1, <1>4
<1> QED
  BY <1>2, <1>5 DEF N

(* The loop returns the value of the first entry that matches.             *)
LEMMA ScanFinds ==
  ASSUME LookupTypeInv, entries # <<>>, NEW key
  PROVE  LET hits == {i \in DOMAIN entries : matches(entries[i], key)}
         IN  /\ hits = {} => naive_ternary_lookup(key) = 0
             /\ \A f \in hits : (\A i \in hits : f <= i) =>
                  naive_ternary_lookup(key) = entries[f].value
<1> DEFINE N == Len(entries)
           hits == {i \in DOMAIN entries : matches(entries[i], key)}
           start == [match |-> TRUE, res |-> 0]
           miss == [match |-> FALSE, res |-> 0]
<1>1. N \in Nat \ {0} /\ DOMAIN entries = 1 .. N
  BY LenProperties, EmptySeq DEF LookupTypeInv
<1> HIDE DEF N
<1>2. ASSUME hits = {}
      PROVE  naive_ternary_lookup(key) = 0
  <2> DEFINE h == [i \in 0 .. N |-> IF i = 0 THEN start ELSE miss]
  <2>1. ASSUME NEW i \in 0 .. N
        PROVE  h[i] = round(h, i, key)
    <3>1. CASE i = 0
      BY <3>1 DEF round
    <3>2. CASE i # 0
      <4>1. ~matches(entries[i], key)
        BY <1>1, <1>2, <2>1, <3>2
      <4>2. i - 1 \in 0 .. N /\ (i > 1 => i - 1 # 0) /\ i \in Int
        BY <1>1, <2>1, <3>2
      <4>3. h[i] = miss /\ h[i - 1].res = 0 /\ (i > 1 => ~h[i - 1].match)
        BY <3>2, <4>2
      <4> HIDE DEF h
      <4> QED
        BY <3>2, <4>1, <4>3 DEF round
    <3> QED
      BY <3>1, <3>2
  <2>2. h = [i \in 0 .. N |-> round(h, i, key)]
    BY <2>1
  <2>3. h[N] = miss
    BY <1>1
  <2> HIDE DEF h
  <2> QED
    BY <2>2, <2>3, RoundsAre DEF N
<1>3. ASSUME NEW f \in hits, \A i \in hits : f <= i
      PROVE  naive_ternary_lookup(key) = entries[f].value
  <2> DEFINE hit == [match |-> TRUE, res |-> entries[f].value]
             h == [i \in 0 .. N |-> IF i = 0 THEN start ELSE IF i < f THEN miss ELSE hit]
  <2>0. f \in 1 .. N /\ matches(entries[f], key)
    BY <1>1, <1>3
  <2>1. ASSUME NEW i \in 0 .. N
        PROVE  h[i] = round(h, i, key)
    <3>1. CASE i = 0
      BY <3>1 DEF round
    <3>2. CASE i # 0
      <4>2. i - 1 \in 0 .. N /\ (i > 1 => i - 1 # 0) /\ i \in Int /\ i \in 1 .. N
        BY <1>1, <2>1, <3>2
      <4>3. CASE i < f
        <5>1. ~matches(entries[i], key)
          BY <1>1, <1>3, <2>0, <4>2, <4>3
        <5>2. h[i] = miss /\ h[i - 1].res = 0 /\ (i > 1 => ~h[i - 1].match)
          BY <2>0, <3>2, <4>2, <4>3
        <5> HIDE DEF h
        <5> QED
          BY <3>2, <5>1, <5>2 DEF round
      <4>4. CASE i = f
        <5>1. h[i] = hit /\ (i > 1 => ~h[i - 1].match)
          BY <2>0, <3>2, <4>2, <4>4
        <5> HIDE DEF h
        <5> QED
          BY <2>0, <3>2, <4>4, <5>1 DEF round
      <4>5. CASE i > f
        <5>1. h[i] = hit /\ h[i - 1] = hit /\ i > 1
          BY <2>0, <3>2, <4>2, <4>5
        <5> HIDE DEF h
        <5> QED
          BY <3>2, <5>1 DEF round
      <4> QED
        BY <2>0, <4>2, <4>3, <4>4, <4>5
    <3> QED
      BY <3>1, <3>2
  <2>2. h = [i \in 0 .. N |-> round(h, i, key)]
    BY <2>1
  <2>3. h[N] = hit
    BY <1>1, <2>0
  <2> HIDE DEF h
  <2> QED
    BY <2>2, <2>3, RoundsAre DEF N
<1> QED
  BY <1>2, <1>3

(* A ternary_add call becomes the last entry.                              *)
LEMMA TernaryAddKeeps ==
  ASSUME LookupTypeInv, LookupTypeInv', TernaryInv, NEW pattern \in Patterns,
         ternary_add(pattern)
  PROVE  TernaryInv'
<1> DEFINE e == [key |-> pattern.key, mask |-> pattern.mask, value |-> value]
           N == Len(entries)
<1>1. /\ N \in Nat /\ DOMAIN entries = 1 .. N /\ DOMAIN entries' = 1 .. N + 1
      /\ \A i \in 1 .. N : entries'[i] = entries[i]
      /\ entries'[N + 1] = e
  <2>1. entries \in Seq(EntrySet) /\ entries' = Append(entries, e)
    BY DEF LookupTypeInv, ternary_add
  <2> HIDE DEF e
  <2> QED
    BY <2>1, LenProperties
<1>2. e.value = value /\ e.key = pattern.key /\ e.mask = pattern.mask
  OBVIOUS
<1>3. /\ value = Len(calls) + 1 /\ Len(calls) \in Nat
      /\ calls_of("ternary_add")' = calls_of("ternary_add") \union {value}
  BY CallsAre, CallsGrow DEF ternary_add, call, LookupTypeInv
<1>4. calls_of("ternary_add") \subseteq 1 .. Len(calls)
  BY CallsNumbered
<1>5. /\ \A n \in 1 .. Len(calls) : calls'[n] = calls[n]
      /\ calls'[value].key = pattern
  <2>1. calls' = Append(calls, [fun |-> "ternary_add", key |-> pattern])
    BY DEF ternary_add, call
  <2> HIDE DEF value
  <2> QED
    BY <1>3, <2>1 DEF LookupTypeInv
<1>6. \A i \in 1 .. N + 1 : i \in 1 .. N \/ i = N + 1
  BY <1>1
<1>0. \A i \in 1 .. N : i \in 1 .. N + 1 /\ ~(N + 1 < i)
  BY <1>1
<1> HIDE DEF e, N, value
<1>7. ASSUME NEW i \in DOMAIN entries'
      PROVE  LET n == entries'[i].value
             IN  /\ n \in calls_of("ternary_add")'
                 /\ entries'[i].key = calls'[n].key.key
                 /\ entries'[i].mask = calls'[n].key.mask
  <2>1. CASE i \in 1 .. N
    <3>1. /\ entries[i].value \in calls_of("ternary_add")
          /\ entries[i].key = calls[entries[i].value].key.key
          /\ entries[i].mask = calls[entries[i].value].key.mask
      BY <1>1, <2>1 DEF TernaryInv
    <3>2. calls'[entries[i].value] = calls[entries[i].value]
      BY <1>4, <1>5, <3>1
    <3> QED
      BY <1>1, <1>3, <2>1, <3>1, <3>2
  <2>2. CASE i = N + 1
    BY <1>1, <1>2, <1>3, <1>5, <2>2
  <2> QED
    BY <1>1, <1>6, <2>1, <2>2
<1>8. ASSUME NEW i \in DOMAIN entries', NEW j \in DOMAIN entries', i < j
      PROVE  entries'[i].value < entries'[j].value
  <2>1. i \in 1 .. N
    BY <1>0, <1>1, <1>6, <1>8
  <2>2. CASE j \in 1 .. N
    BY <1>1, <1>8, <2>1, <2>2 DEF TernaryInv
  <2>3. CASE j = N + 1
    <3>1. entries[i].value \in 1 .. Len(calls)
      BY <1>1, <1>4, <2>1 DEF TernaryInv
    <3> QED
      BY <1>1, <1>2, <1>3, <2>1, <2>3, <3>1
  <2> QED
    BY <1>1, <1>6, <2>2, <2>3
<1>9. ASSUME NEW n \in calls_of("ternary_add")'
      PROVE  \E i \in DOMAIN entries' : entries'[i].value = n
  <2>1. CASE n \in calls_of("ternary_add")
    BY <1>0, <1>1, <2>1 DEF TernaryInv
  <2>2. CASE n = value
    <3>1. N + 1 \in DOMAIN entries'
      BY <1>1
    <3> QED
      BY <1>1, <1>2, <2>2, <3>1
  <2> QED
    BY <1>3, <1>9, <2>1, <2>2
<1> QED
  BY <1>7, <1>8, <1>9 DEF TernaryInv

(* Other calls add no entry.                                               *)
LEMMA TernaryQuiet ==
  ASSUME LookupTypeInv, TernaryInv, UNCHANGED entries,
         calls_of("ternary_add")' = calls_of("ternary_add"),
         \A n \in DOMAIN calls : calls'[n] = calls[n]
  PROVE  TernaryInv'
<1>1. calls_of("ternary_add") \subseteq DOMAIN calls
  BY DEF calls_of
<1> QED
  BY <1>1 DEF TernaryInv

(* A packet meets the first access control entry that matches it.          *)
THEOREM TernaryAlwaysFindsFirst == LookupSpec => []TernaryFindsFirst
<1>1. LookupInit => TernaryInv
  BY DEF LookupInit, TernaryInv, calls_of
<1>2. LookupTypeInv /\ LookupTypeInv' /\ TernaryInv /\ [LookupNext]_lookupvars
        => TernaryInv'
  <2> SUFFICES ASSUME LookupTypeInv, LookupTypeInv', TernaryInv,
                      [LookupNext]_lookupvars
               PROVE  TernaryInv'
    OBVIOUS
  <2>1. ASSUME NEW c \in CallSet, c.fun # "ternary_add", calls' = Append(calls, c),
               UNCHANGED entries
        PROVE  TernaryInv'
    <3>1. calls_of("ternary_add")' = calls_of("ternary_add")
      BY <2>1, CallsOfOthers DEF LookupTypeInv
    <3>2. \A n \in DOMAIN calls : calls'[n] = calls[n]
      BY <2>1 DEF LookupTypeInv
    <3> QED
      BY <2>1, <3>1, <3>2, TernaryQuiet
  <2>2. ASSUME NEW key \in Keys, exact_add(key)
        PROVE  TernaryInv'
    BY <2>1, <2>2, CallsAre DEF exact_add, call
  <2>3. ASSUME NEW rule \in Rules, lpm_add(rule)
        PROVE  TernaryInv'
    BY <2>1, <2>3, CallsAre DEF lpm_add, call
  <2>4. ASSUME NEW t \in Tables, table_setdefault(t)
        PROVE  TernaryInv'
    BY <2>1, <2>4, CallsAre DEF table_setdefault, call
  <2>5. CASE UNCHANGED lookupvars
    BY <2>5, TernaryQuiet DEF lookupvars, calls_of
  <2> QED
    BY <2>2, <2>3, <2>4, <2>5, TernaryAddKeeps DEF LookupNext
<1>3. LookupTypeInv /\ TernaryInv => TernaryFindsFirst
  <2> SUFFICES ASSUME LookupTypeInv, TernaryInv, entries # <<>>,
                      NEW key \in SUBSET Bits
               PROVE
                 LET hits == {n \in calls_of("ternary_add") : matches(calls[n].key, key)}
                 IN  IF hits = {} THEN ternary_lookup(key) = default_val["ternary"]
                     ELSE ternary_lookup(key) \in hits
                          /\ \A n \in hits : ternary_lookup(key) <= n
    BY DEF TernaryFindsFirst
  <2> DEFINE hits == {n \in calls_of("ternary_add") : matches(calls[n].key, key)}
             at == {i \in DOMAIN entries : matches(entries[i], key)}
  <2>1. DOMAIN entries \subseteq Nat
    BY LenProperties DEF LookupTypeInv
  <2>2. \A i \in DOMAIN entries : i \in at <=> entries[i].value \in hits
    BY DEF TernaryInv, matches
  <2>3. \A n \in hits : \E i \in at : entries[i].value = n
    BY <2>2 DEF TernaryInv
  <2>4. /\ at = {} => naive_ternary_lookup(key) = 0
        /\ \A f \in at : (\A i \in at : f <= i) =>
             naive_ternary_lookup(key) = entries[f].value
    BY ScanFinds
  <2>5. CASE at = {}
    <3>1. hits = {}
      BY <2>3, <2>5
    <3> QED
      BY <2>4, <2>5, <3>1 DEF ternary_lookup
  <2>6. CASE at # {}
    <3>1. PICK f \in at : \A i \in at : f <= i
      BY <2>1, <2>6, LeastNatural
    <3>2. /\ naive_ternary_lookup(key) = entries[f].value
          /\ entries[f].value \in hits
      BY <2>2, <2>4, <3>1
    <3>3. entries[f].value # 0 /\ entries[f].value \in Int
      BY <3>2, CallsNumbered
    <3>4. ternary_lookup(key) = entries[f].value
      BY <3>2, <3>3 DEF ternary_lookup
    <3>5. ASSUME NEW n \in hits
          PROVE  entries[f].value <= n
      <4>1. PICK i \in at : entries[i].value = n
        BY <2>3, <3>5
      <4>2. f \in Nat /\ i \in Nat /\ f <= i
        BY <2>1, <3>1
      <4>3. CASE i = f
        BY <3>3, <4>1, <4>3
      <4>4. CASE f < i
        <5>1. entries[f].value < entries[i].value
          BY <3>1, <4>4 DEF TernaryInv
        <5>2. n \in Int
          BY <3>5, CallsNumbered
        <5> QED
          BY <3>3, <4>1, <5>1, <5>2
      <4> QED
        BY <4>2, <4>3, <4>4
    <3> QED
      BY <3>2, <3>4, <3>5
  <2> QED
    BY <2>5, <2>6
<1> QED
  BY <1>1, <1>2, <1>3, LookupTypeCorrect, PTL DEF LookupSpec
=============================================================================
