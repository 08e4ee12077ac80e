---------------------------- MODULE ReplicaTables ----------------------------
(***************************************************************************)
(* One lookup table of the data plane and its replicas (dpdk_lib.c).       *)
(* Every NUMA socket with an enabled lcore has NB_REPLICA instances of the *)
(* table; an lcore looks up in the instance its lcore_conf points to.  An  *)
(* update of the control plane (exact_add_promote and its three siblings)  *)
(* changes, on one socket after the other, an instance that no lcore is    *)
(* meant to use, points the lcores to it, waits for TABCHANGE_DELAY, and   *)
(* changes the other instances.  No lock is taken anywhere.                *)
(*                                                                         *)
(* Updates come from one thread, input_processor, and are numbered; an     *)
(* instance is the sequence of the updates made to it.  A lookup lasts     *)
(* from the moment apply_table_* reads the pointer until the last use of   *)
(* the values it got, which point into the instance (table_setdefault even *)
(* frees the old default value).                                           *)
(*                                                                         *)
(* Not here: the entries lcore 2 loads at its start (see Startup).         *)
(***************************************************************************)
EXTENDS Integers, Sequences

CONSTANTS NbSockets,      \* NB_SOCKETS
          NbReplica,      \* NB_REPLICA
          NbLcores,       \* how many lcores are enabled
          SocketOf,       \* rte_lcore_to_socket_id
          NumaOn,         \* numa_on, cleared by --no-numa
          DelaySuffices,  \* TRUE: TABCHANGE_DELAY outlasts every lookup that
                          \* was begun before the delay
          MaxUpdates,     \* bound: updates of the control plane
          NONE            \* no lookup is under way

Sockets  == 0 .. NbSockets - 1
Replicas == 0 .. NbReplica - 1
Lcores   == 0 .. NbLcores - 1

ASSUME ReplicaAssumption ==
  /\ NbSockets \in Nat \ {0}
  /\ NbReplica \in Nat /\ NbReplica >= 2
  /\ NbLcores \in Nat \ {0}
  /\ SocketOf \in [Lcores -> Sockets]
  /\ NumaOn \in BOOLEAN /\ DelaySuffices \in BOOLEAN
  /\ MaxUpdates \in Nat
  /\ NONE \notin Replicas

VARIABLES
  tables,           \* state[socket].tables[tid]: the updates in each instance
  active_replica,   \* state[socket].active_replica[tid]
  instance,         \* the instance lcore_conf[l].state.tables[tid] points to
  using,            \* the instance a lookup of lcore l is under way in
  updates,          \* how often the control plane called *_promote
  wpc,              \* where it is in CHANGE_TABLE
  socketid, next_replica, current_replica, lcore_id   \* its local variables

control == <<wpc, socketid, next_replica, current_replica, lcore_id>>
vars == <<tables, active_replica, instance, using, updates, control>>

\* The socket whose tables an lcore uses, and the sockets that have tables.
home(l) == IF NumaOn THEN SocketOf[l] ELSE 0
in_use  == {home(l) : l \in Lcores}

-----------------------------------------------------------------------------

Init == /\ tables = [s \in Sockets |-> [r \in Replicas |-> <<>>]]
        /\ active_replica = [s \in Sockets |-> 0]
        /\ instance = [l \in Lcores |-> 0]
        /\ using = [l \in Lcores |-> NONE]
        /\ updates = 0
        /\ wpc = "idle"
        /\ socketid = 0
        /\ next_replica = 0
        /\ current_replica = 0
        /\ lcore_id = 0

-----------------------------------------------------------------------------
(* An lcore looks up a batch of packets.                                   *)

lookup_begins(l) == /\ using[l] = NONE
                    /\ using' = [using EXCEPT ![l] = instance[l]]
                    /\ UNCHANGED <<tables, active_replica, instance, updates,
                                   control>>

lookup_ends(l) == /\ using[l] # NONE
                  /\ using' = [using EXCEPT ![l] = NONE]
                  /\ UNCHANGED <<tables, active_replica, instance, updates,
                                 control>>

-----------------------------------------------------------------------------
(* CHANGE_TABLE, for each socket that has tables, in the control plane's   *)
(* thread.  fun is exact_add, lpm_add, ternary_add or table_setdefault.    *)

\* Seeded bug: the index does not wrap.
replica_after_no_wrap(r) == r + 1

replica_after(r) == (r + 1) % NbReplica

promote == /\ wpc = "idle"
           /\ updates < MaxUpdates
           /\ updates' = updates + 1
           /\ wpc' = "sockets"
           /\ socketid' = 0
           /\ UNCHANGED <<tables, active_replica, instance, using,
                          next_replica, current_replica, lcore_id>>

\* fun is entered for the instance after the active one of a socket.
change_table == /\ wpc' = "fun_next"
                /\ current_replica' = active_replica[socketid]
                /\ next_replica' = replica_after(active_replica[socketid])
                /\ UNCHANGED socketid

socket_loop == /\ wpc = "sockets"
               /\ \/ /\ socketid \in in_use
                     /\ change_table
                  \/ /\ socketid \in Sockets \ in_use
                     /\ socketid' = socketid + 1
                     /\ UNCHANGED <<wpc, next_replica, current_replica>>
                  \/ /\ socketid \notin Sockets
                     /\ wpc' = "idle"
                     /\ UNCHANGED <<socketid, next_replica, current_replica>>
               /\ UNCHANGED <<tables, active_replica, instance, using, updates,
                              lcore_id>>

\* Seeded bug: the update is not made in the instance that becomes active.
fun_returns_in_next_unchanged ==
  /\ wpc = "fun_next"
  /\ wpc' = "change_replica"
  /\ lcore_id' = 0
  /\ UNCHANGED <<tables, active_replica, instance, using, updates, socketid,
                 next_replica, current_replica>>

\* Seeded bug: change_replica leaves out the first lcore.
fun_returns_in_next_from_1 ==
  /\ wpc = "fun_next"
  /\ tables' = [tables EXCEPT ![socketid][next_replica] = Append(@, updates)]
  /\ wpc' = "change_replica"
  /\ lcore_id' = 1
  /\ UNCHANGED <<active_replica, instance, using, updates, socketid,
                 next_replica, current_replica>>

fun_returns_in_next ==
  /\ wpc = "fun_next"
  /\ tables' = [tables EXCEPT ![socketid][next_replica] = Append(@, updates)]
  /\ wpc' = "change_replica"
  /\ lcore_id' = 0
  /\ UNCHANGED <<active_replica, instance, using, updates, socketid,
                 next_replica, current_replica>>

\* Seeded bug: the active replica changes, the pointers of the lcores do not.
change_replica_keeps_pointers ==
  /\ wpc = "change_replica"
  /\ lcore_id \in Lcores
  /\ lcore_id' = lcore_id + 1
  /\ active_replica' = IF SocketOf[lcore_id] = socketid
                       THEN [active_replica EXCEPT ![socketid] = next_replica]
                       ELSE active_replica
  /\ UNCHANGED <<tables, instance, using, updates, wpc, socketid,
                 next_replica, current_replica>>

\* One round of the loop over the lcores.  It asks for the socket of the
\* lcore itself, whether numa_on is set or not.
change_replica ==
  /\ wpc = "change_replica"
  /\ lcore_id \in Lcores
  /\ lcore_id' = lcore_id + 1
  /\ \/ /\ SocketOf[lcore_id] = socketid
        /\ instance' = [instance EXCEPT ![lcore_id] = next_replica]
        /\ active_replica' = [active_replica EXCEPT ![socketid] = next_replica]
     \/ /\ SocketOf[lcore_id] # socketid
        /\ UNCHANGED <<instance, active_replica>>
  /\ UNCHANGED <<tables, using, updates, wpc, socketid, next_replica,
                 current_replica>>

change_replica_returns ==
  /\ wpc = "change_replica"
  /\ lcore_id \notin Lcores
  /\ wpc' = "usleep"
  /\ UNCHANGED <<tables, active_replica, instance, using, updates, socketid,
                 next_replica, current_replica, lcore_id>>

old_lookups == {l \in Lcores : home(l) = socketid
                               /\ using[l] \notin {NONE, next_replica}}

usleep_returns ==
  /\ wpc = "usleep"
  /\ DelaySuffices => old_lookups = {}
  /\ wpc' = "replicas"
  /\ current_replica' = 0
  /\ UNCHANGED <<tables, active_replica, instance, using, updates, socketid,
                 next_replica, lcore_id>>

\* Seeded bug: the loop is left at the first replica that is up to date.
replica_loop_breaks ==
  /\ wpc = "replicas"
  /\ \/ /\ current_replica \in Replicas \ {next_replica}
        /\ wpc' = "fun_other"
        /\ UNCHANGED <<socketid, current_replica>>
     \/ /\ current_replica \notin Replicas \ {next_replica}
        /\ wpc' = "sockets"
        /\ socketid' = socketid + 1
        /\ UNCHANGED current_replica
  /\ UNCHANGED <<tables, active_replica, instance, using, updates,
                 next_replica, lcore_id>>

replica_loop ==
  /\ wpc = "replicas"
  /\ \/ /\ current_replica \in Replicas \ {next_replica}
        /\ wpc' = "fun_other"
        /\ UNCHANGED <<socketid, current_replica>>
     \/ /\ current_replica = next_replica
        /\ current_replica' = current_replica + 1
        /\ UNCHANGED <<wpc, socketid>>
     \/ /\ current_replica \notin Replicas
        /\ wpc' = "sockets"
        /\ socketid' = socketid + 1
        /\ UNCHANGED current_replica
  /\ UNCHANGED <<tables, active_replica, instance, using, updates,
                 next_replica, lcore_id>>

fun_returns_in_other ==
  /\ wpc = "fun_other"
  /\ tables' = [tables EXCEPT ![socketid][current_replica] = Append(@, updates)]
  /\ wpc' = "replicas"
  /\ current_replica' = current_replica + 1
  /\ UNCHANGED <<active_replica, instance, using, updates, socketid,
                 next_replica, lcore_id>>

-----------------------------------------------------------------------------

ControlPlane == \/ promote \/ socket_loop \/ fun_returns_in_next
                \/ change_replica \/ change_replica_returns
                \/ usleep_returns \/ replica_loop \/ fun_returns_in_other

Next == \/ ControlPlane
        \/ \E l \in Lcores : lookup_begins(l) \/ lookup_ends(l)

Spec == Init /\ [][Next]_vars

\* The control plane's thread runs, and no lookup lasts for ever.
FairSpec == /\ Spec
            /\ WF_vars(ControlPlane)
            /\ \A l \in Lcores : WF_vars(lookup_ends(l))

-----------------------------------------------------------------------------

TypeOK == /\ tables \in [Sockets -> [Replicas -> Seq(Int)]]
          /\ active_replica \in [Sockets -> Replicas]
          /\ instance \in [Lcores -> Replicas]
          /\ using \in [Lcores -> Replicas \union {NONE}]
          /\ updates \in 0 .. MaxUpdates
          /\ wpc \in {"idle", "sockets", "fun_next", "change_replica",
                      "usleep", "replicas", "fun_other"}
          /\ socketid \in 0 .. NbSockets
          /\ next_replica \in Replicas
          /\ current_replica \in 0 .. NbReplica
          /\ lcore_id \in 0 .. NbLcores

\* The instance that fun is changing right now.
changing(r) == \/ wpc = "fun_next"  /\ r = next_replica
               \/ wpc = "fun_other" /\ r = current_replica

(* An instance never changes while a lookup is under way in it: that is    *)
(* what the replicas are for, since neither side takes a lock.             *)
NoChangeUnderLookup ==
  \A l \in Lcores : home(l) = socketid => ~changing(using[l])

(* Between two updates the replicas of a table hold the same entries, on   *)
(* every socket: what is looked up does not depend on which one is active. *)
ReplicasAreCopies ==
  wpc = "idle" => \A s, z \in in_use : \A r, q \in Replicas :
                    tables[s][r] = tables[z][q]

(* To every lcore the table is what TableView says it is: updates become   *)
(* visible as a whole, in order, and none is forgotten when the replica    *)
(* changes.                                                                *)
View == INSTANCE TableView
          WITH seen <- [l \in Lcores |-> tables[home(l)][instance[l]]]
ImplementsTableView == View!Spec

(* Every update reaches every lcore.                                       *)
EveryUpdateSeen ==
  \A n \in 1 .. MaxUpdates : \A l \in Lcores :
    updates >= n ~> Len(tables[home(l)][instance[l]]) >= n
=============================================================================
