------------------------------ MODULE MCDataPlane ------------------------------
(* Two ports that are partners, bursts of two packets, three packets.  One *)
(* frame is routed by the static entries, with a ttl at its lower end; the *)
(* other one becomes routable by a message.  dmac is a table that the      *)
(* controller programs fill and the switch does not have.                  *)
EXTENDS DataPlane, TLC

MCPortList == 0 :> 1 @@ 1 :> 0
MCRxQueues == <<0, 1>>

RoutedFrame == [src |-> "a", dst |-> "b", vid |-> 1,
                ip |-> <<192, 168, 0, 1>>, ttl |-> 0]
PlainFrame  == [src |-> "c", dst |-> "b", vid |-> 1,
                ip |-> <<192, 168, 1, 1>>, ttl |-> 9]
MCFrames    == {RoutedFrame, PlainFrame}

None == [action |-> "none"]
Hop(mac) == [action |-> "set_nhop", smac |-> "a", dmac |-> mac, vid |-> 1]
Port(p)  == [action |-> "forward", port |-> p]

MCInitTables ==
  [vlan_ingress_proc |-> [entries |-> << >>, default_val |-> None],
   mac_learning |-> [entries |-> << >>, default_val |-> None],
   routable  |-> [entries |-> <<"a", "b", 1>> :> [action |-> "route"],
                  default_val |-> None],
   routing   |-> [entries |-> lpm_rule(RoutedFrame.ip, 24) :> Hop("hop1")
                  @@ lpm_rule(PlainFrame.ip, 24) :> [action |-> "_drop"],
                  default_val |-> None],
   switching |-> [entries |-> <<"b", 1>> :> Port(1),
                  default_val |-> [action |-> "broadcast"]]]

\* The address of which the bytes in front are the last of RoutedFrame.
ToRoutedFrame == <<1, 0, 168, 0>>

MCChanges ==
  {[fun |-> "add", table |-> "routing", key |-> <<ToRoutedFrame, 24>>,
    value |-> Hop("hop2")],
   [fun |-> "add", table |-> "routable", key |-> <<"c", "b", 1>>,
    value |-> [action |-> "route"]],
   [fun |-> "setdefault", table |-> "routing", key |-> << >>,
    value |-> Hop("hop3")],
   [fun |-> "add", table |-> "dmac", key |-> <<"b">>, value |-> Port(1)]}
=============================================================================
