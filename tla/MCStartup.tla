----------------------------- MODULE MCStartup -----------------------------
(* Three lcores, one of which is not in the default configuration, on one   *)
(* socket, on two, and on one that is out of range; four ports.            *)
EXTENDS Startup

MCLcores == {1, 2, 3}

MCTopologies == {[l \in MCLcores |-> 0],
                 [l \in MCLcores |-> IF l = 3 THEN 1 ELSE 0],
                 [l \in MCLcores |-> IF l = 3 THEN 2 ELSE 0]}

Flag(name)       == [opt |-> name]
p(mask)          == [opt |-> "p", mask |-> mask]
config_(triples) == [opt |-> "config", triples |-> triples]
max_pkt_len(len) == [opt |-> "max-pkt-len", len |-> len]

MCCommandLines == {
  <<>>, <<config_(<<>>)>>,                               \* no port enabled
  <<p(0 .. 3)>>,                                         \* the default queues
  <<p({}), Flag("P")>>,                                  \* all ports
  <<p({33})>>,                                           \* no bit remains
  <<p(0 .. 3), Flag("no-numa")>>,
  <<p({0, 1}), config_(<< <<0, 0, 1>>, <<1, 0, 2>>, <<0, 1, 3>> >>)>>,
  <<p({0, 1}), config_(<< <<0, 1, 3>> >>), Flag("no-numa")>>,  \* no queue 0
  <<p({0, 1}), config_(<< <<0, 0, 2>>, <<0, 0, 3>> >>)>>,  \* shared by two
  <<p({0}), config_(<<>>)>>,                             \* nothing to poll
  <<p({0}), config_([i \in 1 .. 8 |-> <<0, i - 1, 2>>])>>,    \* too many
  <<p({0}), config_([i \in 1 .. 10 |-> <<0, i - 1, 2>>])>>,
  <<p({0}), config_(<< <<0, 0>> >>)>>,
  <<p({0}), config_(<< <<0, 0, 256>> >>)>>,
  <<p({0}), config_(<< <<0, 128, 2>> >>)>>,
  <<p({0}), config_(<< <<0, 0, 4>> >>)>>,                \* not enabled
  <<p({0, 5}), config_(<< <<5, 0, 2>> >>)>>,             \* not present
  <<p(0 .. 3), Flag("enable-jumbo"), max_pkt_len(9000)>>,
  <<p(0 .. 3), Flag("enable-jumbo"), max_pkt_len(9601)>>,
  <<Flag("enable-jumbo"), p(0 .. 3)>>,                   \* -p is swallowed
  <<p(0 .. 3), Flag("enable-jumbo"), Flag("no-numa")>>,
  <<p(0 .. 3), Flag("hash-entry-num"), Flag("enable-jumbo")>>,
  <<p(0 .. 3), Flag("unknown")>> }
=============================================================================
