---------------------------- MODULE MCMacLearning ----------------------------
(* Two lcores, two stations that send to each other, and a controller with *)
(* queues of two, and with no file, with one that lists more than it keeps *)
(* and one station on another port, and with a wrong one.                  *)
EXTENDS MacLearning

CONSTANTS m1, m2

MCMacs  == {m1, m2}
MCPorts == {1, 2}

MCTraffic == {<<m1, m2, 1>>, <<m2, m1, 2>>}

MCFiles == {<<>>,
            <<[mac |-> m2, port |-> 1], [mac |-> m1, port |-> 1]>>,
            <<[mac |-> m1, port |-> 1], [mac |-> NONE, port |-> 1]>>}
=============================================================================
