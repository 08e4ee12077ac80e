------------------------------ MODULE MCMsgFifo ------------------------------
(* A ring of three slots, two consumers and seven messages: the ring wraps *)
(* twice and fills up.                                                     *)
EXTENDS MsgFifo
=============================================================================
