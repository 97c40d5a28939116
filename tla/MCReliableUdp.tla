---------------------------- MODULE MCReliableUdp ----------------------------
(* Instances of ReliableUdp for TLC.                                       *)
EXTENDS ReliableUdp, TLC

MCParts == [m \in Msg |-> 2]
=============================================================================
