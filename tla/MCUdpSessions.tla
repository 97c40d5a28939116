--------------------------- MODULE MCUdpSessions ---------------------------
(* Instances of UdpSessions for TLC.                                       *)
EXTENDS UdpSessions, TLC

(* Two endpoints of one host: a NAT that changes the source port.          *)
MCHostOf == [d \in Direct |-> "host"]

MCSymmetry == Permutations(Sid) \cup Permutations(Nonce)
=============================================================================
