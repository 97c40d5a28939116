---------------------------- MODULE MCControlWorker ----------------------------
(* Every socket connects from one address.                                 *)
EXTENDS ControlWorker

CONSTANTS s1, s2, i1

MCIpOf == [s \in Socket |-> i1]
=============================================================================
