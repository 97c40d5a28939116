-------------------------- MODULE MCMessageDelivery --------------------------
(* Instances of MessageDelivery for TLC.                                   *)
EXTENDS MessageDelivery, TLC

MCSymmetry ==
  Permutations(Msg) \cup Permutations(Flush) \cup Permutations(Handler)
=============================================================================
