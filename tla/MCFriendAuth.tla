---------------------------- MODULE MCFriendAuth ----------------------------
(* Instances of FriendAuth for TLC.                                        *)
EXTENDS FriendAuth, TLC

MCSymmetry ==
  Permutations(Peer) \cup Permutations(Theirs) \cup Permutations(Task)
=============================================================================
