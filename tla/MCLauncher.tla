------------------------------ MODULE MCLauncher ------------------------------
(* An instance of Launcher for TLC.                                        *)
EXTENDS Launcher, TLC

MCSymmetry == Permutations(Pid)
=============================================================================
