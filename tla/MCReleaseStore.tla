--------------------------- MODULE MCReleaseStore ---------------------------
(* The release store for TLC: processes and releases are alike.            *)
EXTENDS ReleaseStore, TLC

Sym == Permutations(Proc) \cup Permutations(Release)
=============================================================================
