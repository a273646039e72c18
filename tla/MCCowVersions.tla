--------------------------- MODULE MCCowVersions ---------------------------
(* CowVersions on small instances, with the symmetry of its actors.        *)
EXTENDS CowVersions, TLC

Symmetry == Permutations(Thread) \cup Permutations(Inode)
=============================================================================
