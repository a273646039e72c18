--------------------------- MODULE MCCowNamespace ---------------------------
(* CowNamespace on small instances: numbers and names are symmetric.        *)
EXTENDS CowNamespace, TLC

Symmetry == Permutations(Inode) \cup Permutations(Name)
=============================================================================
