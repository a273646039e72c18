------------------------------ MODULE MCCowCtl ------------------------------
(* CowCtl on a small instance.                                             *)
EXTENDS CowCtl, TLC

Symmetry == Permutations(Inode)
=============================================================================
