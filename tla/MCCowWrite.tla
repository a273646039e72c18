----------------------------- MODULE MCCowWrite -----------------------------
(* CowWrite on small instances: threads and opens are symmetric.           *)
EXTENDS CowWrite, TLC

Symmetry == Permutations(Thread) \cup Permutations(Open)
=============================================================================
