--------------------------- MODULE MCCowPosition ---------------------------
(* CowPosition on small instances.                                         *)
EXTENDS CowPosition
=============================================================================
