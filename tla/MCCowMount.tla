----------------------------- MODULE MCCowMount -----------------------------
(* CowMount on small instances.                                            *)
EXTENDS CowMount
=============================================================================
