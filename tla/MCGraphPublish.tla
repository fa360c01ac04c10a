--------------------------- MODULE MCGraphPublish ---------------------------
(* Small instances of GraphPublish for TLC.                                *)
EXTENDS GraphPublish, TLC

ClientSymmetry == Permutations(Clients)
=============================================================================
