----------------------------- MODULE MCRegistry -----------------------------
(* A small instance of Registry for TLC.  The owner signs one message, the *)
(* hash of a graph or the ID of a claim for all the contract knows, and    *)
(* setGraph is called with that one and with another.                      *)
EXTENDS Registry
=============================================================================
