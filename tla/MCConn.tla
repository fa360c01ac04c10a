------------------------------- MODULE MCConn -------------------------------
(* A small instance of Conn for TLC.                                       *)
EXTENDS Conn, TLC

ClientSymmetry == Permutations(Clients)
=============================================================================
