----------------------------- MODULE MCKordNode -----------------------------
(* A small instance of KordNode for TLC.                                   *)
EXTENDS KordNode

CONSTANTS r1, r2

(* One request can wait for a mutex that the other holds while it waits for *)
(* the node's lock.                                                        *)
TwoRequests == {r1, r2}
=============================================================================
