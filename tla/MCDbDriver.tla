----------------------------- MODULE MCDbDriver -----------------------------
(* Small instances of DbDriver for TLC.                                    *)
EXTENDS DbDriver, TLC

(* Every name spells the same address, as the checksummed and lower-case   *)
(* forms of one KORD ID do.                                                *)
OneAddress == [n \in Names |-> CHOOSE a \in Addrs : TRUE]

Symmetry == Permutations(Openers) \cup Permutations(Setters) \cup Permutations(Dbs)
=============================================================================
