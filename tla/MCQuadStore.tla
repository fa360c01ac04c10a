---------------------------- MODULE MCQuadStore -----------------------------
(* Small instances of QuadStore for TLC.                                   *)
EXTENDS QuadStore, TLC

CONSTANTS a, b, c

Quad(s, o, l) ==
    [subject |-> s, predicate |-> c, object |-> o, label |-> l]

(* Quads that share nodes, repeat a node, and differ in the label only.    *)
SharedQuads ==
    {Quad(a, b, Nil), Quad(b, a, Nil), Quad(b, b, Nil), Quad(a, a, Nil), Quad(a, a, b)}
=============================================================================
