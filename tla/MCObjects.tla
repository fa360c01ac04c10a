----------------------------- MODULE MCObjects ------------------------------
(* Small instances of Objects for TLC.                                     *)
EXTENDS Objects, TLC

(* Texts of which two pairs have the same concatenation, one that reads as *)
(* an IRI, and the empty text.                                             *)
ThreeProperties == {<<"a">>, <<"a", "a">>, <<"<", "a", ">">>}
ThreeContents == {<<>>, <<"a">>, <<"a", "a">>}

Symmetry == Permutations(Callers) \cup Permutations(Ids)
                \cup Permutations(Manifests) \cup Permutations(Variants)
=============================================================================
