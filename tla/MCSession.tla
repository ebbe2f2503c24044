----------------------------- MODULE MCSession -----------------------------
(* Small instances of Session for TLC: two callers that are interchangeable, *)
(* and keys that are.                                                         *)
EXTENDS Session, TLC

CONSTANTS c1, c2, k1, k2

OneProto  == {6}
TwoProtos == {5, 6}

Symmetry == Permutations({c1, c2}) \cup Permutations({k1, k2})

=============================================================================
