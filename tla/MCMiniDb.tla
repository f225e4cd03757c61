------------------------------ MODULE MCMiniDb ------------------------------
(* Two values and a deletion of one key, and a value of another.            *)
EXTENDS MiniDb

CONSTANTS s1, s2, d, t, a, b

MCKey == [w \in Writes |-> IF w = t THEN b ELSE a]
=============================================================================
