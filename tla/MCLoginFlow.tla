------------------------------ MODULE MCLoginFlow ------------------------------
(* LoginFlow on small instances.                                               *)
EXTENDS LoginFlow, TLC

CONSTANTS c1, c2, c3, b1, b2

Symmetry == Permutations({c1, c2, c3}) \cup Permutations({b1, b2})
================================================================================
