--------------------------- MODULE MCCredentialStore ---------------------------
(* CredentialStore on small instances.                                         *)
EXTENDS CredentialStore, TLC

CONSTANTS a1, a2, r1, i1, i2, i3, t1, t2, s1, s2

SomeTokenOf == s1 :> t1 @@ s2 :> t2
Symmetry == Permutations({i1, i2, i3}) \cup Permutations({a1, a2})
================================================================================
