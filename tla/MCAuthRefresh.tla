----------------------------- MODULE MCAuthRefresh -----------------------------
(* AuthRefresh on small instances: the refresh loop alone, and two callers.    *)
EXTENDS AuthRefresh, TLC

CONSTANTS c1, c2

AnyReply == AllReplies
ConclusiveReplies == AllReplies \ {"mismatch"}
TwoCallers == {c1, c2}
OneCaller == {c1}
Symmetry == Permutations(TwoCallers)
================================================================================
