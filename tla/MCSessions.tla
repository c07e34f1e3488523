----------------------------- MODULE MCSessions -----------------------------
(* Sessions.tla on a small instance: two sessions exist, the limit is two,  *)
(* and three requests come in.                                              *)
EXTENDS Sessions, TLC

CONSTANTS r1, r2, r3, s1, s2

MCRequests == {r1, r2, r3}
MCOldTokens == {s1, s2}
MCSymmetry == Permutations(MCRequests) \union Permutations(MCOldTokens)
=============================================================================
