----------------------------- MODULE MCEnodePool -----------------------------
(* Instances of EnodePool for model checking.                              *)
EXTENDS EnodePool, TLC

CONSTANTS k1, k2, k3, c1, c2

MCCrawlers == Permutations({c1, c2})
==============================================================================
