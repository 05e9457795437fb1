----------------------------- MODULE MCCoinBase -----------------------------
(* Small instances of CoinBase. *)
EXTENDS CoinBase

CONSTANTS p1, p2, m1, r1

MCMaxBlock == [p \in {p1, p2} |-> IF p = p1 THEN 2 ELSE 1]
==============================================================================
