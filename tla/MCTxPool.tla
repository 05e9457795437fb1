------------------------------ MODULE MCTxPool ------------------------------
(* An instance of TxPool for model checking.                               *)
EXTENDS TxPool

MCTx == 1..5
MCFrom == <<"a", "a", "a", "b", "b">>
MCNonce == <<0, 0, 1, 0, 1>>
MCPrice == <<10, 12, 20, 15, 11>>
MCSlots == <<1, 1, 1, 1, 1>>

MCGenesis == [mined |-> {}, poor |-> {}]

\* The account a is used by both; a0 has a replacement, a1 follows it.
MCOffers == [local |-> {1, 2}, remote |-> {1, 3, 4}]
\* A block with a transaction of a, and a state in which b is poor.
MCHeads == {MCGenesis, [mined |-> {1}, poor |-> {"b"}]}

\* A block that has no transaction of a.
MCHeadsOther == {MCGenesis, [mined |-> {4}, poor |-> {}]}
==============================================================================
