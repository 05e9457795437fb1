------------------------------ MODULE MCPeerSet ------------------------------
(* Instances of PeerSet for model checking.                                *)
EXTENDS PeerSet, TLC
CONSTANTS n1, n2, n3

\* Two nodes compete for a slot, one with a satellite eth waits for, while a
\* trusted one comes and goes with its satellite or without eth.
MCCapSets ==
  n1 :> {{"eth", "diff"}} @@ n2 :> {{"eth"}} @@ n3 :> {{"eth", "snap"}, {"snap"}}

\* The node with the diff satellite comes back once.
MCMaxSess == n1 :> 2 @@ n2 :> 1 @@ n3 :> 1

\* For the timer: one extension, or none that is waited for; one connection.
MCCapSetsTimeout == [id \in {n1, n2} |-> {{"eth", "diff"}, {"eth", "trust"}}]
MCMaxSessTimeout == [id \in {n1, n2} |-> 1]
==============================================================================
