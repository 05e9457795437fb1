------------------------------ MODULE MCEthPeer ------------------------------
(* Instances of EthPeer for model checking. *)
EXTENDS EthPeer

CONSTANTS f, g, c, w, b
==============================================================================
