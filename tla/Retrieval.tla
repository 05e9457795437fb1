------------------------------ MODULE Retrieval ------------------------------
(***************************************************************************)
(* What the request interface of an eth peer promises to the packages that *)
(* retrieve data with it (Request and Response of                          *)
(* eth/protocols/eth/dispatcher.go): a request is made once, its sink is   *)
(* handed at most one response, and none that was not asked for or that    *)
(* the request no longer waits for.  EthPeer implements it.                *)
(***************************************************************************)
CONSTANT Req \* requests

VARIABLES
  used,     \* requests made
  open,     \* requests a response may still be handed over for
  answered  \* requests whose response was handed over

vars == <<used, open, answered>>

Init == used = {} /\ open = {} /\ answered = {}

\* A request is sent, or refused: the connection is gone.
Issue(r) ==
  /\ r \notin used
  /\ used' = used \cup {r}
  /\ open' \in {open, open \cup {r}}
  /\ UNCHANGED answered

Answer(r) ==
  /\ r \in open
  /\ open' = open \ {r}
  /\ answered' = answered \cup {r}
  /\ UNCHANGED used

\* Requests are closed, or all of them end with the connection.
Withdraw(S) ==
  /\ open' = open \ S
  /\ UNCHANGED <<used, answered>>

Next ==
  \/ \E r \in Req : Issue(r) \/ Answer(r)
  \/ \E S \in SUBSET open : Withdraw(S)

Spec == Init /\ [][Next]_vars
==============================================================================
