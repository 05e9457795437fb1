----------------------------- MODULE MCStreamHub -----------------------------
(* Instances of StreamHub for model checking.                              *)
EXTENDS StreamHub, TLC
CONSTANTS p1, p2, p3, t1, t2, t3, b1, h1, h2, n1

\* Two calls under one name.
MCNameOf == (h1 :> n1) @@ (h2 :> n1)

\* A single call.
MCOneCall == (h1 :> n1)

\* Items each peer forwards.
MCMaxCall == (p1 :> 2) @@ (p2 :> 1)
MCMaxCallLive == (p1 :> 2) @@ (p2 :> 2)
==============================================================================
