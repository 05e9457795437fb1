-------------------------- MODULE MCDialScheduler --------------------------
(* Instances of DialScheduler for model checking. *)
EXTENDS DialScheduler

CONSTANTS n1, n2
=============================================================================
