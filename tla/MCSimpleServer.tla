-------------------------- MODULE MCSimpleServer --------------------------
(* Instances of SimpleServer for TLC. *)
EXTENDS SimpleServer

CONSTANTS w1, w2

Workers2 == {w1, w2}
=============================================================================
