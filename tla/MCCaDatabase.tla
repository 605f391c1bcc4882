--------------------------- MODULE MCCaDatabase ---------------------------
(* Instances of CaDatabase for TLC. *)
EXTENDS CaDatabase

CONSTANTS n1, n2, n3

Names3 == {n1, n2, n3}
=============================================================================
