-------------------------- MODULE MCEnhancedAuth --------------------------
(* An instance of EnhancedAuth for TLC: two manufacturers with a field     *)
(* each, a device of either, a list of two entries.                        *)
EXTENDS EnhancedAuth, TLC

CONSTANTS w1, w2, m1, m2, d1, d2

NidOfMfg == (m1 :> "CN") @@ (m2 :> "serialNumber")
MadeByMfg == (d1 :> m1) @@ (d2 :> m2)
SubjectOf == (d1 :> [CN |-> "a", serialNumber |-> "none"])
          @@ (d2 :> [CN |-> "b", serialNumber |-> "c"])
AskedFor == {[CN |-> "a", serialNumber |-> "none"], [CN |-> "b", serialNumber |-> "c"]}
=============================================================================
