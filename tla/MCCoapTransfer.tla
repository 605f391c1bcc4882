-------------------------- MODULE MCCoapTransfer --------------------------
(* Instances of CoapTransfer for TLC. *)
EXTENDS CoapTransfer, TLC

CONSTANTS p1, c1, c2

KeyOfP == [p \in Peers |-> p]
OneEndpoint == [p \in Peers |-> "v4"]
OneLength == {<<121, 256>>}
OptionsOk == {<<"ok", "ok">>}
Plan2 == <<c1, c2>>
=============================================================================
