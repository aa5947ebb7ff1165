---------------------------- MODULE MCGatewaySession ----------------------------
(* Values for the constants of GatewaySession: two cards of one slot, two requests. *)
EXTENDS GatewaySession

CONSTANTS r1, r2

OnePerCard == [g \in Gpus |-> 1]
Two == {r1, r2}
OneSlow == {r1}
================================================================================
