---------------------------- MODULE MCGatewayNext ----------------------------
(* Instances of GatewayNext for TLC: the constants get their values in the cfgs. *)
EXTENDS GatewayNext
==============================================================================
