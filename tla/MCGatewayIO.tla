----------------------------- MODULE MCGatewayIO -----------------------------
(* Instances of GatewayIO for TLC: the constants get their values in the cfgs. *)
EXTENDS GatewayIO
==============================================================================
